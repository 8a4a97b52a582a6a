SPECIFICATION DeviceSpec
CONSTANTS
  LevelCount = 4
  shell = shell
  userTask = userTask
  Tasks = {shell, userTask}
  Registers <- MCRegisters
  BusCalls <- MCBusCalls
  ClockStarts <- MCClockStarts
  MaxCalls = 2
  MaxTrouble = 1
  SignalUsers = {shell, userTask}
  SignalNames = {"led", "relay", "key"}
  Wiring <- MCWiring
  MaxSignalCalls = 4
  ByteBase = 2
  TickModulus = 8
  MaxPeriods = 9
  MaxClockCalls = 4
  Printers = {shell, userTask}
  Printable = {"a", "b"}
  InputSize = 3
  TxSize = 2
  MaxActivity = 4
  TypedTimes <- MCTypedTimes
  TypedDates <- MCTypedDates
  MaxTypos = 1
CHECK_DEADLOCK FALSE
INVARIANTS DeviceTypeOK QuietBusIsFree StatusIsTrue SignalsAreKept TextGoesThrough
PROPERTIES BusResultsAreTrue ImplementsDriverTable BusCallsReturn ReadIsCurrent
