SPECIFICATION LiveSpec
CONSTANTS
  a = a
  LineSize = 5
  ArgumentMax = 2
  RxCapacity = 2
  Letters = {a}
  Space = space
  Newline = newline
  Nul = nul
  Commands <- MCCommands
  DriverCommands <- MCCommands
INVARIANTS TypeOK LineIsTerminated
PROPERTIES CommandIsTyped PollingGoesOn
