SPECIFICATION Spec
CONSTANTS
  a = a
  LineSize = 6
  ArgumentMax = 2
  RxCapacity = 2
  Letters = {a}
  Space = space
  Newline = newline
  Nul = nul
  Commands <- MCCommands
  DriverCommands <- MCCommands
PROPERTIES ArgumentsAreTyped
