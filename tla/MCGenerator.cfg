\* Sound inputs under edits and one fault; every unsound variant of them once.
SPECIFICATION MCSpec
CONSTANTS
  bad = bad
  long = long
  missing = missing
  none = none
  BadToken = bad
  Missing = missing
  NoFile = none
  Numeral <- MCNumeral
  I2cAddress = {"27"}
  HashWord = {"#"}
  LongName = {"long"}
  RegularFile = {"f.c"}
  Directory = {"dir"}
  CommandHeader = {"date", "stack"}
  ErrorLimit = 4
  ScliLimit = 1
  MacroName <- MCMacroName
  Files <- MCFiles
  TooLong <- MCTooLong
  Config = "conf"
  Start <- MCStart
  Edits <- MCEdits
  ErrorTest = 3
  MaxEdits = 1
  MaxFaults = 1
INVARIANTS TypeOK VerdictIsValidity DestinationsAreWhole SuccessIsComplete ThreadRecordsAgree
PROPERTIES PublishesErrorFree
