SPECIFICATION LiveSpec
CONSTANTS
  Size = 2
  RxBytes = {r, s}
  TxBytes = {a, b}
  NoByte = none
INVARIANT TypeOK
PROPERTIES WriteIsReported CallsReturn ReadReportsOwnError RxIsQueue TxIsQueue
