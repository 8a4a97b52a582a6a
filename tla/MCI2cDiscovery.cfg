\* Discovery on a small bus whose buffer can overflow.
CONSTANTS
  DriverCount = 3
  DriverLevel <- MCLevel
  DriverAddress <- MCAddress
  NoAddress = 255
  BusDriver = 0
  Chatty = {1}
  AddressMax = 2
  BufferSize = 2
SPECIFICATION LiveSpec
INVARIANTS TypeOK
PROPERTIES FreshScanVerdict ScanEnds
