\* A scan after one that failed half way.
CONSTANTS
  DriverCount = 3
  DriverLevel <- MCLevel
  DriverAddress <- MCAddress
  NoAddress = 255
  BusDriver = 0
  Chatty = {1}
  AddressMax = 2
  BufferSize = 2
SPECIFICATION Spec
PROPERTIES EveryScanVerdict
