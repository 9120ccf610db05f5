SPECIFICATION AssemblerSpec
CONSTANTS
  Absent = Absent
  Escapes = Escapes
  MaxPendingUnits = 2
  MaxPendingBytes = 3
  MaxResources = 5
  MaxResource = 3
  GroupSpan = 4
  Carousels <- MCCarousels
  MaxInterruptions = 1
INVARIANT AcquiresAnyway
CHECK_DEADLOCK FALSE
