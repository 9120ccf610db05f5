SPECIFICATION ReassemblySpec
CONSTANTS
  Message = {1, 2, 3, 4, 5, 6, 7, 8, 9, 10}
  Format <- MCFormat
  Stream <- MCStream
  SequenceModulus = 7
  MaxMessage = 5
  MaxJump = 5
  MaxRefused = 1
INVARIANT WholeTables
PROPERTY MessagesOnce
