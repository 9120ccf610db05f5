SPECIFICATION FramingSpec
CONSTANTS
  MaxTlvPayload = 4
  MaxResyncBuffer = 18
  Streams <- MCStreams
INVARIANT BoundedRecovery
PROPERTIES PacketsInOrder Refinement
