SPECIFICATION Spec
CONSTANTS
  SequenceModulus = 7
  MaxAccessUnit = 3
  Stream <- MCStream
  Tag = {1, 2}
  MaxJump = 5
  RepeatAggregates = FALSE
INVARIANT UnitsSurvive
PROPERTY Refinement
