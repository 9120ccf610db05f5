SPECIFICATION FairSpec
CONSTANTS
  Sources <- MCSources
  Tracks <- MCTracks
  OptionSets <- MCOptionSets
  MaxPiece = 2
  MaxGeneration = 2
INVARIANTS RequestsBounded LateAnswersMiss FindsTheRangeHeard
PROPERTY ProbeEnds
CHECK_DEADLOCK FALSE
