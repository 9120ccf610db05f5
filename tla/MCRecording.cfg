SPECIFICATION Spec
CONSTANTS
  MaxTime = 6
  None = None
  Units <- MCUnits
  Restored <- MCRestored
  Durations = {2, 5}
  Targets <- MCTargets
  SourceSize = 12
  VideoTracks = {1, 2}
INVARIANTS PointsOrdered RapsKept DurationCovers LookupsAgree
PROPERTIES DurationGrows
CHECK_DEADLOCK FALSE
