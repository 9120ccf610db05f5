SPECIFICATION Spec
CONSTANTS
  Track = {1, 2, 3}
  Video = {1, 2}
  Subtitle = {3}
  Stream <- MCStream
  Mpts <- MCMpts
  MaxChunk = 2
  MaxEpoch = 1
  Seeks = {1}
  MaxChoices = 2
INVARIANTS SwitchIsClean SeekMarkedOnce ClockIsTimeline DamageAccounted
