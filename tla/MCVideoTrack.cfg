SPECIFICATION Spec
CONSTANTS
  SequenceModulus = 7
  MaxAccessUnit = 5
  Stream <- MCStream
  AccessUnits <- MCAccessUnits
  MaxJump = 3
  MaxBack = 1
INVARIANT OnePicture
PROPERTIES LossFlagged JoinsAtRandomAccess PictureSurvives LossInDamageOrEarly
