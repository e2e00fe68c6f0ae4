SPECIFICATION FairSpec
CONSTANTS
  Period = 3
  Rate = 625
  MaxCaptured = 12
  Stale = Stale
  Silence = Silence
  Sound = Sound
  Requests <- MCRequests
  PcmResults <- MayFail
INVARIANTS
  TypeOK
  FramesInOrder
  CopiedInOrder
  RampOnCourse
PROPERTIES
  ReadEnds
