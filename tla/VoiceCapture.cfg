SPECIFICATION Spec
CONSTANTS
  h1 = h1
  NoHandle = NoHandle
  NumSessions = 1
  Handles <- OneHandle
  Effects <- NsAndAec
  OutMasks <- SomeOutputs
  InDevs <- MicOrSco
  InSources <- SomeSources
  OpenFailures <- SomeFailures
INVARIANTS
  CachesAgree
  RecordedOnItsPreset
  RecordingIsTuned
PROPERTIES
  RecordingKeepsPreset
