SPECIFICATION Spec
CONSTANTS
  h1 = h1
  h2 = h2
  h3 = h3
  NoHandle = NoHandle
  NumSessions = 2
  Handles <- TwoHandles
  Presets <- TwoPresets
  Effects <- OnlyNs
  ForeignTypes <- Nothing
  VeqInputs <- Nothing
  OpenFailures <- NoFailure
PROPERTIES
  RecordingKeepsPreset
