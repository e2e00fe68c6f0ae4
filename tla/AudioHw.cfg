SPECIFICATION Spec
CONSTANTS
  i1 = i1
  NoHandle = NoHandle
  Inputs <- OneInput
  OutMasks <- SpeakerOrSco
  InDevs <- MicOrSco
  InSources <- OnlyMicSource
  Modes <- Calls
  NrecValues <- EitherNrec
  Env <- Failures
VIEW view
INVARIANTS
  VoiceFollowsCall
  ScoBothOrNeither
  MixerRouted
  ModemRouted
  HandleIsActive
PROPERTIES
  OutputsKeepRoute
  RecordingKeepsRoute
