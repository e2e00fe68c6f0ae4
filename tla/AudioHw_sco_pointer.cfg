SPECIFICATION Spec
CONSTANTS
  i1 = i1
  NoHandle = NoHandle
  Inputs <- OneInput
  OutMasks <- SpeakerOrSco
  InDevs <- MicOrSco
  InSources <- OnlyMicSource
  Modes <- NoCalls
  NrecValues <- EitherNrec
  Env <- Failures
INVARIANTS
  ScoSetIsOpen
