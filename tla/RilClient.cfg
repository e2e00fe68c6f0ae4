SPECIFICATION Spec
CONSTANTS
  Control = Control
  Free = Free
  FullVolume = FullVolume
  Missed = Missed
  stream = stream
  low = low
  MaxInbox = 2
  left = left
  Left <- OneLeft
  Streams <- OneStream
  Modes <- MCModes
  Volumes <- MCVolumes
INVARIANTS
  WbAmrSettles
  CallReachesModem
