SPECIFICATION FairSpec
CONSTANTS
  notification = notification
  red = red
  panel = panel
  Battery = Battery
  None = None
  Dark = Dark
  Garbage = Garbage
  Plain <- OnePlain
  Notifiers <- MCNotifiers
  Colors <- OneColor
  WriteResults <- MayFail
INVARIANTS
  
  CallOwnsLed
PROPERTIES
  LockReleased
