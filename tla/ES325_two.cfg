SPECIFICATION Spec
CONSTANTS
  h1 = h1
  h2 = h2
  h3 = h3
  NoHandle = NoHandle
  NumSessions = 2
  Handles <- ThreeHandles
  Presets <- AsraAndOff
  Effects <- OnlyNs
  ForeignTypes <- Nothing
  VeqInputs <- On
  OpenFailures <- PresetFailures
SYMMETRY HandleSymmetry3
INVARIANTS
  TypeOK
  OneSessionPerHandle
  SessionsConsistent
  OwnedSessionHasEffects
  AwakeOnlyForEffect
  PresetReachedChip
PROPERTIES
  AsraLocked
  NsFollowsEffect
  ImplementsPolicy
