SPECIFICATION Spec
CONSTANTS
  InitialSize = 128
  Patterns <- SomePatterns
INVARIANTS
  BufferHolds
  OnlyMemoryFails
  PatternKept
