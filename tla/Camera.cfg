SPECIFICATION Spec
CONSTANTS
  back = back
  front = front
  contrast = contrast
  low = low
  high = high
  Absent = Absent
  NoText = NoText
  Cameras <- MCCameras
  Limits <- MCLimits
  Values <- MCValues
INVARIANTS
  WriteBackChangesNothing
