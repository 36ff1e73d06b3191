SPECIFICATION Spec
CONSTANTS
  Bodies <- MCBodies
  Keys <- MCKeys
  Values <- MCValues
  MaxFrames = 2
  MaxBeats = 1
INVARIANT TypeOK
INVARIANT EndToEnd
INVARIANT InStep
CHECK_DEADLOCK FALSE
