CONSTANTS
  StopTries = 2
SPECIFICATION Spec
INVARIANTS
  StopFreesCamera
