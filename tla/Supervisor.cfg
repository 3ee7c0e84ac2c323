CONSTANTS
  StopTries = 2
SPECIFICATION FairSpec
INVARIANTS
  SupervisorInv
  PoliteStopFreesCamera
PROPERTIES
  CommandEnds
