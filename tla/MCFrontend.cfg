CONSTANTS
  FrameCycles = 4
  StartBeam = 1
  MaxInstr = 2
  PullSamples = 6
  FrameBudget = 2
  Sessions <- MCSessions
  MaxActs = 3
SPECIFICATION Spec
INVARIANTS
  OutputArrives
  ButtonsFollow
PROPERTIES
  StepsShowFrames
  Ends
CHECK_DEADLOCK FALSE
