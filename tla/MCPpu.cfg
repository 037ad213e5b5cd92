CONSTANTS
  LineDots = 5
  VisibleLines = 2
  TotalLines = 4
  OamDots = 1
  TransferEnd = 3
  StartupDelay = 2
  MaxLyc = 4
SPECIFICATION MCSpec
INVARIANTS
  DerivedStateIsFresh
PROPERTIES
  QuietStaysQuiet
  ExactFrame
  CoherentUnlessJumped
  FramesKeepComing
