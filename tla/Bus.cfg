SPECIFICATION FairSpec
CONSTANTS
  Pages = {0, 32, 128, 160, 208, 255}
  Contents = {Zero, One}
  Zero = Zero
  BootRom = One
  Banks = 2
  DmaCycles = 8
  Chunks = {4}
INVARIANTS
  SourceHolds
  DmaLength
PROPERTIES
  ModeIsSettled
  DmaEnds
