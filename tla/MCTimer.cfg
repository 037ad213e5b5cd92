CONSTANTS
  DividerSize = 1024
  TimaMax = 1
  InstructionLengths = {4, 8}
SPECIFICATION MCSpec
INVARIANTS
  ReloadIsKept
PROPERTIES
  EdgesCount
  QuietStaysQuiet
  ImplementsMachineCycles
