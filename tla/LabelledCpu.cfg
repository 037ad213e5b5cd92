CONSTANTS
  AddressSpace = 6
  Interrupts = {0, 1}
  FirstVector = 3
  VectorSpacing = 2
  StartAddresses = {0, 1}
SPECIFICATION LSpec
INVARIANTS
  EffectsAreOrdered
PROPERTIES
  SleepsRightly
  HaltReturnAddress
  ImplementsMask
