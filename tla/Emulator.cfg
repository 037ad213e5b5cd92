CONSTANTS
  AddressSpace = 2
  Interrupts = {0, 1}
  FirstVector = 0
  VectorSpacing = 1
  StartAddresses = {0}
  TickInterrupts = {0}
  Lengths = {4, 24}
  Requests = {0, 1, 13}
SPECIFICATION FairSpec
INVARIANTS
  CyclesAddUp
PROPERTIES
  ImplementsMachine
  SleepersWake
  RequestsAreServed
