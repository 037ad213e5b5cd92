CONSTANTS
  Sizes = {1, 2}
  Data = {Blank, Played}
  Blank = Blank
  Slots = {1}
SPECIFICATION Spec
INVARIANTS
  StatesAreOwn
  CheckpointsSave
PROPERTIES
  SavesAreWhole
  ExitSaves
  AgreedSaveKept
