CONSTANTS
  Sizes = {1, 2}
  Data = {Blank, Played}
  Blank = Blank
  Slots = {1}
SPECIFICATION Spec
PROPERTIES
  RejectedSaveKept
