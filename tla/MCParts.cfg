CONSTANTS
  Parts = {"trace", "cartridge", "joypad", "serial", "map", "video", "drawing", "processor", "opcodes"}
  WindowMin = 2
  WindowMax = 4
  WindowPreferred = 3
  Costs <- MCCosts
  EntryKinds = {"in"}
  WatchKinds = {"w"}
  LyReadKinds = {"ly"}
  CompareKinds = {"cp"}
  BackJumpKinds = {"jr"}
  ExitKinds = {"exit"}
  LyLines = 5
  TraceConfigs <- MCConfigs
  HeaderSize = 1
  BankSize = 1
  Images <- MCImages
  ControlValues = {0, 1, 10, 32, 255}
  Data = {0, 1}
  HeaderValues <- MCBytes
  MaxWrites = 2
  Lines = {1, 2}
  Bytes = {0, 7, 255}
  Idle = 255
  MaxBytes = 2
  Addresses <- MCAddresses
  MapBanks = {0, 1, 2, 7}
  PaletteSize = 2
  Colors = {0, 1}
  MaxStores = 3
  TileSize = 2
  MapWidth = 4
  Tiles = 4
  SpritesOnLine = 2
  ScreenWidth = 5
  ScreenHeight = 4
  Scenes <- MCScenes
  Routines <- MCRoutines
  StackTop = 1
SPECIFICATION MCSpec
INVARIANTS
  RoutinesCompute
  TableFitsExecutor
PROPERTIES
  TraceIsFaithful
  BanksHold
  PortsHold
  MemoryHolds
  PicturesAreRight
CHECK_DEADLOCK FALSE
