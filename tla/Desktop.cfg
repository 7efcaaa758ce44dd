SPECIFICATION Spec
CONSTANTS
  Packets <- MCPackets
  MaxPackets = 4
  MaxLost = 2
  StateSlots = 3
  Wide = 64
  TitleBar = 2
  SpawnAt = 3
  ScreenSize = 8
  Sizes <- MCSizes
  Reach = 4
  Moves <- MCMoves
  EventSlots = 2
  MaxWindows = 2
  MaxMoves = 3
  MaxResizes = 1
  Keys <- MCKeys
  Outputs <- MCOutputs
  KeySlots = 3
  Columns = 9
  Rows = 2
  MaxStrokes = 3
  Width = 3
  Height = 2
  BombCount = 2
  TileSize = 2
  BoardTop = 4
  SmileyLeft = 2
  SmileyTop = 1
  SmileySize = 2
  MaxMarks = 2
  MaxPresses = 2
  PagesPerLarge = 4
  Fanout = 8
  RamPages = 54
  BitmapPages = 64
  KernelLarge = 1
  HeapStart = 4
  FirmwareMaps <- MCFirmware
  Growers = {"g", "h"}
  Processes = {"p", "q"}
  Images <- MCImages
  MaxGrowths = 2
  MaxCreated = 2
INVARIANTS MouseResyncs DragEndsWithTheButton LineIsWhatWasTyped ProgramIsLaidOut GameIsFair
CHECK_DEADLOCK FALSE
