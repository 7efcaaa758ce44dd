SPECIFICATION Spec
CONSTANTS
  DriveOrder <- MCDriveOrder
  Readers = {"r", "s"}
  LbaCount = 2
  MaxCount = 2
  Depth = 2
  Slots = 2
  Blocks = {1, 2, 3, 4}
  MaxReads = 1
  MaxErrors = 1
  MaxSlow = 1
  Nobody = Nobody
  Null = Null
  LfnChars = 2
  MaxName = 4
  ClusterSlots = 5
  SectorBytes = 3
  Mounts <- MCMounts
  Logical <- MCLogical
  Openers = {"a", "b"}
  Paths = {"x", "y"}
  MaxOpens = 4
  MaxFiles = 4
  MaxFile = 5
  MaxPath = 5
INVARIANTS ReadsWhatWasAsked DmaStaysInside HandlesKeepTheirFile VolumesReadBack
PROPERTIES EveryReadEnds
CHECK_DEADLOCK FALSE
