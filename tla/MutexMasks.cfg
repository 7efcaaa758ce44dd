SPECIFICATION SharingSpec
CONSTANTS
  MaxThread = 1
  MaxMutex = 3
  ArraySize = 3
  N = 4
  Data = {zero, a, b}
  Zero = zero
INVARIANTS
  HeldWithInterruptsOn
CHECK_DEADLOCK FALSE
