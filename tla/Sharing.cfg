SPECIFICATION FairSpec
CONSTANTS
  MaxThread = 1
  MaxMutex = 3
  ArraySize = 3
  N = 4
  Data = {zero, a, b}
  Zero = zero
INVARIANTS
  MutualExclusion
  UnlockedByItsOwner
  MaskedExactlyInside
  NoMutexOrphaned
  NeverTorn
PROPERTIES
  InnermostComesFree
  IsBoundedFifo
CHECK_DEADLOCK FALSE
