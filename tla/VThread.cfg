SPECIFICATION FairSpec
CONSTANTS
  MaxHandle = 2
  MaxSleep = 1
  MaxCalls = 1
INVARIANTS
  TypeOK
  CurrentNeverFreed
PROPERTIES
  StoppedIsFinal
  SleepsLongEnough
  EveryThreadRuns
  StoppedIsReaped
CHECK_DEADLOCK FALSE
