SPECIFICATION Spec
CONSTANTS
  MaxHandle = 2
  MaxSleep = 0
  MaxCalls = 1
PROPERTIES
  TerminateHitsItsTarget
CHECK_DEADLOCK FALSE
