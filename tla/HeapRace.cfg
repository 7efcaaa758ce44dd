SPECIFICATION Spec
CONSTANTS
  Callers = {c1, c2}
  NSlots = 4
  StartSize = 5
  LargePage = 2
  LargePages = 2
  Requests <- MCRequests
INVARIANTS
  AllocationsApart
