SPECIFICATION Spec
CONSTANTS
  Cells = {c1, c2, c3}
  NULL = NULL
  Requests <- HostRequests
  Positions = {0, 2}
  UINT32_MAX = 3
INVARIANTS TypeOK ListIsFifo HeapAccounted FindsByPosition StillAList
PROPERTIES WalkEnds KeepsPromise
CONSTRAINT Promised
