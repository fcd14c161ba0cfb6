SPECIFICATION Spec

CONSTANTS
  Units = 18
  TcbUnits = 1
  Tasks = {t1, t2}
  Sizes = {1, 2}
  Null <- MCNull

INVARIANTS
  HeapTiled
  Coalesced
  FreeListGood

PROPERTIES
  AllocationsHold

\* A broken heap takes no step.
CHECK_DEADLOCK FALSE
