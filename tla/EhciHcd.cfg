SPECIFICATION Spec

CONSTANTS
  Enum = enum
  Msc = msc
  Hub = hub
  NoUrb = none
  Blocking <- Blockers
  Intr <- HubOnly
  Fresh <- EnumOnly
  Need <- NeedOf
  Qhs <- TwoQhs
  Qtds <- ThreeQtds
  MaxLate = 1
  Heads = 11
  Page = 4
  ChunkMax = 16
  MaxLen = 70

INVARIANTS
  PoolsAgree
  OwnTransferEnds
  NothingLeftBehind
  ScheduleRight

\* The model stops where the driver works on memory that is not its own.
CHECK_DEADLOCK FALSE
