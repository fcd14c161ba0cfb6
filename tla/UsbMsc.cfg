SPECIFICATION Spec

CONSTANTS
  Left = left
  Right = right
  Disks <- BothDisks
  MaxCommands <- UnevenCommands
  MaxFails = 1

INVARIANTS
  OwnCommand

PROPERTIES
  CommandsReturn

\* The commands run out.
CHECK_DEADLOCK FALSE
