SPECIFICATION Spec
CONSTANTS
  Ratio = 2
  Idle = Idle
  Programs <- MCPrograms
PROPERTIES ReadsRight AccessesEnd
CHECK_DEADLOCK TRUE
