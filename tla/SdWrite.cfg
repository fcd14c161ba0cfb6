SPECIFICATION Spec

CONSTANTS
  Shell = shell
  sd_sem = sd_sem
  None = none
  Sizes <- FewSizes
  Lba = 3

INVARIANTS
  DmaInLimit
