SPECIFICATION FairSpec

CONSTANTS
  Shell = shell
  sd_sem = sd_sem
  None = none
  Sizes <- FewSizes
  Lba = 3

INVARIANTS
  OwnAnswer
  NoTokenLeft

PROPERTIES
  PartsCover
  SectorsReturn
