SPECIFICATION HalvesSpec

CONSTANTS
  NoName = noName
  PairedNames = {"aa", ".."}
  VolumeOf <- SmallVolumes
  Paths <- SmallPaths
  Sizes = {1, 2, 4}
  ClusterSize = 2
  FatPer = 6
  MaxFails = 1
  ByteValues = 8
  WordValues = 64
  RunLists <- SmallRunLists
  FirstUser = 6
  First = first
  Second = second
  Sticks = {first, second}
  Card = card
  Blocks = {block1, block2}
  CardBlock = sdDev
  None = null
  Slots = 2
  TablesOf <- SmallTables
  DiskSize = 8
  Sectors32 = 16
  MaxInits = 2

INVARIANTS
  BuffersHonest
  FilesFound
  FilesRead
  RunsWalked
  DevicesListed
  PartitionsScanned

PROPERTIES
  CallsReturn

\* A call that breaks is the end, sticks come once, and BlkDev stops at a fault.
CHECK_DEADLOCK FALSE
