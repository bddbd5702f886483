SPECIFICATION Spec
CONSTANTS
  Quarter = 6
  Half = 2
  TableBank = 7
  TableCount = 2
  MinRegion = 2
  ReadAhead = 1
  Builds <- SmallBuilds
INVARIANTS FreeSpaceExact StreamsApart StreamsReadable RomReadable
CHECK_DEADLOCK FALSE
