SPECIFICATION ToolsSpec
CONSTANTS
  PACKAGES = {"romimage", "sdd1"}
  Artifacts = {"usa", "jp", "proto"}
  Accepted <- TwoAccepted
  KnownBad = {"bad"}
  ContentSizes <- ContentSize
  ROSTER = 2
  BUDGET = 2
  SCAN_BUDGET = 3
  Sources = {1, 2}
  BadShown = 1
  MaxBlocks = 2
  Ticks = {0, 1}
  APU_RAM = 10
  BLOCK_BYTES = 2
  DIRECTORY_BYTES = 2
  Lists = {1, 2}
  Groups = {3, 4}
  SizeOf <- ListSize
  LONGEST_BLOCK = 50
  SoundRam = 12
  PROBE_LENGTH = 1
  CONFIRM_LENGTH = 2
  EXTEND_LENGTH = 5
  MIN_PROBE_DISTINCT = 1
  MIN_DISTINCT = 2
  FINAL_STREAM_LENGTH = 2
  window_hash <- AsSum
  MAX_LENGTH = 2
  BATCH = 2
  Machines <- SomeMachines
  Banks <- SomeBanks
  Walks <- SomeWalks
  Searches <- SomeSearches
  Tagged <- SomeTagged
  Chunked <- SomeChunked
  Compared <- SomeCompared
  ByteValues = 8
  RamPages = 20
  DESTINATION = 8
  SECOND = 24
  THIRD = 40
  UNECHOED = 7
  CEILING = 60
  Payloads <- SomePayloads
  Cells = 5
  CellValues = 3
  JOYPAD_WAIT = 2
  StockProbe <- Probe
  PlumbedSites = {3, 5}
  Freezes <- SomeFreezes
  TILE_BYTES = 2
  SMALLEST = 4
  Sheets <- SomeSheets
INVARIANTS  LogsTell  ReuseRight StreamsFound VerdictRight TransfersRight FreezeRight 
CHECK_DEADLOCK FALSE
