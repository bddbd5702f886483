SPECIFICATION LiveSpec
CONSTANTS
  Byte = 4
  KeyBank = 3
  Channels = {0, 1, 5}
  ByY = ByY
  WindowBase = 1
  MaxRepairs = 3
  Modes = {1}
  Inputs <- SmallInputs
  Callers <- SmallCallers
INVARIANTS CallerRestored TransferCorrect
PROPERTY ScanEnds
CHECK_DEADLOCK FALSE
