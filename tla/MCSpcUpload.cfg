SPECIFICATION UploadSpec
CONSTANTS
  W = 8
  Pages = 5
  Step = 2
  Source <- MCSource
  Sessions <- MCSessions
  R = 65536
  Terms = 6
INVARIANTS TypeOK NoFalseHeader AckedIntact Quotient CountIsThird
PROPERTIES LatchesHeld SessionEnds ImplementsCopy
