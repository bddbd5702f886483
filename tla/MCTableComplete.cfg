SPECIFICATION TableSpec
CONSTANTS
  Sources = {1, 2, 4}
  Rounds = {2, 4}
  MaxLength = 6
  Variants = 2
  HarvestRounds = 2
  EndOf <- Compressed
  HarvestGames <- SmallHarvestGames
  Games <- SmallGames
  Tables <- SmallTables
  PASSES = 2
  Moves <- SmallMoves
INVARIANT ConvergedIsComplete
CHECK_DEADLOCK FALSE
