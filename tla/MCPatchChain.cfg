SPECIFICATION ChainSpec
CONSTANTS
  Fixes = {1, 2}
  Calls = {1, 2}
  SpcRuns = {1, 2, 3}
  Probed = {1, 2}
  Spots = {1, 2, 3, 4, 5, 6, 7, 8, 9, 10}
  Carts <- SmallCarts
  Retail <- BothRetail
INVARIANTS OrderFree StampCovers
