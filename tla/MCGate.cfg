SPECIFICATION LiveGateSpec
CONSTANTS
  Byte = 2
  WindowBase = 1
  MaxRepairs = 3
  ScanBudget = 1
  Inputs <- SmallInputs
  Listings <- SmallListings
  Cases <- SmallCases
INVARIANTS SlotsAreOwned LookupCorrect ScansWithinBudget MapcheckAgrees RequestsServed
PROPERTIES RepairMovesNothing GateDecides
CHECK_DEADLOCK FALSE
