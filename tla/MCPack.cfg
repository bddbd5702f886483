SPECIFICATION PackSpec
CONSTANTS
  Region = {"jp", "usa"}
  All <- Sorted
  Arguments <- SmallArguments
  Passing = {0, 2, 3}
  Breaking = {3}
  MaxEdits = 3
  MaxRuns = 3
INVARIANTS  SuccessIsWhole
CHECK_DEADLOCK FALSE
