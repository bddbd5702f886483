SPECIFICATION ResetSpec
CONSTANTS
  Lists = {1, 2}
  Groups = {11, 12}
  SizeOf <- Sizes
  Top = 8
  Garbage = {"junk"}
INVARIANT MarkerAlwaysCorrect
