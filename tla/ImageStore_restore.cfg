SPECIFICATION Spec
CONSTANTS
  Images = {"m1"}
  Insts = {"i1"}
  Recipes = {"base"}
  Default = "base"
  Sizes = {1}
  MaxFaults = 1
PROPERTY FailedRestoreLeavesDisk
CHECK_DEADLOCK FALSE
