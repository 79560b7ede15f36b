SPECIFICATION Spec
CONSTANTS
  Images = {"default", "dev"}
  Insts = {"i1"}
  Recipes = {"base"}
  MaxFaults = 0
INVARIANT ImagesUnguarded
