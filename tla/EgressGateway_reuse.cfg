CONSTANTS
  c1 = c1
  c2 = c2
  d1 = d1
  d2 = d2
  dirA = dirA
  None = None
  Coop <- OneCommand
  DataDirs <- OneDir
  DirOf <- SameDir
  Deployments <- TwoDeployments
  MaxInstalls = 2
  MaxFaults = 0
SPECIFICATION Spec
PROPERTIES
  ReusedIsRequested
