CONSTANTS
  c1 = c1
  c2 = c2
  homeApp = homeApp
  workApp = workApp
  app = app
  app2 = app2
  fork = fork
  None = None
  Candidates <- BaseNames
  Coop <- TwoCommands
  Projects <- OneProject
  Names <- TwoNames
  Named <- NoNames
  Verbs <- UpOnly
  MaxIndex = 1
  MaxBorn = 2
  MaxFaults = 0
SPECIFICATION Spec
INVARIANTS
  OneEnvironmentPerProject
CHECK_DEADLOCK FALSE
