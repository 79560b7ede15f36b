CONSTANTS
  c1 = c1
  c2 = c2
  homeApp = homeApp
  workApp = workApp
  app = app
  app2 = app2
  fork = fork
  None = None
  Candidates <- OwnNames
  Coop <- OneCommand
  Projects <- TwoProjects
  Names <- AllNames
  Named <- NoNames
  Verbs <- AllVerbs
  MaxIndex = 1
  MaxBorn = 4
  MaxFaults = 3
SPECIFICATION Spec
INVARIANTS
  OneEnvironmentPerProject
PROPERTIES
  OthersUnaffected
CHECK_DEADLOCK FALSE
