CONSTANTS
  c1 = c1
  c2 = c2
  homeApp = homeApp
  workApp = workApp
  app = app
  app2 = app2
  fork = fork
  None = None
  Candidates <- BaseNames
  Coop <- TwoCommands
  Projects <- OneProject
  Names <- AllNames
  Named <- ForkName
  Verbs <- UpAndDestroy
  MaxIndex = 1
  MaxBorn = 2
  MaxFaults = 1
SPECIFICATION FairSpec
INVARIANTS
  SlotInv
  NoSharedIndex
PROPERTIES
  SlotsKept
  CommandsEnd
CHECK_DEADLOCK FALSE
