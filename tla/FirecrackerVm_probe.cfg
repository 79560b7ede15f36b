CONSTANTS
  c1 = c1
  p1 = p1
  p2 = p2
  None = None
  Stale = Stale
  Coop <- OneCommand
  Verbs <- Manager
  Pids <- TwoPids
  Strangers <- Nobody
  SudoFails <- Probing
  MaxFaults = 1
SPECIFICATION Spec
INVARIANTS
  ProofOfStop
