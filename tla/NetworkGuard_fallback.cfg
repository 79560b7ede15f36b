CONSTANTS
  c1 = c1
  c2 = c2
  g1 = g1
  g2 = g2
  None = None
  Coop <- OneCommand
  Gateways <- TwoGateways
  MaxFaults = 1
SPECIFICATION Spec
INVARIANTS
  NoFallback
