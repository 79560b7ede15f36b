CONSTANTS
  c1 = c1
  c2 = c2
  g1 = g1
  g2 = g2
  None = None
  Coop <- TwoCommands
  Gateways <- TwoGateways
  MaxFaults = 2
SPECIFICATION FairSpec
INVARIANTS
  IInv
  NoDirectEgress
  PrivateStaysClosed
  SwapNeverCuts
PROPERTIES
  PolicyKept
  GuardConverges
  RoutesRestored
