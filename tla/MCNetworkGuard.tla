--------------------------- MODULE MCNetworkGuard ---------------------------
(* NetworkGuard on small instances. *)
EXTENDS NetworkGuard

CONSTANTS c1, c2, g1, g2

TwoCommands == {c1, c2}
OneCommand  == {c1}
TwoGateways == {g1, g2}
=============================================================================
