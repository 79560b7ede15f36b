-------------------------- MODULE MCEgressGateway --------------------------
(* EgressGateway on small instances. *)
EXTENDS EgressGateway

CONSTANTS c1, c2, d1, d2, dirA

TwoCommands == {c1, c2}
OneCommand  == {c1}
TwoDeployments == {d1, d2}
OneDir  == {dirA}
SameDir == [p \in Coop |-> dirA]
=============================================================================
