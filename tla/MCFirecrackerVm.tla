--------------------------- MODULE MCFirecrackerVm ---------------------------
(* FirecrackerVm on small instances. *)
EXTENDS FirecrackerVm

CONSTANTS c1, p1, p2

OneCommand == {c1}
TwoPids == {p1, p2}
Nobody  == {}

\* Only the probe's sudo is refused.
Probing == {"judge"}

Manager == [p \in Coop |-> {"start", "stop", "disk"}]
=============================================================================
