------------------------- MODULE MCInstanceRegistry -------------------------
(* InstanceRegistry on small instances. *)
EXTENDS InstanceRegistry

CONSTANTS c1, c2, homeApp, workApp, app, app2, fork

OneCommand  == {c1}
TwoCommands == {c1, c2}

\* BaseNames: the projects have the same basename; OwnNames: they do not.
OneProject  == {homeApp}
TwoProjects == {homeApp, workApp}
AllNames == {app, app2, fork}
TwoNames == {app, app2}
BaseNames == [d \in Projects |-> <<app, app2>>]
OwnNames  == [d \in Projects |-> IF d = homeApp THEN <<app, app2>> ELSE <<fork>>]
ForkName == {fork}
NoNames  == {}

AllVerbs     == {"up", "start", "stop", "restore", "destroy"}
UpOnly       == {"up"}
UpAndDestroy == {"up", "destroy"}
=============================================================================
