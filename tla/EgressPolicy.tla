---------------------------- MODULE EgressPolicy ----------------------------
(***************************************************************************)
(* What the egress guard promises of an agent guest: once locked, a guest  *)
(* stays locked; once it has a way out to public addresses, which leads    *)
(* through the gateway, it keeps it; and a session begins only in a guest  *)
(* that has that way out and is watched.  Only switching the machine off   *)
(* takes any of this back.                                                 *)
(***************************************************************************)
CONSTANTS Commands, Gateways, None

VARIABLES
  exit,      \* new public traffic: "open" (not locked), "closed" or "guarded"
  hop,       \* the gateway that public traffic is sent to, or None
  lost,      \* the guest lost its routes, and they are not back yet
  watched,   \* the lock is reasserted from time to time
  sessions   \* the commands whose session runs

vars == <<exit, hop, lost, watched, sessions>>

Init ==
  /\ exit = "open"
  /\ hop = None
  /\ lost = FALSE
  /\ watched = FALSE
  /\ sessions = {}

\* Nothing leaves a guarded guest before its routes were set once.
WayOut == hop # None \/ lost

\* The lock closes the guest, or finds the guarded way out in place.
Lock ==
  /\ exit = "open"
  /\ exit' \in {"closed"} \cup (IF WayOut THEN {"guarded"} ELSE {})
  /\ watched' \in {watched, TRUE}
  /\ UNCHANGED <<hop, lost, sessions>>

Grant ==
  /\ exit = "closed"
  /\ WayOut
  /\ exit' = "guarded"
  /\ UNCHANGED <<hop, lost, watched, sessions>>

SetRoute(g) ==
  /\ hop' = g
  /\ lost' = FALSE
  /\ UNCHANGED <<exit, watched, sessions>>

LoseRoute ==
  /\ hop' = None
  /\ lost' = TRUE
  /\ UNCHANGED <<exit, watched, sessions>>

Watch ==
  /\ watched' = TRUE
  /\ UNCHANGED <<exit, hop, lost, sessions>>

Begin(p) ==
  /\ exit = "guarded"
  /\ watched
  /\ sessions' = sessions \cup {p}
  /\ UNCHANGED <<exit, hop, lost, watched>>

End(p) ==
  /\ sessions' = sessions \ {p}
  /\ UNCHANGED <<exit, hop, lost, watched>>

SwitchOff ==
  /\ exit' = "open"
  /\ hop' = None
  /\ lost' = FALSE
  /\ watched' = FALSE
  /\ sessions' = {}

Next ==
  \/ Lock \/ Grant \/ LoseRoute \/ Watch \/ SwitchOff
  \/ \E g \in Gateways : SetRoute(g)
  \/ \E p \in Commands : Begin(p) \/ End(p)

Spec == Init /\ [][Next]_vars
=============================================================================
