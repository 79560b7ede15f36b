------------------------------ MODULE SlotTable ------------------------------
(***************************************************************************)
(* What instance allocation promises: a table of network slots, each owned *)
(* by at most one instance.  A slot is claimed only when it is free, for an *)
(* instance that never had one, and is given back before anyone else may   *)
(* have it.                                                                *)
(***************************************************************************)
EXTENDS Naturals

CONSTANTS Indices, Ids, None

VARIABLES
  owner,  \* the instance each slot belongs to, or None
  used    \* the instances that have had a slot

vars == <<owner, used>>

Init ==
  /\ owner = [i \in Indices |-> None]
  /\ used = {}

Claim(i, id) ==
  /\ owner[i] = None
  /\ id \notin used
  /\ owner' = [owner EXCEPT ![i] = id]
  /\ used' = used \cup {id}

Free(i) ==
  /\ owner[i] # None
  /\ owner' = [owner EXCEPT ![i] = None]
  /\ UNCHANGED used

Next == \E i \in Indices : Free(i) \/ \E id \in Ids : Claim(i, id)

Spec == Init /\ [][Next]_vars
=============================================================================
