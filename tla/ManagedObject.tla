---------------------------- MODULE ManagedObject ----------------------------
(***************************************************************************)
(* What Terraform promises its user about one resource address: the state  *)
(* records at most one object of the tenant, it starts recording one only  *)
(* when there is such an object, never swaps one for another in a single   *)
(* step, and forgets it only when the tenant no longer has it.             *)
(***************************************************************************)
CONSTANTS
  Object,     \* the objects the tenant may ever have
  None        \* no object recorded

VARIABLES
  made,       \* objects that have come into being
  gone,       \* objects that have been removed for good
  tracked     \* the object the state records, or None

objectVars == <<made, gone, tracked>>

Init == made = {} /\ gone = {} /\ tracked = None

Make ==
  \E o \in Object \ made :
    made' = made \cup {o} /\ UNCHANGED <<gone, tracked>>

Vanish ==
  \E o \in made \ gone :
    gone' = gone \cup {o} /\ UNCHANGED <<made, tracked>>

Track ==
  /\ tracked = None
  /\ tracked' \in made
  /\ UNCHANGED <<made, gone>>

Forget ==
  /\ tracked \in gone
  /\ tracked' = None
  /\ UNCHANGED <<made, gone>>

Next == Make \/ Vanish \/ Track \/ Forget

Spec == Init /\ [][Next]_objectVars
=============================================================================
