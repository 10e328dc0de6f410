--------------------------- MODULE MCNetworkRegions ---------------------------
(***************************************************************************)
(* NetworkRegions for TLC: the lists an operator chooses from.             *)
(***************************************************************************)
EXTENDS NetworkRegions

CONSTANTS a, b, c

Active(cp) == [cp |-> cp, idle |-> FALSE]
Paused(cp) == [cp |-> cp, idle |-> TRUE]

(* Growing, shrinking and swapping, at the front and at the end.           *)
Distinct ==
  {<<Active(a)>>, <<Active(b)>>, <<Active(a), Active(b)>>,
   <<Active(c), Paused(a)>>}

(* Two regions in one cloud region.                                        *)
Twins == {<<Paused(a), Active(a)>>, <<Active(b)>>}

(* A block that is put in front of the others.                             *)
InFront == {<<Active(a), Active(b)>>, <<Active(c), Active(a), Active(b)>>}
=============================================================================
