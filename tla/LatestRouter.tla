---------------------------- MODULE LatestRouter ----------------------------
(***************************************************************************)
(* What a hot reload promises to one thread that uses a router: routers    *)
(* are offered one after the other, and whenever the thread adopts one, it *)
(* is the latest.  It may skip routers, it never goes back.                *)
(***************************************************************************)
EXTENDS Naturals

VARIABLES
  offered,   \* generation of the last router offered to the thread
  adopted    \* generation of the router it has taken

vars == <<offered, adopted>>

Init == offered = 0 /\ adopted = 0

Offer == offered' = offered + 1 /\ UNCHANGED adopted
Adopt == adopted' = offered /\ UNCHANGED offered

Next == Offer \/ Adopt

Spec == Init /\ [][Next]_vars

=============================================================================
