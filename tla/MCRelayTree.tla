----------------------------- MODULE MCRelayTree -----------------------------
(* RelayTree for TLC: an origin o, a region m that pulls from it, and an edge *)
(* e that pulls from the region.                                             *)
EXTENDS RelayTree, TLC

CONSTANTS o, m, e, p1, v1, v2

Relays == {o, m, e}
\* The publisher at the origin, a viewer at the region and one at the edge.
OriginDials == p1 :> o @@ m :> o @@ e :> m @@ v1 :> m @@ v2 :> e
=============================================================================
