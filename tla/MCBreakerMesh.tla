---------------------------- MODULE MCBreakerMesh ----------------------------
(* A cluster primary that starts with one node and may discover a second, *)
(* and a single-host shadow on a third node.                             *)
EXTENDS BreakerMesh, TLC

CONSTANTS b1, b2, n1, n2, n3

MCBackends == {b1, b2}
MCNodes == {n1, n2, n3}
MCMode == (b1 :> "cluster" @@ b2 :> "singleHost")
MCRoster0 == (b1 :> {n1} @@ b2 :> {n3})
MCSpare == (b1 :> {n2} @@ b2 :> {})
=============================================================================
