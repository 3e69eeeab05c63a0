--------------------------- MODULE MCShapedLink ----------------------------
(* The instance of ShapedLink for TLC.                                     *)
EXTENDS ShapedLink, TLC

CONSTANTS p1, p2, p3, c1, c2

\* Two large datagrams to the node and a small one back.
Sizes == (p1 :> 4) @@ (p2 :> 4) @@ (p3 :> 2)
Directions == (p1 :> 0) @@ (p2 :> 0) @@ (p3 :> 1)

\* Two connections to one target; the first reads twice.
OneTarget == (c1 :> 0) @@ (c2 :> 0)
TwoAndOne == [p \in Pumps |-> IF p[1] = c1 THEN 2 ELSE 1]
=============================================================================
