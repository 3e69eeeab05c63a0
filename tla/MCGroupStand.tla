---------------------------- MODULE MCGroupStand ----------------------------
(* The group stand with two participants that send their file to each      *)
(* other.                                                                  *)
EXTENDS GroupStand, TLC

CONSTANTS a, b, n1, n2

Ring == [m \in {a, b} |-> IF m = a THEN b ELSE a]

(* The ring of two looks the same from both, and so do the nodes.          *)
Alike == Permutations({a, b}) \cup Permutations({n1, n2})
=============================================================================
