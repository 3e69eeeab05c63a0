----------------------------- MODULE MCOutbox -----------------------------
(* Instances of Outbox for TLC.                                            *)
EXTENDS Outbox, TLC

CONSTANTS a, b, x, y

\* x is for a and y for b: each id names its destination.
DestEach == (x :> {a}) @@ (y :> {b})

\* Both frames are for a.
DestOne == (x :> {a}) @@ (y :> {a})

\* An endpoint share stamped in the same millisecond for both peers has one id.
DestShared == (x :> {a, b})

\* b acknowledges the id of a frame it was never sent.
StrayAcks == {<<b, x>>}
=============================================================================
