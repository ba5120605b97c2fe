------------------------- MODULE MCSegmentCoordinator -------------------------
(* Instances of SegmentCoordinator.                                         *)
EXTENDS SegmentCoordinator, TLC

CONSTANTS p1, p2, o1, o2, e1, e2

OwnOwners == (p1 :> o1) @@ (p2 :> o2)
SharedOwner == (p1 :> o1) @@ (p2 :> o1)

\* Processes with the same owner id are interchangeable.
Twins == Permutations({p1, p2})

\* A round with two tool calls and a round that may only answer; one call.
TwoCalls == <<<<e1, e2>>, <<>>>>
OneCall == <<<<e1>>, <<>>>>
=============================================================================
