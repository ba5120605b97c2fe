----------------------------- MODULE MCOwnerLease -----------------------------
(* An instance of OwnerLease: two processes with their own owner ids.       *)
EXTENDS OwnerLease, TLC

CONSTANTS p1, p2, o1, o2

OwnOwners == (p1 :> o1) @@ (p2 :> o2)
=============================================================================
