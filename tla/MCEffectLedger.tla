---------------------------- MODULE MCEffectLedger ----------------------------
(* Instances of EffectLedger: a pair of processes configured with the same   *)
(* owner id, beside a third with an owner id of its own.                    *)
EXTENDS EffectLedger, TLC

CONSTANTS p1, p2, p3, o1, o2, e1

TwinOwners == (p1 :> o1) @@ (p2 :> o1) @@ (p3 :> o2)
=============================================================================
