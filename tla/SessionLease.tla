----------------------------- MODULE SessionLease -----------------------------
(***************************************************************************)
(* What the ownership of a session promises to the parts that rely on it:  *)
(* at most one owner id at a time, a new epoch for every tenure, and writes *)
(* that come from the tenure in force.  The one weakness of the promise is *)
(* in the code too: once the row has been deleted, a writer that remembers *)
(* an authority from before the deletion may still be believed.            *)
(*                                                                         *)
(* OwnerLease implements this with the session_owners row; EffectLedger    *)
(* uses a lease that implements it too.                                    *)
(***************************************************************************)
EXTENDS Naturals

CONSTANTS OwnerIds, NoOwner

VARIABLES
    owner,   \* the owner id the session belongs to, or NoOwner
    epoch,   \* number of tenures begun
    floor,   \* epoch at the last deletion of the lease
    last     \* the tenure the last accepted write came from

leaseVars == <<owner, epoch, floor, last>>

LeaseInit == owner = NoOwner /\ epoch = 0 /\ floor = 0 /\ last = 0

\* A session without an owner is given to one, in a new epoch.
Begin ==
    /\ owner = NoOwner
    /\ owner' \in OwnerIds
    /\ epoch' = epoch + 1
    /\ UNCHANGED <<floor, last>>

\* The tenure ends: the lease ran out, or was deleted.
End ==
    /\ owner' = NoOwner
    /\ floor' \in {floor, epoch}
    /\ UNCHANGED <<epoch, last>>

\* A write is accepted while the session has an owner.
Write ==
    /\ owner # NoOwner
    /\ last' \in {epoch} \cup 0..floor
    /\ UNCHANGED <<owner, epoch, floor>>

LeaseSpec == LeaseInit /\ [][Begin \/ End \/ Write]_leaseVars
=============================================================================
