------------------------------ MODULE OwnerLease ------------------------------
(***************************************************************************)
(* Ownership of ONE session: the session_owners row kept by                *)
(* SQLiteSessionOwnerStore (server/stores/session_owner_store.py), the     *)
(* authority each process keeps in _owner_authorities, its renewal         *)
(* heartbeat, and the turn that writes under an authority captured when    *)
(* the turn started (server/session/owner.py, the fence                    *)
(* _assert_authority of stores/local_durable/core.py).                     *)
(*                                                                         *)
(* A lease either is live or has expired; expiry is a step of the          *)
(* environment that may happen at any moment.  Owner ids come from the     *)
(* configuration, so two processes may carry the same id (OwnerOf).        *)
(*                                                                         *)
(* Three variables are history, read by no guard except the bound:         *)
(* tenure counts the grants that inserted the row or replaced an expired   *)
(* one, released is its value at the last DELETE of the row, and wrote is  *)
(* the tenure of the last accepted write.                                  *)
(***************************************************************************)
EXTENDS Naturals

CONSTANTS
    Procs,       \* processes that open the session
    OwnerIds,    \* configured owner ids
    OwnerOf,     \* the owner id each process was configured with
    NoOwner,     \* stands for "no session_owners row"
    CfgToken,    \* the configured _fencing_token used without an authority
    MaxTenure    \* bound: number of tenures explored

ASSUME OwnerAssumption ==
    /\ OwnerOf \in [Procs -> OwnerIds]
    /\ NoOwner \notin OwnerIds
    /\ CfgToken \in Nat \ {0}
    /\ MaxTenure \in Nat

VARIABLES
    row,       \* the session_owners row
    held,      \* held[p]: p's entry of _owner_authorities
    turn,      \* turn[p]: p's active turn and the authority it captured
    sweep,     \* sweep[p]: p's renew_owner_leases round
    leaving,   \* leaving[p]: p's _release_owner_lease_for_session
    tenure, released, wrote

vars == <<row, held, turn, sweep, leaving, tenure, released, wrote>>

\* An OwnerAuthority: its epoch, and (history) the tenure it was issued in.
Authorities == [epoch : Nat, tenure : Nat]
NoAuth == [epoch |-> 0, tenure |-> 0]
NoRow == [owner |-> NoOwner, epoch |-> 0, live |-> FALSE]
Idle == [pc |-> "idle", auth |-> NoAuth]

\* A local activity of a process: how far it is, under which authority.
Activities(pcs) == [pc : {"idle"} \cup pcs, auth : Authorities]

\* Types: the row is a session_owners row or none, and every activity of a
\* process carries an OwnerAuthority.
TypeOK ==
    /\ row \in [owner : OwnerIds \cup {NoOwner}, epoch : Nat, live : BOOLEAN]
    /\ held \in [Procs -> Authorities]
    /\ turn \in [Procs -> Activities({"running", "cancelling"})]
    /\ sweep \in [Procs -> Activities({"begun", "late", "owned", "losing"})]
    /\ leaving \in [Procs -> Activities({"checked"})]
    /\ tenure \in Nat /\ released \in Nat /\ wrote \in Nat

Init ==
    /\ row = NoRow
    /\ held = [p \in Procs |-> NoAuth]
    /\ turn = [p \in Procs |-> Idle]
    /\ sweep = [p \in Procs |-> Idle]
    /\ leaving = [p \in Procs |-> Idle]
    /\ tenure = 0 /\ released = 0 /\ wrote = 0

-----------------------------------------------------------------------------
(* The store and the checks made against its row.                          *)

\* Mutation of Names: a row is matched by its owner id alone.
NamesOwnerOnly(p, a) == row.owner = OwnerOf[p]

\* The row names p's owner id and the epoch of authority a.
Names(p, a) == row.owner = OwnerOf[p] /\ row.epoch = a.epoch

\* Mutation of Fence: the epoch is not compared.
FenceByOwner(p, a) == row.live /\ row.owner = OwnerOf[p]

\* _assert_authority: the row exists, is live, and names the authority.
Fence(p, a) == row.live /\ Names(p, a)

\* The authority of a check: the cached one, else the configured token.
Claimed(p) == IF held[p] = NoAuth THEN [epoch |-> CfgToken, tenure |-> 0] ELSE held[p]

\* A lease that is written again expires after every `now` read so far.
Extended == [p \in Procs |-> IF sweep[p].pc = "late"
                             THEN [sweep[p] EXCEPT !.pc = "begun"] ELSE sweep[p]]

\* Mutation of AcquireAuthority: an expired row is taken over with its epoch.
AcquireSameEpoch(p) ==
    /\ ~(row.live /\ row.owner # OwnerOf[p])
    /\ LET epoch == IF row = NoRow THEN 1 ELSE row.epoch
       IN  /\ row.live \/ tenure < MaxTenure
           /\ tenure' = IF row.live THEN tenure ELSE tenure + 1
           /\ row' = [owner |-> OwnerOf[p], epoch |-> epoch, live |-> TRUE]
           /\ held' = [held EXCEPT ![p] = [epoch |-> epoch, tenure |-> tenure']]
    /\ sweep' = Extended
    /\ UNCHANGED <<turn, leaving, released, wrote>>

\* SQLiteSessionOwnerStore.acquire_authority, when it does not raise.
AcquireAuthority(p) ==
    /\ ~(row.live /\ row.owner # OwnerOf[p])
    /\ LET epoch == IF row = NoRow THEN 1
                    ELSE IF row.live THEN row.epoch ELSE row.epoch + 1
       IN  /\ row.live \/ tenure < MaxTenure
           /\ tenure' = IF row.live THEN tenure ELSE tenure + 1
           /\ row' = [owner |-> OwnerOf[p], epoch |-> epoch, live |-> TRUE]
           /\ held' = [held EXCEPT ![p] = [epoch |-> epoch, tenure |-> tenure']]
    /\ sweep' = Extended
    /\ UNCHANGED <<turn, leaving, released, wrote>>

-----------------------------------------------------------------------------
(* SessionManager's owner operations.                                      *)

\* _acquire_owner_for_session: session creation, CLI and ACP load.
Acquire(p) == AcquireAuthority(p)

\* backfill_owner_leases: a live row is skipped, whoever owns it.
Backfill(p) == ~row.live /\ AcquireAuthority(p)

\* The lease runs out.
Expire ==
    /\ row.live
    /\ row' = [row EXCEPT !.live = FALSE]
    /\ UNCHANGED <<held, turn, sweep, leaving, tenure, released, wrote>>

\* renew_owner_leases reads `now` once, before its loop over the sessions.
RenewBegin(p) ==
    /\ sweep[p] = Idle
    /\ sweep' = [sweep EXCEPT ![p] =
                    [pc |-> IF row # NoRow /\ ~row.live THEN "late" ELSE "begun", auth |-> NoAuth]]
    /\ UNCHANGED <<row, held, turn, leaving, tenure, released, wrote>>

\* The loop reaches this session: get_owner, then renew, or go on to cancel
\* the active turn (for which _cancel_active_turn_after_owner_loss takes the
\* manager's lock, so that a turn may end or start in between).
RenewCheck(p) ==
    /\ sweep[p].pc \in {"begun", "late"}
    /\ sweep' = [sweep EXCEPT ![p] =
                    [pc |-> IF Names(p, Claimed(p)) /\ sweep[p].pc = "begun"
                            THEN "owned" ELSE "losing",
                     auth |-> Claimed(p)]]
    /\ UNCHANGED <<row, held, turn, leaving, tenure, released, wrote>>

\* _persist_session_async stores the session under the authority cached now,
\* and raises without one or when the fence rejects it.
SessionSaved(p) == held[p] # NoAuth /\ Fence(p, held[p])

\* Mutation of Cancelled: the turn is dropped instead of its task being cancelled.
CancelDropsTurn(p) == [turn EXCEPT ![p] = NoAuth]

\* The turns after task.cancel() of p's turn.
Cancelled(p) == [turn EXCEPT ![p].pc = "cancelling"]

\* _cancel_active_turn_after_owner_loss: if a turn is active, the session is
\* saved first and its task cancelled only then.  When the save raises the
\* task is left alone, and the exception ends the whole round.
CancelTurn(p) ==
    /\ sweep[p].pc = "losing"
    /\ sweep' = [sweep EXCEPT ![p] = Idle]
    /\ IF turn[p].pc # "idle" /\ SessionSaved(p)
       THEN turn' = Cancelled(p) /\ wrote' = held[p].tenure
       ELSE UNCHANGED <<turn, wrote>>
    /\ UNCHANGED <<row, held, leaving, tenure, released>>

\* The round ends before it is done with this session: the store fails in
\* get_owner or in the save, or the cancellation of an earlier session of the
\* round raised.  _renew_owner_leases logs it and starts the next round.
SweepAborts(p) ==
    /\ sweep[p].pc \in {"begun", "late", "losing"}
    /\ sweep' = [sweep EXCEPT ![p] = Idle]
    /\ UNCHANGED <<row, held, turn, leaving, tenure, released, wrote>>

\* renew_authority (or renew with the configured token) succeeds: the lease
\* of the matching live row is extended and the authority cached again.
RenewCommit(p) ==
    /\ sweep[p].pc = "owned"
    /\ Fence(p, sweep[p].auth)
    /\ sweep' = [Extended EXCEPT ![p] = Idle]
    /\ held' = IF sweep[p].auth.tenure = 0 THEN held
               ELSE [held EXCEPT ![p] = sweep[p].auth]
    /\ UNCHANGED <<row, turn, leaving, tenure, released, wrote>>

\* Mutation of RenewFail: a renewal that raises counts as a loss.
RenewFailCancels(p) ==
    /\ sweep[p].pc = "owned"
    /\ sweep' = [sweep EXCEPT ![p].pc = "losing"]
    /\ UNCHANGED <<row, held, turn, leaving, tenure, released, wrote>>

\* The renewal raises, because the row no longer matches or because storage
\* fails: it is logged and the active turn is left alone in this round.  Only
\* the configured-token path reports a lost row as False and cancels.
RenewFail(p) ==
    /\ sweep[p].pc = "owned"
    /\ sweep' = [sweep EXCEPT ![p] =
                    IF sweep[p].auth.tenure = 0 /\ ~Fence(p, sweep[p].auth)
                    THEN [pc |-> "losing", auth |-> sweep[p].auth] ELSE Idle]
    /\ UNCHANGED <<row, held, turn, leaving, tenure, released, wrote>>

\* _release_owner_lease_for_session: _holds_owner_lease ignores the expiry.
ReleaseCheck(p) ==
    /\ leaving[p] = Idle
    /\ Names(p, Claimed(p))
    /\ leaving' = [leaving EXCEPT ![p] = [pc |-> "checked", auth |-> Claimed(p)]]
    /\ UNCHANGED <<row, held, turn, sweep, tenure, released, wrote>>

\* ... then the conditional DELETE, and the cached authority is dropped.
ReleaseCommit(p) ==
    /\ leaving[p].pc = "checked"
    /\ Names(p, leaving[p].auth)
    /\ row' = NoRow
    /\ released' = tenure
    /\ held' = [held EXCEPT ![p] = NoAuth]
    /\ leaving' = [leaving EXCEPT ![p] = Idle]
    /\ sweep' = Extended
    /\ UNCHANGED <<turn, tenure, wrote>>

\* The DELETE matched no row or raised: logged, the authority stays cached.
ReleaseFail(p) ==
    /\ leaving[p].pc = "checked"
    /\ leaving' = [leaving EXCEPT ![p] = Idle]
    /\ UNCHANGED <<row, held, turn, sweep, tenure, released, wrote>>

\* A turn is admitted by _assert_owner and keeps the authority it finds
\* cached (_owner_authority_for_session) for all its writes.
StartTurn(p) ==
    /\ turn[p] = Idle
    /\ held[p] # NoAuth
    /\ Fence(p, held[p])
    /\ turn' = [turn EXCEPT ![p] = [pc |-> "running", auth |-> held[p]]]
    /\ UNCHANGED <<row, held, sweep, leaving, tenure, released, wrote>>

\* A fenced write of the turn is committed ...
Write(p) ==
    /\ turn[p].pc # "idle"
    /\ Fence(p, turn[p].auth)
    /\ wrote' = turn[p].auth.tenure
    /\ UNCHANGED <<row, held, turn, sweep, leaving, tenure, released>>

\* ... or raises SessionOwnershipConflictError, which ends the turn.
WriteRejected(p) ==
    /\ turn[p].pc # "idle"
    /\ ~Fence(p, turn[p].auth)
    /\ turn' = [turn EXCEPT ![p] = Idle]
    /\ UNCHANGED <<row, held, sweep, leaving, tenure, released, wrote>>

\* The turn finishes by itself, or the cancelled task ends.
EndTurn(p) ==
    /\ turn[p].pc # "idle"
    /\ turn' = [turn EXCEPT ![p] = Idle]
    /\ UNCHANGED <<row, held, sweep, leaving, tenure, released, wrote>>

\* The process dies and is started again: only the row survives.
Restart(p) ==
    /\ held[p] # NoAuth \/ turn[p] # Idle \/ sweep[p] # Idle \/ leaving[p] # Idle
    /\ held' = [held EXCEPT ![p] = NoAuth]
    /\ turn' = [turn EXCEPT ![p] = Idle]
    /\ sweep' = [sweep EXCEPT ![p] = Idle]
    /\ leaving' = [leaving EXCEPT ![p] = Idle]
    /\ UNCHANGED <<row, tenure, released, wrote>>

ProcNext(p) ==
    \/ Acquire(p) \/ Backfill(p)
    \/ RenewBegin(p) \/ RenewCheck(p) \/ RenewCommit(p) \/ RenewFail(p)
    \/ CancelTurn(p) \/ SweepAborts(p)
    \/ ReleaseCheck(p) \/ ReleaseCommit(p) \/ ReleaseFail(p)
    \/ StartTurn(p) \/ Write(p) \/ WriteRejected(p) \/ EndTurn(p)
    \/ Restart(p)

Next == Expire \/ \E p \in Procs : ProcNext(p)

Spec == Init /\ [][Next]_vars

\* The heartbeat task runs for as long as the process does, the store answers
\* it again and again, so that rounds are not aborted for ever by what is
\* outside this session, and a cancelled task ends.  Nothing else is promised:
\* leases need not expire, a turn need neither write nor finish.
Fairness ==
    \A p \in Procs : /\ WF_vars(RenewBegin(p))
                     /\ SF_vars(RenewCheck(p))
                     /\ SF_vars(CancelTurn(p))
                     /\ WF_vars(RenewCommit(p) \/ RenewFail(p))
                     /\ WF_vars(turn[p].pc = "cancelling" /\ EndTurn(p))

FairSpec == Spec /\ Fairness

-----------------------------------------------------------------------------
(* Properties.                                                             *)

\* Every authority some process still remembers.
Remembered(p) == {held[p], turn[p].auth, sweep[p].auth, leaving[p].auth}

\* An authority issued since the row was last deleted carries its tenure in
\* its epoch: acquire_authority starts at 1 and adds 1 per takeover, renewals
\* and releases in flight included.  (Inductive: see OwnerLeaseProofs.)
EpochCountsTenures ==
    /\ released <= tenure /\ wrote <= tenure
    /\ \/ row = NoRow /\ released = tenure
       \/ row.owner # NoOwner /\ released < tenure /\ row.epoch = tenure - released
    /\ \A p \in Procs : \A a \in Remembered(p) :
          a.tenure <= tenure /\ (a.tenure > released => a.epoch = a.tenure - released)

\* Fencing: as long as the row has not been deleted since it was issued, an
\* authority that _assert_authority accepts belongs to the tenure in force,
\* however many leases expired and were taken over in between.
FencedByTenure ==
    \A p \in Procs : \A a \in Remembered(p) :
        a.tenure > released /\ Fence(p, a) => a.tenure = tenure

\* A turn of an earlier tenure never commits after a later one has, unless
\* the row was deleted in between (accepted writes follow the tenures).
WritesFollowTenures == [][wrote' >= wrote \/ wrote' <= released]_vars

\* A release never deletes the row of a later tenure than the one it checked
\* (unless the row was deleted and inserted again in between).
ReleaseDeletesOwnTenure ==
    [][row # NoRow /\ row' = NoRow =>
          \E p \in Procs : /\ leaving[p].pc = "checked" /\ leaving'[p] = Idle
                           /\ leaving[p].auth.tenure \in {tenure} \cup 0..released]_vars

\* The heartbeat stops no turn of the tenure in force (up to the last deletion
\* of the row): an authority it judged lost, from a clock read at the start of
\* its round, is still lost when the cancellation gets its lock and its save
\* through.  Excepted is a turn of a later grant than the one judged, which
\* may start while the cancellation waits.
OnlyLostTurnsStopped ==
    [][\A p \in Procs :
         LET auth == turn[p].auth
         IN  /\ turn[p].pc = "running" /\ turn'[p].pc = "cancelling"
             /\ Fence(p, auth) /\ auth.tenure > released
             => auth.tenure > sweep[p].auth.tenure]_vars

\* Another owner has taken the session over from p, whose turn runs on.
Lost(p) ==
    turn[p].pc = "running" /\ held[p] # NoAuth /\ row.owner \notin {NoOwner, OwnerOf[p]}

\* What owner.py's warning ("Cancelling active turn ... after owner lease
\* loss") and the test of renew_owner_leases say: the heartbeat stops the turn
\* of a process that lost the session.
LostTurnStops == \A p \in Procs : Lost(p) ~> ~Lost(p)

\* The session as its users see it: owned while the lease is live, by the
\* owner id in the row, in the tenure-th tenure.
Lease == INSTANCE SessionLease
            WITH owner <- IF row.live THEN row.owner ELSE NoOwner,
                 epoch <- tenure, floor <- released, last <- wrote

\* The row, the renewals, the releases and the fence of OwnerLease implement
\* the promise of SessionLease, whichever steps of the processes interleave.
ImplementsLease == Lease!LeaseSpec
=============================================================================
