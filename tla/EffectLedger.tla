----------------------------- MODULE EffectLedger -----------------------------
(***************************************************************************)
(* The durable life of tool effects: the effect ledger                     *)
(* (session_effect_slots), the executor attempts                           *)
(* (session_executor_attempts) and the reconciliation evidence of one      *)
(* session, the local executor that claims an attempt before it runs the   *)
(* tool (executors/durable.py), and every process that may settle, close   *)
(* out, recover, revoke or reconcile an attempt (stores/local_durable/     *)
(* uow.py, stores/durable_commit_port.py, runtime/coordinator.py).         *)
(*                                                                         *)
(* Who decides to prepare, dispatch or settle an effect, and when, is left *)
(* open here; SegmentCoordinator fills it in.  The session lease is seen   *)
(* through what OwnerLease proves of it: while the row is not deleted an   *)
(* epoch names one tenure of one owner id.  A process runs one segment at  *)
(* a time, under the epoch it captured when the segment started.           *)
(*                                                                         *)
(* ran is history: how often the tool of an effect was started.            *)
(***************************************************************************)
EXTENDS Naturals

CONSTANTS
    Procs,      \* processes that run segments of the session
    OwnerIds,   \* owner ids
    OwnerOf,    \* the owner id of each process
    NoOwner,    \* owner of a session nobody has acquired yet
    Effects,    \* effect ids
    NoEffect,   \* "no effect"
    MaxEpoch    \* bound: number of ownership epochs explored

ASSUME LedgerAssumption ==
    /\ OwnerOf \in [Procs -> OwnerIds]
    /\ NoOwner \notin OwnerIds
    /\ NoEffect \notin Effects
    /\ MaxEpoch \in Nat

VARIABLES
    lease,   \* the session_owners row
    cap,     \* cap[p]: epoch captured by p's segment, 0 before the first one
    slot,    \* slot[e]: status in session_effect_slots
    att,     \* att[e]: the executor attempt of e
    evid,    \* evid[e]: the reconciliation evidence recorded for e
    ex,      \* ex[p]: what p's segment is doing with an effect
    ran

ledgerVars == <<lease, cap, slot, att, evid, ex, ran>>

SlotStatus == {"none", "prepared", "rejected", "dispatched", "completed", "failed", "unknown"}
AttStatus == {"none", "authorized_unclaimed", "reserved", "started", "quiescent"}
\* ok, fail: what the tool reported; lost: EffectIndeterminateResult.
Results == {"ok", "fail", "lost"}
\* Mutation of Outcome: an indeterminate result is written as it is.
OutcomeUnmapped(res) == IF res = "ok" THEN "completed" ELSE res
Outcome(res) == CASE res = "ok" -> "completed" [] res = "fail" -> "failed" [] OTHER -> "unknown"

\* Stages at which a process still holds the permit of its effect.
Claiming == {"permit", "loaded", "reserved", "unclaiming"}
Executing == {"claimed", "running"}
Holding == Claiming \cup Executing \cup {"quiescing"}
Stages == Holding \cup {"idle", "done", "settling"}

NoAttempt == [st |-> "none", epoch |-> 0, late |-> FALSE]
NoEvidence == [epoch |-> 0, outcome |-> "unknown"]
Resting == [pc |-> "idle", e |-> NoEffect, res |-> "lost", closeout |-> FALSE]

\* Types: slots, attempts and executors take only the statuses that
\* EffectStatus and _executor_attempt_from_payload know.
LedgerTypeOK ==
    /\ lease \in [owner : OwnerIds \cup {NoOwner}, epoch : Nat, live : BOOLEAN]
    /\ cap \in [Procs -> Nat]
    /\ slot \in [Effects -> SlotStatus]
    /\ att \in [Effects -> [st : AttStatus, epoch : Nat, late : BOOLEAN]]
    /\ evid \in [Effects -> [epoch : Nat, outcome : {"completed", "failed", "unknown"}]]
    /\ ex \in [Procs -> [pc : Stages, e : Effects \cup {NoEffect}, res : Results, closeout : BOOLEAN]]
    /\ ran \in [Effects -> Nat]

LedgerInit ==
    /\ lease = [owner |-> NoOwner, epoch |-> 0, live |-> FALSE]
    /\ cap = [p \in Procs |-> 0]
    /\ slot = [e \in Effects |-> "none"]
    /\ att = [e \in Effects |-> NoAttempt]
    /\ evid = [e \in Effects |-> NoEvidence]
    /\ ex = [p \in Procs |-> Resting]
    /\ ran = [e \in Effects |-> 0]

-----------------------------------------------------------------------------
(* The lease.                                                              *)

\* _assert_authority for p's segment.
Fence(p) == lease.live /\ lease.owner = OwnerOf[p] /\ lease.epoch = cap[p]

\* Mutation of Grant: a takeover keeps the epoch of the expired lease.
GrantSameEpoch(p) ==
    /\ ex[p].pc = "idle"
    /\ lease.live => lease.owner = OwnerOf[p] /\ cap[p] # lease.epoch
    /\ lease' = [owner |-> OwnerOf[p], live |-> TRUE, epoch |-> IF lease.epoch = 0 THEN 1 ELSE lease.epoch]
    /\ cap' = [cap EXCEPT ![p] = lease'.epoch]
    /\ UNCHANGED <<slot, att, evid, ex, ran>>

\* p acquires the session (an expired lease opens a new epoch, a live one of
\* the same owner id is shared) and starts a segment under its epoch.
Grant(p) ==
    /\ ex[p].pc = "idle"
    /\ lease.live => lease.owner = OwnerOf[p] /\ cap[p] # lease.epoch
    /\ ~lease.live => lease.epoch < MaxEpoch
    /\ lease' = [owner |-> OwnerOf[p], live |-> TRUE,
                 epoch |-> IF lease.live THEN lease.epoch ELSE lease.epoch + 1]
    /\ cap' = [cap EXCEPT ![p] = lease'.epoch]
    /\ UNCHANGED <<slot, att, evid, ex, ran>>

Lapse ==
    /\ lease.live
    /\ lease' = [lease EXCEPT !.live = FALSE]
    /\ UNCHANGED <<cap, slot, att, evid, ex, ran>>

\* The process dies, and the tool it was running with it.
CrashLedger(p) ==
    /\ cap' = [cap EXCEPT ![p] = 0]
    /\ ex' = [ex EXCEPT ![p] = Resting]
    /\ UNCHANGED <<lease, slot, att, evid, ran>>

Crash(p) == cap[p] # 0 /\ CrashLedger(p)

\* The effect a process deals with, and what it does with it next.
Doing(pc, e, res, closeout) == [pc |-> pc, e |-> e, res |-> res, closeout |-> closeout]
Now(p, pc, res) == ex' = [ex EXCEPT ![p] = Doing(pc, ex[p].e, res, FALSE)]
Mark(e, st, late) == att' = [att EXCEPT ![e] = [st |-> st, epoch |-> att[e].epoch, late |-> late]]

-----------------------------------------------------------------------------
(* Ledger mutations of _commit_transition, one transaction each.           *)

\* EffectMutation.prepare, one per effect plan of the transition.
Prepare(p, es) ==
    /\ Fence(p)
    /\ \A e \in es : slot[e] = "none"
    /\ slot' = [e \in Effects |-> IF e \in es THEN "prepared" ELSE slot[e]]
    /\ UNCHANGED <<lease, cap, att, evid, ex, ran>>

\* A denied approval: prepared -> rejected.
Reject(p, e) ==
    /\ Fence(p) /\ slot[e] = "prepared"
    /\ slot' = [slot EXCEPT ![e] = "rejected"]
    /\ UNCHANGED <<lease, cap, att, evid, ex, ran>>

\* Mutation of Authorize: an effect that is dispatched already is retried.
AuthorizeAgain(p, e, answered) ==
    /\ Fence(p) /\ ex[p].pc = "idle"
    /\ slot[e] \in {"prepared", "dispatched"}
    /\ slot' = [slot EXCEPT ![e] = "dispatched"]
    /\ att' = [att EXCEPT ![e] = [st |-> "authorized_unclaimed", epoch |-> cap[p], late |-> FALSE]]
    /\ ex' = IF answered THEN [ex EXCEPT ![p] = Doing("permit", e, "lost", FALSE)] ELSE ex
    /\ UNCHANGED <<lease, cap, evid, ran>>

\* authorize_dispatch: prepared -> dispatched together with an unclaimed
\* attempt; the permit reaches p, or the answer is lost on the way.
Authorize(p, e, answered) ==
    /\ Fence(p) /\ ex[p].pc = "idle"
    /\ slot[e] = "prepared"
    /\ slot' = [slot EXCEPT ![e] = "dispatched"]
    /\ att' = [att EXCEPT ![e] = [st |-> "authorized_unclaimed", epoch |-> cap[p], late |-> FALSE]]
    /\ ex' = IF answered THEN [ex EXCEPT ![p] = Doing("permit", e, "lost", FALSE)] ELSE ex
    /\ UNCHANGED <<lease, cap, evid, ran>>

-----------------------------------------------------------------------------
(* DurableEffectExecutor.execute, run by the process that holds the permit. *)
(* A store call may also fail, before or after it was applied: FailClaim    *)
(* and the `answered' argument.                                             *)

At(p, pc) == ex[p].pc = pc

\* Control is raised after the authorization: the executor is not called.
Withhold(p) ==
    /\ At(p, "permit")
    /\ Now(p, "done", "lost")
    /\ UNCHANGED <<lease, cap, slot, att, evid, ran>>

\* _load_invocation and load_executor_attempt, validated against the permit.
LoadClaim(p) ==
    /\ At(p, "permit")
    /\ slot[ex[p].e] = "dispatched" /\ att[ex[p].e].st = "authorized_unclaimed"
    /\ Now(p, "loaded", "lost")
    /\ UNCHANGED <<lease, cap, slot, att, evid, ran>>

\* reserve_executor_attempt
Reserve(p, answered) ==
    /\ At(p, "loaded")
    /\ Fence(p)
    /\ att[ex[p].e].st = "authorized_unclaimed" /\ att[ex[p].e].epoch = cap[p]
    /\ Mark(ex[p].e, "reserved", FALSE)
    /\ Now(p, IF answered THEN "reserved" ELSE "unclaiming", "lost")
    /\ UNCHANGED <<lease, cap, slot, evid, ran>>

\* The reservation lease runs out.
ReservationExpires(e) ==
    /\ att[e].st = "reserved" /\ ~att[e].late
    /\ Mark(e, "reserved", TRUE)
    /\ UNCHANGED <<lease, cap, slot, evid, ex, ran>>

\* mark_executor_attempt_started
MarkStarted(p, answered) ==
    /\ At(p, "reserved")
    /\ Fence(p)
    /\ att[ex[p].e].st = "reserved" /\ att[ex[p].e].epoch = cap[p] /\ ~att[ex[p].e].late
    /\ Mark(ex[p].e, "started", FALSE)
    /\ Now(p, IF answered THEN "claimed" ELSE "unclaiming", "lost")
    /\ UNCHANGED <<lease, cap, slot, evid, ran>>

\* Some store call of _claim_attempt raised.
FailClaim(p) ==
    /\ ex[p].pc \in {"permit", "loaded", "reserved"}
    /\ Now(p, "unclaiming", "lost")
    /\ UNCHANGED <<lease, cap, slot, att, evid, ran>>

\* The backend is called ...
RunTool(p) ==
    /\ At(p, "claimed")
    /\ Now(p, "running", "lost")
    /\ ran' = [ran EXCEPT ![ex[p].e] = @ + 1]
    /\ UNCHANGED <<lease, cap, slot, att, evid>>

\* ... or not, because the caller was cancelled while claiming.
SkipTool(p) ==
    /\ At(p, "claimed")
    /\ Now(p, "quiescing", "lost")
    /\ UNCHANGED <<lease, cap, slot, att, evid, ran>>

\* The tool returns, raises or is cancelled.
ToolEnds(p, res) ==
    /\ At(p, "running")
    /\ Now(p, "quiescing", res)
    /\ UNCHANGED <<lease, cap, slot, att, evid, ran>>

\* quiesce_claimed_executor_attempt, after the tool or after a failed claim.
\* The executor_id it compares is that of the claim, and an effect has one
\* permit (OnePermit); a repeated call finds the attempt quiescent and is
\* answered without a change.
Quiesce(p, answered) ==
    /\ ex[p].pc \in {"quiescing", "unclaiming"}
    /\ Fence(p)
    /\ att[ex[p].e].st \in {"authorized_unclaimed", "reserved", "started"}
    /\ att[ex[p].e].epoch <= cap[p]
    /\ Mark(ex[p].e, "quiescent", FALSE)
    /\ Now(p, "done", IF answered /\ At(p, "quiescing") THEN ex[p].res ELSE "lost")
    /\ UNCHANGED <<lease, cap, slot, evid, ran>>

\* It raised: the result the tool produced is reported as indeterminate.
FailQuiesce(p) ==
    /\ ex[p].pc \in {"quiescing", "unclaiming"}
    /\ Now(p, "done", "lost")
    /\ UNCHANGED <<lease, cap, slot, att, evid, ran>>

-----------------------------------------------------------------------------
(* Settlement, recovery, revocation, reconciliation.                       *)

\* Mutation of Replayed: a slot that has not failed is taken for a success.
ReplayedAsDone(status) == IF status = "failed" THEN "fail" ELSE "ok"

\* What _replayed_effect_settlement makes of a slot.
Replayed(status) == CASE status = "completed" -> "ok" [] status = "failed" -> "fail" [] OTHER -> "lost"

\* Mutation of Recover: it does not wait for an active attempt.
RecoverAtOnce(p, e, res) ==
    /\ cap[p] # 0 /\ ex[p].pc = "idle"
    /\ att[e].st # "none"
    /\ res \in {"lost", Replayed(slot[e])}
    /\ ex' = [ex EXCEPT ![p] = Doing("done", e, res, FALSE)]
    /\ UNCHANGED <<lease, cap, slot, att, evid, ran>>

\* recover_authorization_replay: a process that meets an authorized effect it
\* holds no permit for waits until the attempt is neither reserved nor
\* started, and settles the effect with what its slot says, as indeterminate
\* while that is `dispatched'.  The slot is read before the attempt.
Recover(p, e, res) ==
    /\ cap[p] # 0 /\ ex[p].pc = "idle"
    /\ att[e].st \in {"authorized_unclaimed", "quiescent"}
    /\ res \in {"lost", Replayed(slot[e])}
    /\ ex' = [ex EXCEPT ![p] = Doing("done", e, res, FALSE)]
    /\ UNCHANGED <<lease, cap, slot, att, evid, ran>>

\* commit_settlement reads the attempt in a transaction of its own: an
\* indeterminate settlement of an unclaimed attempt carries a closeout.
LoadCloseout(p) ==
    /\ At(p, "done")
    /\ ex' = [ex EXCEPT ![p] = Doing("settling", ex[p].e, ex[p].res,
                                ex[p].res = "lost" /\ att[ex[p].e].st = "authorized_unclaimed")]
    /\ UNCHANGED <<lease, cap, slot, att, evid, ran>>

\* Mutation of SettlementCommits: the closeout read before is not checked again.
SettleStaleCloseout(p) ==
    /\ At(p, "settling")
    /\ Fence(p) /\ slot[ex[p].e] = "dispatched"
    /\ slot' = [slot EXCEPT ![ex[p].e] = Outcome(ex[p].res)]
    /\ IF ex[p].closeout THEN Mark(ex[p].e, "quiescent", FALSE) ELSE UNCHANGED att
    /\ UNCHANGED <<lease, cap, evid, ran>>

\* The settlement is committed: dispatched -> completed | failed | unknown.
SettlementCommits(p) ==
    /\ At(p, "settling")
    /\ Fence(p) /\ slot[ex[p].e] = "dispatched"
    /\ ex[p].closeout => att[ex[p].e].st = "authorized_unclaimed" /\ att[ex[p].e].epoch <= cap[p]
    /\ slot' = [slot EXCEPT ![ex[p].e] = Outcome(ex[p].res)]
    /\ IF ex[p].closeout THEN Mark(ex[p].e, "quiescent", FALSE) ELSE UNCHANGED att
    /\ UNCHANGED <<lease, cap, evid, ran>>

Settle(p) == SettlementCommits(p) /\ ex' = [ex EXCEPT ![p] = Resting]

\* The commit is refused (or its outcome unknown) and the segment fails.
FailSettle(p) ==
    /\ ex[p].pc \in {"done", "settling"}
    /\ ex' = [ex EXCEPT ![p] = Resting]
    /\ UNCHANGED <<lease, cap, slot, att, evid, ran>>

\* revoke_expired_executor_reservation
Revoke(p, e) ==
    /\ Fence(p)
    /\ att[e].st = "reserved" /\ att[e].late /\ att[e].epoch < cap[p]
    /\ Mark(e, "quiescent", TRUE)
    /\ UNCHANGED <<lease, cap, slot, evid, ex, ran>>

\* record_effect_reconciliation_evidence: one record per effect, for ever.
RecordEvidence(p, e, outcome) ==
    /\ Fence(p)
    /\ evid[e] = NoEvidence
    /\ evid' = [evid EXCEPT ![e] = [epoch |-> cap[p], outcome |-> outcome]]
    /\ UNCHANGED <<lease, cap, slot, att, ex, ran>>

\* Mutation of MayReconcile: the attempt need not be quiescent.
MayReconcileBusy(p, e) == slot[e] = "unknown" /\ evid[e].epoch = cap[p]

\* _assert_reconciliation_preconditions
MayReconcile(p, e) ==
    /\ slot[e] = "unknown"
    /\ evid[e].epoch = cap[p]
    /\ \/ att[e].st = "quiescent"
       \/ att[e].epoch = cap[p]
       \/ att[e].st = "authorized_unclaimed" /\ att[e].epoch < cap[p]

\* Mutation of Reconcile: the outcome of the evidence is not looked at.
ReconcileAsDone(p, e) ==
    /\ Fence(p)
    /\ MayReconcile(p, e)
    /\ slot' = [slot EXCEPT ![e] = "completed"]
    /\ UNCHANGED <<lease, cap, att, evid, ex, ran>>

\* commit_reconciliation: unknown -> completed | failed.
Reconcile(p, e) ==
    /\ Fence(p)
    /\ MayReconcile(p, e)
    /\ slot' = [slot EXCEPT ![e] = evid[e].outcome]
    /\ UNCHANGED <<lease, cap, att, evid, ex, ran>>

-----------------------------------------------------------------------------
Execution(p) ==
    \/ Withhold(p) \/ LoadClaim(p) \/ FailClaim(p)
    \/ \E answered \in BOOLEAN : Reserve(p, answered) \/ MarkStarted(p, answered) \/ Quiesce(p, answered)
    \/ RunTool(p) \/ SkipTool(p) \/ FailQuiesce(p)
    \/ \E res \in Results : ToolEnds(p, res)

LedgerProcNext(p) ==
    \/ Grant(p) \/ Crash(p)
    \/ \E es \in SUBSET Effects : Prepare(p, es)
    \/ \E e \in Effects : \/ Reject(p, e)
                          \/ \E answered \in BOOLEAN : Authorize(p, e, answered)
                          \/ \E res \in Results : Recover(p, e, res)
                          \/ Revoke(p, e) \/ Reconcile(p, e)
                          \/ \E outcome \in {"completed", "failed"} : RecordEvidence(p, e, outcome)
    \/ Execution(p)
    \/ LoadCloseout(p) \/ Settle(p) \/ FailSettle(p)

LedgerNext ==
    \/ Lapse
    \/ \E e \in Effects : ReservationExpires(e)
    \/ \E p \in Procs : LedgerProcNext(p)

\* What the durable store promises of its effects, whoever drives it: slots,
\* attempts and evidence change only by the operations above.  A run of the
\* SegmentCoordinator implements it.
LedgerSpec == LedgerInit /\ [][LedgerNext]_ledgerVars

-----------------------------------------------------------------------------
(* Properties.                                                             *)

\* Nobody shares the owner id of p.
Alone(p) == \A q \in Procs : OwnerOf[q] = OwnerOf[p] => q = p

Pursuing == {"permit", "loaded", "reserved", "claimed", "running"}
Busy(e) == \E p \in Procs : ex[p].e = e /\ ex[p].pc \in Executing

\* The tool of an effect is started at most once, whatever crashes, takes
\* over, loses an answer, is cancelled or recovers (no automatic retry).
AtMostOnce == \A e \in Effects : ran[e] <= 1

\* Durable quiescence is true: once an attempt is recorded quiescent (by its
\* executor, a closeout or a revocation) no process runs or is about to run it.
QuiescentIsQuiet == \A e \in Effects : att[e].st = "quiescent" => ~Busy(e)

\* An effect that has left `dispatched' (settled, unknown or reconciled) is
\* not being executed by a process that shares its owner id with nobody.
SettledIsQuiet ==
    \A p \in Procs : Alone(p) /\ ex[p].pc \in Executing => slot[ex[p].e] = "dispatched"

\* An owner that took the session over reconciles an unknown effect only
\* when the old owner's executor can no longer act.
TakeoverReconcilesQuiet ==
    [][\A e \in Effects :
         slot[e] = "unknown" /\ slot'[e] # "unknown" /\ evid[e].epoch # att[e].epoch => ~Busy(e)]_ledgerVars

\* The lease this module assumes: never deleted, and only its grants matter.
Lease == INSTANCE SessionLease
            WITH owner <- IF lease.live THEN lease.owner ELSE NoOwner,
                 epoch <- lease.epoch, floor <- 0, last <- 0

\* The lease the effects are fenced with is a SessionLease, the promise that
\* OwnerLease implements: acquisitions and takeovers keep one owner per epoch.
UsesLease == Lease!LeaseSpec

-----------------------------------------------------------------------------
(* Inductive invariants (proved in EffectLedgerProofs).                    *)

\* An effect that was never dispatched has no attempt and never ran.
UndispatchedIsFresh ==
    \A e \in Effects : slot[e] \in {"none", "prepared"} => att[e].st = "none" /\ ran[e] = 0

\* A process that is not idle deals with an effect; one that holds its permit
\* deals with an effect that was dispatched.
HeldIsDispatched ==
    \A p \in Procs : /\ ex[p].pc # "idle" => ex[p].e \in Effects
                     /\ ex[p].pc \in Holding => slot[ex[p].e] \notin {"none", "prepared"}

\* Two processes never hold permits of the same effect.
OneHolder ==
    \A p, q \in Procs : ex[p].pc \in Holding /\ ex[q].pc \in Holding /\ ex[p].e = ex[q].e => p = q

\* A tool runs only under a started attempt.
ExecutingIsStarted == \A p \in Procs : ex[p].pc \in Executing => att[ex[p].e].st = "started"

\* A tool that is still to be run has not run before.
NotYetRun ==
    \A p \in Procs : ex[p].pc \in {"permit", "loaded", "reserved", "claimed"} => ran[ex[p].e] = 0

\* One permit per effect, and what it takes to keep it so: no order of
\* crashes, takeovers, lost answers and recoveries hands out a second one.
OnePermit ==
    /\ UndispatchedIsFresh
    /\ HeldIsDispatched
    /\ OneHolder
    /\ ExecutingIsStarted
    /\ NotYetRun
    /\ AtMostOnce

\* The process in force is the one the lease names, and no process acts
\* without an epoch.
EpochNamesOwner ==
    /\ lease.live => lease.epoch # 0
    /\ \A p \in Procs : /\ cap[p] <= lease.epoch
                        /\ cap[p] = lease.epoch /\ cap[p] # 0 => lease.owner = OwnerOf[p]
                        /\ ex[p].pc # "idle" => cap[p] # 0

\* A permit whose holder shares its owner id with nobody outlives the
\* settlement of its effect only under an older epoch, and before the claim.
SettledPermitIsOld ==
    \A p \in Procs : Alone(p) /\ ex[p].pc \in Pursuing /\ slot[ex[p].e] # "dispatched"
                        => ex[p].pc \notin Executing /\ cap[p] < lease.epoch

\* What the process in force is about to settle is executed by nobody who
\* has an owner id of its own.
SettlesWhatIsQuiet ==
    \A p, q \in Procs :
        Alone(p) /\ ex[q].pc \in {"done", "settling"} /\ cap[q] = lease.epoch /\ ex[p].pc \in Executing
            => ex[p].e # ex[q].e

\* One owner per epoch; and what that gives whoever has an owner id of its own.
OneOwner ==
    /\ EpochNamesOwner
    /\ SettledPermitIsOld
    /\ SettlesWhatIsQuiet
=============================================================================
