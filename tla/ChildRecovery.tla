--------------------------- MODULE ChildRecovery ---------------------------
(***************************************************************************)
(* The recovery of one child run whose parent effect was left dispatched   *)
(* by an earlier owner of the session: recovery leases on the child        *)
(* binding (stores/*_durable/uow.py), the commit port that binds the       *)
(* coordinator's stale-cut retries to a lease (runs/child_execution.py),   *)
(* the guard of recovery commits and the receipts by which the live and    *)
(* the recovery settlement of the parent find each other.                  *)
(*                                                                         *)
(* The session owner is fenced (OwnerLease): a worker that lost the        *)
(* session has every store call refused, so a takeover ends all workers.   *)
(* Only commands advance the session sequence here, so a position of the   *)
(* mailbox is its admitted_session_seq, and the commands before the        *)
(* parent's authorization are left out.                                    *)
(***************************************************************************)
EXTENDS Naturals, Sequences, FiniteSets

CONSTANTS
    Workers,   \* recoveries, and ordinary settlements, that may run at once
    LeaseIds,  \* recovery lease ids
    NoId,      \* no lease id
    Sent,      \* <<kind, target>> of the commands that are sent
    MaxEpoch,  \* bound: owner epochs; the parent was dispatched in epoch 1
    MaxMail    \* bound: commands admitted

\* deny and allow: approval_decision; an interrupt acts like a cancel, and a
\* global target like the parent.
Kinds == {"cancel", "deny", "allow"}
Targets == {"child", "parent", "other"}

ASSUME RecoveryAssumption ==
    /\ Sent \subseteq Kinds \X Targets
    /\ NoId \notin LeaseIds
    /\ MaxEpoch \in Nat \ {0} /\ MaxMail \in Nat

VARIABLES
    epoch,     \* owner epoch of the session
    mail,      \* the commands of the session, by admitted_session_seq
    active,    \* active_lease of the child binding
    issued,    \* lease ids in session_recovery_leases
    quiet,     \* the parent's executor attempt is quiescent
    parent,    \* status of the parent effect
    receipts,  \* transition receipts that settle the parent effect
    child,     \* operation state of the child run
    worker     \* worker[w]: its port, and where it stands

vars == <<epoch, mail, active, issued, quiet, parent, receipts, child, worker>>

Commands == [kind : Kinds, target : Targets, open : BOOLEAN]

\* runtime_command_invalidates_dispatch
Invalidates(c) == c.kind \in {"cancel", "deny"}

\* dispatch_generation: every invalidating command adds one, whomever it is for.
Generation == Cardinality({i \in DOMAIN mail : Invalidates(mail[i])})

\* _matched_child_mailbox_snapshot, and _assert_no_pending_child_control.
Matched == {i \in DOMAIN mail : mail[i].open /\ mail[i].target \in {"child", "parent"}}
PendingControl == \E i \in Matched : Invalidates(mail[i])

Leases == [id : LeaseIds, rgen : Nat \ {0}, cut : 0..MaxMail, epoch : 1..MaxEpoch,
           seq : 0..MaxMail, snap : SUBSET (1..MaxMail)]
NoLease == [id |-> NoId, rgen |-> 0, cut |-> 0, epoch |-> 0, seq |-> 0, snap |-> {}]

\* Mutation of NewLease: the sequence is one ahead of the store's.
NewLeaseAhead(id, rgen) ==
    [id |-> id, rgen |-> rgen, cut |-> Generation, epoch |-> epoch, seq |-> Len(mail) + 1, snap |-> Matched]

\* The lease that the store would issue now.
NewLease(id, rgen) ==
    [id |-> id, rgen |-> rgen, cut |-> Generation, epoch |-> epoch, seq |-> Len(mail), snap |-> Matched]

\* RecoveredChildControlState and what the probe makes of it.
View == [gen |-> Generation, seq |-> Len(mail), raised |-> PendingControl]
Views == [gen : 0..MaxMail, seq : 0..MaxMail, raised : BOOLEAN]
NoView == [gen |-> 0, seq |-> 0, raised |-> FALSE]

\* Transition ids that settle the parent effect.
Live == [id |-> NoId, rgen |-> 0, cut |-> 0]
Receipt(lease) == [id |-> lease.id, rgen |-> lease.rgen, cut |-> lease.cut]

\* waiting: the child's effect is prepared and gated by an approval.
ChildStates == {"waiting", "prepared", "dispatched", "ready", "terminal"}

\* auth .. stale: the steps of one authorization, from one store call to the
\* next; broken: the port raised ValueError; settling: an ordinary settlement
\* of the parent that has read the binding.
Authorizing == {"auth", "refresh", "refreshed", "rebase", "rebased", "raced", "commit", "stale"}
Stages == Authorizing \cup {"idle", "held", "broken", "settling"}

\* lease, view, known: _lease and _latest_control_state of the port; req and
\* approval: mailbox_cut and the approval of the authorization request;
\* fresh: the child's state is still the one the request was made from.
Idle == [pc |-> "idle", lease |-> NoLease, view |-> NoView, known |-> FALSE,
         req |-> 0, approval |-> 0, fresh |-> FALSE]

Ports == [pc : Stages, lease : Leases \cup {NoLease}, view : Views, known : BOOLEAN,
          req : 0..MaxMail, approval : 0..MaxMail, fresh : BOOLEAN]

\* Types, and: a lease is never ahead of the mailbox it was cut from.
TypeOK ==
    /\ epoch \in 1..MaxEpoch
    /\ mail \in Seq(Commands) /\ Len(mail) <= MaxMail
    /\ active \in Leases \cup {NoLease}
    /\ active.seq <= Len(mail) /\ active.cut <= Generation
    /\ active.snap \subseteq 1..active.seq
    /\ issued \subseteq LeaseIds
    /\ quiet \in BOOLEAN
    /\ parent \in {"dispatched", "settled"}
    /\ receipts \subseteq [id : LeaseIds \cup {NoId}, rgen : Nat, cut : Nat]
    /\ child \in ChildStates
    /\ worker \in [Workers -> Ports]

Init ==
    /\ epoch = 1 /\ mail = <<>>
    /\ active = NoLease /\ issued = {}
    /\ quiet = FALSE /\ parent = "dispatched" /\ receipts = {}
    /\ child \in ChildStates
    /\ worker = [w \in Workers |-> Idle]

-----------------------------------------------------------------------------
(* The session around the recovery.                                        *)

\* admit_new_runtime_command; a command sent again is answered as before.
Admit(kind, target) ==
    /\ Len(mail) < MaxMail
    /\ mail' = Append(mail, [kind |-> kind, target |-> target, open |-> TRUE])
    /\ UNCHANGED <<epoch, active, issued, quiet, parent, receipts, child, worker>>

\* The parent's executor has stopped, and says so.
Quiesce ==
    /\ ~quiet /\ quiet' = TRUE
    /\ UNCHANGED <<epoch, mail, active, issued, parent, receipts, child, worker>>

\* The session gets a new owner; the workers of the old one are refused.
Takeover ==
    /\ epoch < MaxEpoch
    /\ epoch' = epoch + 1
    /\ worker' = [w \in Workers |-> Idle]
    /\ UNCHANGED <<mail, active, issued, quiet, parent, receipts, child>>

\* w is cancelled or dies between two steps.
Crash(w) ==
    /\ worker[w] # Idle
    /\ worker' = [worker EXCEPT ![w] = Idle]
    /\ UNCHANGED <<epoch, mail, active, issued, quiet, parent, receipts, child>>

\* A step of w that reads the store and writes nothing.
Reads(w, wk) ==
    /\ worker' = [worker EXCEPT ![w] = wk]
    /\ UNCHANGED <<epoch, mail, active, issued, quiet, parent, receipts, child>>

\* A transition of the child run: the requests of the others are now stale.
Commits(w, wk, st) ==
    /\ child' = st
    /\ worker' = [v \in Workers |-> IF v = w THEN wk ELSE [worker[v] EXCEPT !.fresh = FALSE]]

-----------------------------------------------------------------------------
(* Recovery leases.                                                        *)

\* acquire_recovered_child_execution_lease: a lease id that was issued before
\* gets its lease again.
Reacquire(w, id) ==
    /\ worker[w].pc = "idle"
    /\ id \in issued /\ active.id = id /\ active.epoch = epoch
    /\ ~PendingControl
    /\ Reads(w, [Idle EXCEPT !.pc = "held", !.lease = active])

\* A new one is for a parent that an older owner left dispatched and quiet.
MayAcquire(id) ==
    /\ id \notin issued
    /\ active = NoLease \/ active.epoch < epoch
    /\ parent = "dispatched" /\ quiet /\ epoch > 1
    /\ ~PendingControl

Acquire(w, id) ==
    /\ worker[w].pc = "idle"
    /\ MayAcquire(id)
    /\ active' = NewLease(id, active.rgen + 1)
    /\ issued' = issued \cup {id}
    /\ worker' = [worker EXCEPT ![w] = [Idle EXCEPT !.pc = "held", !.lease = active']]
    /\ UNCHANGED <<epoch, mail, quiet, parent, receipts, child>>

\* A lease that would be issued as it is, is kept.
Refreshed(lease) ==
    IF lease.cut = Generation /\ lease.seq = Len(mail) /\ lease.snap = Matched
    THEN lease ELSE NewLease(lease.id, lease.rgen + 1)

\* Mutation of MayRebase: whether the parent is still dispatched is not looked at.
MayRebaseSettled(lease) ==
    /\ active = lease
    /\ ~PendingControl
    /\ \A i \in Matched : mail[i].kind # "allow"

\* rebase_recovered_child_execution_lease
MayRebase(lease) ==
    /\ active = lease
    /\ parent = "dispatched"
    /\ ~PendingControl
    /\ \A i \in Matched : mail[i].kind # "allow"

\* refresh_recovered_child_execution_lease_for_approval
MayRefresh(lease, approval) ==
    /\ active = lease
    /\ lease.cut = Generation
    /\ child = "waiting"
    /\ ~PendingControl
    /\ approval \in Matched

\* The store issues w's lease anew, and w goes on at pc.
Renew(w, pc) ==
    /\ active' = Refreshed(worker[w].lease)
    /\ worker' = [worker EXCEPT ![w].lease = active', ![w].pc = pc]
    /\ UNCHANGED <<epoch, mail, issued, quiet, parent, receipts, child>>

-----------------------------------------------------------------------------
(* RecoveredChildCommitPort.authorize_dispatch and the coordinator's retry  *)
(* loop around it.  A refused store call ends the segment and the port.    *)

Max2(a, b) == IF a >= b THEN a ELSE b

\* The coordinator on a stale cut: it yields to a raised probe, or asks again
\* with the larger of the cut it is told and the probe's.
Retried(wk, cut) ==
    IF wk.view.raised THEN Idle
    ELSE [wk EXCEPT !.pc = "auth", !.req = Max2(cut, wk.view.gen)]

\* Mutation of Loaded: only the first view is kept.
LoadedOnce(wk) == IF wk.known THEN wk ELSE [wk EXCEPT !.view = View, !.known = TRUE]

\* The port publishes what it loads to the probe.
Loaded(wk) == [wk EXCEPT !.view = View, !.known = TRUE]

\* What the port does next, given its latest view of the store.
Routed(wk) ==
    LET behind == wk.known /\ wk.view.gen < wk.req
        ahead  == wk.known /\ wk.view.gen > wk.lease.cut
    IN  IF behind \/ (~ahead /\ wk.req # wk.lease.cut) THEN [wk EXCEPT !.pc = "broken"]
        ELSE IF ~ahead THEN [wk EXCEPT !.pc = "commit"]
        ELSE IF wk.view.raised THEN Idle
        ELSE [wk EXCEPT !.pc = "rebase"]

\* A segment asks to dispatch the child's prepared effect, with the open
\* approval i of the child when the effect is gated.
Ask(w, i) ==
    /\ worker[w].pc = "held"
    /\ \/ child = "prepared" /\ i = 0
       \/ /\ child = "waiting" /\ i \in DOMAIN mail
          /\ mail[i] = [kind |-> "allow", target |-> "child", open |-> TRUE]
    /\ Reads(w, [worker[w] EXCEPT !.pc = "auth", !.req = worker[w].lease.cut, !.approval = i, !.fresh = TRUE])

\* Without an approval the port goes by its cached view.
EnterPlain(w) ==
    /\ worker[w].pc = "auth" /\ worker[w].approval = 0
    /\ Reads(w, Routed(worker[w]))

\* With one it loads the control state first.
EnterGated(w) ==
    LET wk == worker[w] IN
    /\ wk.pc = "auth" /\ wk.approval # 0
    /\ Reads(w,
         CASE active # wk.lease -> Idle
           [] active = wk.lease /\ ~wk.known /\ Generation >= wk.req /\ Generation # wk.lease.cut ->
                Retried(Loaded(wk), Generation)
           [] active = wk.lease /\ Generation >= wk.req /\ Generation = wk.lease.cut /\ Len(mail) > wk.lease.seq ->
                [Loaded(wk) EXCEPT !.pc = "refresh"]
           [] OTHER -> Routed(Loaded(wk)))

Refresh(w) ==
    /\ worker[w].pc = "refresh"
    /\ worker[w].fresh /\ MayRefresh(worker[w].lease, worker[w].approval)
    /\ Renew(w, "refreshed")

Rebase(w) ==
    /\ worker[w].pc = "rebase"
    /\ MayRebase(worker[w].lease)
    /\ Renew(w, "rebased")

\* A refused refresh ends the segment, a refused rebase does not.
RenewRefused(w) ==
    LET wk == worker[w] IN
    \/ /\ wk.pc = "refresh" /\ ~(wk.fresh /\ MayRefresh(wk.lease, wk.approval))
       /\ Reads(w, Idle)
    \/ /\ wk.pc = "rebase" /\ ~MayRebase(wk.lease)
       /\ Reads(w, [wk EXCEPT !.pc = "raced"])

\* load_recovered_child_control_state after a renewal, a refused rebase or a
\* stale cut; the cut that is then reported differs.
Reload(w) ==
    LET wk == worker[w] IN
    /\ wk.pc \in {"refreshed", "rebased", "raced", "stale"}
    /\ Reads(w,
         CASE active # wk.lease -> Idle
           [] active = wk.lease /\ wk.pc = "refreshed" -> Routed(Loaded(wk))
           [] active = wk.lease /\ wk.pc = "rebased" -> Retried(Loaded(wk), wk.lease.cut)
           [] OTHER -> Retried(Loaded(wk), Generation))

\* authorize_dispatch of the delegate: the transition commits at the cut that
\* was asked for; an approval is applied with it.
Authorize(w) ==
    LET wk == worker[w] IN
    /\ wk.pc = "commit" /\ wk.req = Generation
    /\ wk.fresh /\ (wk.approval # 0 => mail[wk.approval].open)
    /\ Commits(w, [wk EXCEPT !.pc = "held", !.fresh = FALSE, !.approval = 0, !.req = 0], "dispatched")
    /\ mail' = IF wk.approval = 0 THEN mail ELSE [mail EXCEPT ![wk.approval].open = FALSE]
    /\ UNCHANGED <<epoch, active, issued, quiet, parent, receipts>>

AuthorizeRefused(w) ==
    LET wk == worker[w] IN
    /\ wk.pc = "commit"
    /\ \/ wk.req # Generation /\ Reads(w, [wk EXCEPT !.pc = "stale"])
       \/ /\ wk.req = Generation /\ ~(wk.fresh /\ (wk.approval # 0 => mail[wk.approval].open))
          /\ Reads(w, Idle)

-----------------------------------------------------------------------------
(* The other commits of the recovered child, and of its parent.            *)

\* The child's effect is settled, or its next one prepared.
Advance(w, st) ==
    /\ worker[w].pc = "held"
    /\ \/ child = "dispatched" /\ st = "ready"
       \/ child = "ready" /\ st \in {"waiting", "prepared"}
    /\ Commits(w, worker[w], st)
    /\ UNCHANGED <<epoch, mail, active, issued, quiet, parent, receipts>>

\* A denial rejects the effect, and the child goes on.
Deny(w, i) ==
    /\ worker[w].pc = "held" /\ child = "waiting" /\ i \in DOMAIN mail
    /\ mail[i] = [kind |-> "deny", target |-> "child", open |-> TRUE]
    /\ mail' = [mail EXCEPT ![i].open = FALSE]
    /\ Commits(w, worker[w], "ready")
    /\ UNCHANGED <<epoch, active, issued, quiet, parent, receipts>>

\* Mutation of Guarded: the cut is not compared.
GuardedByLease(lease) == Receipt(active) = Receipt(lease) /\ active.epoch = epoch

\* The check of a RecoveryTransitionGuard made from a lease.
Guarded(lease) == Receipt(active) = Receipt(lease) /\ active.epoch = epoch /\ Generation = lease.cut

\* A transition or a settlement that ends the child commits under the guard.
EndChild(w) ==
    /\ worker[w].pc = "held" /\ child \in {"dispatched", "ready"}
    /\ Guarded(worker[w].lease)
    /\ Commits(w, worker[w], "terminal")
    /\ UNCHANGED <<epoch, mail, active, issued, quiet, parent, receipts>>

\* A settlement of the parent writes, unless a receipt is adopted that exists
\* under one of `ids', or the effect is settled under another one.
MaySettle(ids) == receipts \cap ids = {} /\ parent = "dispatched"

\* Either way the caller is done.
Settle(w, id) ==
    /\ parent' = "settled" /\ receipts' = receipts \cup {id}
    /\ worker' = [worker EXCEPT ![w] = Idle]
    /\ UNCHANGED <<epoch, mail, active, issued, quiet, child>>

\* commit_parent_settlement, once the child is terminal, under the guard.
SettleRecovered(w) ==
    LET l == worker[w].lease IN
    /\ worker[w].pc = "held" /\ child = "terminal"
    /\ IF MaySettle({Receipt(l), Live}) /\ Guarded(l) THEN Settle(w, Receipt(l)) ELSE Reads(w, Idle)

\* commit_settlement of the parent's own segment: it reads the binding first.
BeginSettle(w) ==
    /\ worker[w].pc = "idle" /\ quiet
    /\ Reads(w, [Idle EXCEPT !.pc = "settling", !.lease = active])

SettleLive(w) ==
    /\ worker[w].pc = "settling"
    /\ IF MaySettle({Live, Receipt(worker[w].lease)}) THEN Settle(w, Live) ELSE Reads(w, Idle)

Step(w) ==
    \/ EnterPlain(w) \/ EnterGated(w) \/ Refresh(w) \/ Rebase(w) \/ RenewRefused(w)
    \/ Reload(w) \/ Authorize(w) \/ AuthorizeRefused(w)

Next ==
    \/ \E c \in Sent : Admit(c[1], c[2])
    \/ Quiesce \/ Takeover
    \/ \E w \in Workers :
        \/ \E id \in LeaseIds : Reacquire(w, id) \/ Acquire(w, id)
        \/ \E i \in 0..MaxMail : Ask(w, i) \/ Deny(w, i)
        \/ \E st \in {"waiting", "prepared", "ready"} : Advance(w, st)
        \/ Step(w)
        \/ EndChild(w) \/ SettleRecovered(w) \/ BeginSettle(w) \/ SettleLive(w)
        \/ Crash(w)

Spec == Init /\ [][Next]_vars

\* An authorization is not abandoned in the middle: the event loop goes on.
FairSpec == Spec /\ \A w \in Workers : WF_vars(Step(w))

-----------------------------------------------------------------------------
(* Properties.                                                             *)

\* A control command for the child or its parent that is still pending is
\* never overtaken: while one is, a recovery neither dispatches an effect of
\* the child nor ends the child nor settles the parent (the guard and the
\* authorization only compare dispatch generations).
ControlHeeded ==
    [][\/ epoch > 1 /\ child' # child /\ child' \in {"dispatched", "terminal"}
       \/ \E r \in receipts' \ receipts : r # Live
       => ~PendingControl]_vars

\* The settlement of the parent is found again: whoever asks after it was
\* committed, by the live or by a recovery path, finds exactly one receipt
\* under the ids derived from the binding (adopt_parent_settlement_receipt
\* refuses two, and refuses a settled parent without one).
ReceiptFound ==
    /\ parent = "settled" => \E r \in {Live, Receipt(active)} : receipts = {r}
    /\ parent = "dispatched" => receipts = {}

\* The rebase that w needs is refused although no control is raised: an allow
\* for the child or its parent is pending, or the parent has been settled.
Blocked(w) ==
    /\ Generation > worker[w].lease.cut
    /\ parent = "settled" \/ \E i \in Matched : mail[i].kind = "allow"

\* The retry loop of an authorization ends, with the dispatch, a yield or a
\* refusal and never with the port's ValueError, unless its rebase is blocked.
RetryEnds ==
    \A w \in Workers :
        worker[w].pc \in Authorizing ~> (worker[w].pc \notin Authorizing \cup {"broken"} \/ Blocked(w))
=============================================================================
