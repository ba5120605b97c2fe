-------------------------- MODULE SegmentCoordinator --------------------------
(***************************************************************************)
(* One durable run of a session: the SegmentCoordinator loop               *)
(* (agentkit/runtime/coordinator.py) around the AgentEngine                *)
(* (agentkit/runtime/engine.py), the durable commit port and the fenced    *)
(* transition transaction behind it (stores/durable_commit_port.py,        *)
(* _commit_transition of stores/local_durable/uow.py), the command mailbox *)
(* that carries approvals and interrupts, and run_turn with its            *)
(* DurableSegmentRunner (runs/serving_runtime.py, runs/turn_execution.py). *)
(* Every change to the effect ledger is the EffectLedger action of the     *)
(* same name.                                                              *)
(*                                                                         *)
(* A coordinator works on a snapshot of the operation state and commits    *)
(* against it; several processes may run segments of the run at once       *)
(* (processes that share an owner id, or an old owner after a takeover).   *)
(* A snapshot's revision stands for its commit_ref: each revision has one  *)
(* committing transition.  Model content, tool arguments and results are   *)
(* left out; an effect id stands for its plan, attempt id and tool call.   *)
(***************************************************************************)
EXTENDS EffectLedger, Sequences

CONSTANTS
    Calls,     \* Calls[r]: effect ids of the tool calls of model round r
    Gated,     \* effects whose plan requires approval
    Observed,  \* bound: effects that reconciliation evidence is recorded for
    MaxCut,    \* bound: dispatch-invalidating commands admitted
    Faults,    \* kinds of faults explored: "crash", "lapse", "storage"
    MaxFaults  \* bound: number of faults

\* An effect id names a round and an index: f"{transition_id}:effect:{index}".
ASSUME CoordinatorAssumption ==
    /\ Calls \in Seq(Seq(Effects))
    /\ \A r, t \in DOMAIN Calls : \A i \in DOMAIN Calls[r], j \in DOMAIN Calls[t] :
          Calls[r][i] = Calls[t][j] => r = t /\ i = j
    /\ Gated \subseteq Effects /\ Observed \subseteq Effects
    /\ MaxCut \in Nat /\ MaxFaults \in Nat

VARIABLES
    op,        \* session_operation_states row of the run
    receipts,  \* session_transition_receipts
    facts,     \* facts[e]: outcomes of the tool_result facts of e, in order
    appr,      \* appr[e]: the approval_decision command of e in the mailbox
    gen,       \* dispatch_generation of the session fact source
    co,        \* co[p]: the segment p runs
    raised,    \* raised[p]: what p's control probe shows
    faults     \* number of faults so far (bound only)

runVars == <<op, receipts, facts, appr, gen, co, raised, faults>>
vars == <<ledgerVars, runVars>>

MaxRounds == Len(Calls)

\* An operation state: pending_effect_plans, active_effect_authorization,
\* unknown_effect, reconciled_effect, active_model_request_id.
Admission == [rev |-> 0, round |-> 0, plans |-> <<>>, auth |-> NoEffect,
              unknown |-> FALSE, recon |-> "none", model |-> FALSE]

\* A segment: where it is, the input it is committing, its snapshot and its
\* working mailbox cut.  at is the revision an approval was given for or the
\* round a model result belongs to, new the plans of that result.
Off == [pc |-> "off", input |-> "none", s |-> Admission, cut |-> 0, at |-> 0, new |-> <<>>]

\* An unknown or reconciled effect is the head plan; the model is asked only
\* when no plan is left.
States ==
    {s \in [rev : Nat, round : Nat, plans : Seq(Effects), auth : Effects \cup {NoEffect},
            unknown : BOOLEAN, recon : {"none", "completed", "failed", "unknown"}, model : BOOLEAN] :
        /\ s.unknown \/ s.recon # "none" => s.plans # <<>>
        /\ s.model => s.plans = <<>>}

\* A segment that waits for an approval, has one, or commits anything but a
\* first or a model transition has a head plan; one that polls, an attempt.
\* What an execution or a recovery yields is a settlement.
Segments ==
    {c \in [pc : {"off", "step", "act", "waiting", "commit", "executing", "polling"},
            input : {"none", "initial", "model", "approved", "denied", "dispatch", "settled",
                     "resolved", "reconcile", "reconciled"},
            s : States, cut : Nat, at : Nat, new : Seq(Effects)] :
        /\ c.pc = "step" => c.input \in {"initial", "model", "denied", "settled", "reconciled"}
        /\ \/ c.pc = "waiting"
           \/ c.input \in {"approved", "denied"}
           \/ c.pc = "commit" /\ c.input \notin {"initial", "model"}
           => c.s.plans # <<>>
        /\ c.pc = "commit" /\ c.input = "model" => c.s.model
        /\ c.pc \in {"executing", "polling"} => c.input = "settled"
        /\ c.pc = "polling" => c.s.auth \in Effects}

\* Every state and every segment is well formed; in particular no segment is
\* left waiting for, committing or polling an effect that it does not have,
\* and no marker outlives the plan it is about.
TypeOK ==
    /\ op \in States
    /\ \A u \in receipts : u.to \in States /\ u.stamped \in BOOLEAN /\ u.cut \in Nat
    /\ facts \in [Effects -> Seq(SlotStatus)]
    /\ appr \in [Effects -> {"none", "approved", "denied", "applied", "rejected"}]
    /\ gen \in Nat /\ faults \in Nat
    /\ co \in [Procs -> Segments]
    /\ raised \in [Procs -> BOOLEAN]

RunInit ==
    /\ op = Admission
    /\ receipts = {}
    /\ facts = [e \in Effects |-> <<>>]
    /\ appr = [e \in Effects |-> "none"]
    /\ gen = 0
    /\ co = [p \in Procs |-> Off]
    /\ raised = [p \in Procs |-> FALSE]
    /\ faults = 0

Init == LedgerInit /\ RunInit

-----------------------------------------------------------------------------
(* AgentEngine.propose: the state after each input.                        *)

\* _propose_initial builds the runtime state anew.
InitialState(s) == [Admission EXCEPT !.rev = s.rev + 1, !.model = TRUE]

\* _propose_model_completion
ModelState(s, plans) ==
    [s EXCEPT !.rev = @ + 1, !.round = @ + 1, !.plans = plans, !.model = FALSE]

\* Mutation of PopPlan: the markers of the effect are left behind.
PopKeepsMarkers(s) ==
    [s EXCEPT !.rev = @ + 1, !.plans = Tail(s.plans), !.auth = NoEffect, !.model = (Len(s.plans) = 1)]

\* The head plan is done with; after the last one the model is asked again.
PopPlan(s) ==
    [s EXCEPT !.rev = @ + 1, !.plans = Tail(s.plans), !.auth = NoEffect, !.unknown = FALSE,
              !.recon = "none", !.model = (Len(s.plans) = 1)]

\* Mutation of SettledState: the plan is done with, whatever the result.
SettledAlways(s, res) == PopPlan(s)

\* _propose_effect_settlement: an indeterminate result keeps the plan.
SettledState(s, res) == IF res = "lost" THEN [s EXCEPT !.rev = @ + 1, !.unknown = TRUE] ELSE PopPlan(s)

\* _with_active_effect_authorization
AuthorizedState(s) == [s EXCEPT !.rev = @ + 1, !.auth = Head(s.plans)]

\* Mutation of ReconciledState: the outcome is not put into the state.
ReconciledUnmarked(s, outcome) == [s EXCEPT !.rev = @ + 1]

\* state_value_with_reconciled_effect keeps the unknown marker.
ReconciledState(s, outcome) == [s EXCEPT !.rev = @ + 1, !.recon = outcome]

-----------------------------------------------------------------------------
(* Units of work.  A unit is identified by its transition id; with facts   *)
(* (or a closeout) it carries a clock reading, so that no other unit has   *)
(* the same fingerprint.                                                   *)

Unit(kind, e, n, stamped, cut, to) ==
    [id |-> <<kind, e, n>>, stamped |-> stamped, cut |-> cut, to |-> to]

HeadOf(p) == Head(co[p].s.plans)

\* The unit that p's segment hands to the store.
UnitOf(p) ==
    LET c == co[p]
        s == co[p].s
    IN  CASE c.input = "initial" -> Unit("initial", NoEffect, 0, FALSE, 0, InitialState(s))
          [] c.input = "model" -> Unit("model", NoEffect, c.at, TRUE, 0, ModelState(s, c.new))
          [] c.input = "denied" -> Unit("approval", HeadOf(p), 0, TRUE, 0, PopPlan(s))
          [] c.input \in {"approved", "dispatch"} ->
                Unit("dispatch", HeadOf(p), s.rev, FALSE, c.cut, AuthorizedState(s))
          [] c.input = "settled" ->
                Unit("settled", ex[p].e, 0, ex[p].closeout \/ ex[p].res # "lost", 0, SettledState(s, ex[p].res))
          [] c.input = "reconcile" ->
                Unit("reconcile", HeadOf(p), cap[p], FALSE, 0, ReconciledState(s, evid[HeadOf(p)].outcome))
          [] OTHER -> Unit("reconciled", HeadOf(p), 0, TRUE, 0, PopPlan(s))

\* Mutation of Recorded: receipts are looked up by their whole content.
RecordedExactly(u) == u \in receipts

Recorded(u) == \E r \in receipts : r.id = u.id
IsDispatch(p) == co[p].input \in {"approved", "dispatch"}
InCommit(p) == co[p].pc = "commit"

\* The store finds a receipt with the same fingerprint ...
Replays(p) == Fence(p) /\ UnitOf(p) \in receipts /\ ~UnitOf(p).stamped

\* ... or none, and an authorization finds its mailbox cut current ...
Reaches(p) == Fence(p) /\ ~Recorded(UnitOf(p)) /\ (IsDispatch(p) => co[p].cut = gen)

\* ... and the snapshot is the current state.  (It always is: NoCasConflict.)
Swaps(p) == Reaches(p) /\ co[p].s.rev = op.rev

-----------------------------------------------------------------------------
(* Segments begin and end.                                                 *)

Goto(p, pc) == co' = [co EXCEPT ![p] = [co[p] EXCEPT !.pc = pc]]
Ends(p) == co' = [co EXCEPT ![p] = Off]
NoFault == UNCHANGED faults
Fault(kind) == kind \in Faults /\ faults < MaxFaults /\ faults' = faults + 1

\* A segment starts with a probe of its own, under the fence of _assert_owner.
Begins(p, pc, input) ==
    /\ co[p] = Off /\ ex[p].pc = "idle" /\ Fence(p)
    /\ co' = [co EXCEPT ![p] = [Off EXCEPT !.pc = pc, !.input = input, !.s = op]]
    /\ raised' = [raised EXCEPT ![p] = FALSE]
    /\ UNCHANGED <<ledgerVars, op, receipts, facts, appr, gen, faults>>

\* run_turn of a run that has committed nothing.
StartTurn(p) == op.rev = 0 /\ Begins(p, "step", "initial")

\* run_turn of a run whose next effect waits for an approval; run_turn
\* refuses every other run that has committed something.
ResumeTurn(p) ==
    /\ op.plans # <<>> /\ Head(op.plans) \in Gated /\ op.round < MaxRounds
    /\ Begins(p, "waiting", "none")

\* _reconcile_and_run_segment
StartReconcile(p) ==
    /\ op.unknown /\ op.recon = "none" /\ evid[Head(op.plans)] # NoEvidence
    /\ Begins(p, "commit", "reconcile")

\* The segment returns or raises: nothing durable happens.
Quits(p) == Ends(p) /\ UNCHANGED <<ledgerVars, op, receipts, facts, appr, gen, raised, faults>>

\* The next action is a model generation, the dispatch of the head plan, or
\* an approval wait for it.
Acting(p) == co[p].pc = "act"
MayGenerate(p) == Acting(p) /\ co[p].s.model /\ co[p].s.round < MaxRounds
HasPlan(p) == Acting(p) /\ co[p].s.plans # <<>> /\ ~co[p].s.unknown
\* Mutation of MayDispatch: the plan's approval requirement is not looked at.
MayDispatchUngated(p) == HasPlan(p)
MayDispatch(p) == HasPlan(p) /\ (HeadOf(p) \in Gated => co[p].input = "approved")
MayWait(p) == HasPlan(p) /\ ~MayDispatch(p) /\ co[p].s.round < MaxRounds

\* Mutation of Yield: control is observed before a settlement, too.
YieldUnsettled(p) ==
    /\ raised[p]
    /\ \/ co[p].pc = "step"
       \/ Acting(p) /\ co[p].input = "resolved"
       \/ MayGenerate(p) \/ MayDispatch(p)
    /\ Quits(p)

\* A raised probe: SafeYield before a proposal that carries no settlement,
\* after a settlement commit, before and during a generation, and before an
\* authorization.  A segment whose task was cancelled while it executed also
\* ends after the settlement commit.
Yield(p) ==
    /\ raised[p]
    /\ \/ co[p].pc = "step" /\ co[p].input \in {"initial", "model"}
       \/ Acting(p) /\ co[p].input = "resolved"
       \/ MayGenerate(p) \/ MayDispatch(p)
    /\ Quits(p)

\* Completed, RoundLimit, and Blocked outcomes other than approval waits.
Return(p) ==
    /\ Acting(p) /\ ~(MayGenerate(p) \/ MayDispatch(p) \/ MayWait(p))
    /\ Quits(p)

-----------------------------------------------------------------------------
(* The next action.                                                        *)

\* ModelGenerationAction: the model answers with some tool calls, or none.
Generate(p) ==
    /\ MayGenerate(p) /\ ~raised[p]
    /\ \E n \in 0..Len(Calls[co[p].s.round + 1]) :
          co' = [co EXCEPT ![p] = [co[p] EXCEPT !.pc = "step", !.input = "model", !.at = co[p].s.round + 1,
                                                !.new = SubSeq(Calls[co[p].s.round + 1], 1, n)]]
    /\ UNCHANGED <<ledgerVars, op, receipts, facts, appr, gen, raised, faults>>

\* PreparedEffectAction: ask for an approval (run_turn, resolve_blocked) ...
Block(p) ==
    /\ MayWait(p)
    /\ co[p].input = "resolved" => ~raised[p]
    /\ Goto(p, "waiting")
    /\ UNCHANGED <<ledgerVars, op, receipts, facts, appr, gen, raised, faults>>

\* ... or go for the dispatch authorization, an approved effect at once.
Dispatch(p) ==
    /\ MayDispatch(p) /\ ~raised[p]
    /\ co' = [co EXCEPT ![p] = [co[p] EXCEPT !.pc = "commit",
                                !.input = IF @ = "approved" THEN @ ELSE "dispatch"]]
    /\ UNCHANGED <<ledgerVars, op, receipts, facts, appr, gen, raised, faults>>

\* The answer to an approval request is admitted to the mailbox (a request
\* that times out is denied); its command id admits one decision only.
Decide(p, decision) ==
    /\ co[p].pc = "waiting" /\ Fence(p)
    /\ appr[HeadOf(p)] = "none"
    /\ decision = "denied" => gen < MaxCut
    /\ appr' = [appr EXCEPT ![HeadOf(p)] = decision]
    /\ gen' = IF decision = "denied" THEN gen + 1 ELSE gen
    /\ UNCHANGED <<ledgerVars, op, receipts, facts, co, raised, faults>>

\* A cancel or interrupt command is admitted.
Interrupt(p) ==
    /\ Fence(p) /\ gen < MaxCut
    /\ gen' = gen + 1
    /\ UNCHANGED <<ledgerVars, op, receipts, facts, appr, co, raised, faults>>

\* p's control probe is raised.  The coordinator accepts any probe; the one of
\* a child run is raised by a targeted command, the one of a root turn never.
RaiseControl(p) ==
    /\ co[p].pc # "off" /\ ~raised[p]
    /\ raised' = [raised EXCEPT ![p] = TRUE]
    /\ UNCHANGED <<ledgerVars, op, receipts, facts, appr, gen, co, faults>>

\* approval_settlement_from_mailbox: a pending decision, bound to the
\* revision that blocked.  An approval commits with the authorization.
ResolveApproval(p) ==
    /\ co[p].pc = "waiting" /\ appr[HeadOf(p)] \in {"approved", "denied"}
    /\ co' = [co EXCEPT ![p] = [co[p] EXCEPT !.pc = IF appr[HeadOf(p)] = "denied" THEN "step" ELSE "act",
                                             !.input = appr[HeadOf(p)], !.at = co[p].s.rev]]
    /\ UNCHANGED <<ledgerVars, op, receipts, facts, appr, gen, raised, faults>>

\* The decision has been disposed of before: asking again ends in an error.
ApprovalStale(p) ==
    /\ co[p].pc = "waiting" /\ appr[HeadOf(p)] \in {"applied", "rejected"}
    /\ Quits(p)

-----------------------------------------------------------------------------
(* Commits.                                                                *)

\* What the engine and the contracts require of snapshot and input.
Bound(p) ==
    LET c == co[p]
        s == co[p].s
    IN  CASE c.input = "model" -> s.model /\ c.at = s.round + 1
          [] c.input = "denied" -> c.at = s.rev
          [] c.input = "settled" -> /\ s.auth = ex[p].e /\ s.plans # <<>> /\ HeadOf(p) = ex[p].e
                                    /\ s.recon = "none"
                                    /\ s.unknown => ex[p].res = "lost"
          [] c.input = "reconciled" -> s.recon # "none"
          [] OTHER -> TRUE

\* Observe (unless the input is a settlement), validate, propose; before a
\* settlement commit the port reads the attempt for a closeout.
Propose(p) ==
    /\ co[p].pc = "step" /\ Bound(p)
    /\ co[p].input \in {"initial", "model"} => ~raised[p]
    /\ IF co[p].input = "settled" THEN LoadCloseout(p) ELSE UNCHANGED ledgerVars
    /\ Goto(p, "commit")
    /\ UNCHANGED <<op, receipts, facts, appr, gen, raised, faults>>

\* After the answer the segment goes on from the committed state; a lost
\* answer is a storage failure and ends it.
Answer(p, answered, pc, input) ==
    IF answered
    THEN /\ co' = [co EXCEPT ![p] = [Off EXCEPT !.pc = pc, !.input = input, !.s = UnitOf(p).to, !.cut = co[p].cut]]
         /\ NoFault
    ELSE Ends(p) /\ Fault("storage")

\* The transaction writes state and receipt together.
Store(p) == op' = UnitOf(p).to /\ receipts' = receipts \cup {UnitOf(p)}

Tell(e, outcome) == facts' = [facts EXCEPT ![e] = Append(@, outcome)]

CommitInitial(p, answered) ==
    /\ InCommit(p) /\ co[p].input = "initial" /\ Swaps(p)
    /\ Store(p) /\ Answer(p, answered, "act", "none")
    /\ UNCHANGED <<ledgerVars, facts, appr, gen, raised>>

CommitModel(p, answered) ==
    /\ InCommit(p) /\ co[p].input = "model" /\ Swaps(p)
    /\ Prepare(p, {co[p].new[i] : i \in DOMAIN co[p].new})
    /\ Store(p) /\ Answer(p, answered, "act", "none")
    /\ UNCHANGED <<facts, appr, gen, raised>>

CommitDenial(p, answered) ==
    /\ InCommit(p) /\ co[p].input = "denied" /\ Swaps(p)
    /\ appr[HeadOf(p)] = "denied"
    /\ Reject(p, HeadOf(p))
    /\ appr' = [appr EXCEPT ![HeadOf(p)] = "rejected"]
    /\ Tell(HeadOf(p), "rejected")
    /\ Store(p) /\ Answer(p, answered, "act", "resolved")
    /\ UNCHANGED <<gen, raised>>

\* authorize_dispatch, together with the disposition of the approval.
CommitDispatch(p, answered) ==
    /\ InCommit(p) /\ IsDispatch(p) /\ Swaps(p)
    /\ co[p].input = "approved" => appr[HeadOf(p)] = "approved"
    /\ Authorize(p, HeadOf(p), answered)
    /\ appr' = IF co[p].input = "approved" THEN [appr EXCEPT ![HeadOf(p)] = "applied"] ELSE appr
    /\ Store(p) /\ Answer(p, answered, "executing", "settled")
    /\ UNCHANGED <<facts, gen, raised>>

\* Mutation of CommitSettlement: an indeterminate result is told as a fact.
CommitSettlementTold(p, answered) ==
    /\ InCommit(p) /\ co[p].input = "settled" /\ Swaps(p)
    /\ Settle(p)
    /\ Tell(ex[p].e, Outcome(ex[p].res))
    /\ Store(p) /\ Answer(p, answered, "act", "resolved")
    /\ UNCHANGED <<appr, gen, raised>>

CommitSettlement(p, answered) ==
    /\ InCommit(p) /\ co[p].input = "settled" /\ Swaps(p)
    /\ Settle(p)
    /\ IF ex[p].res = "lost" THEN UNCHANGED facts ELSE Tell(ex[p].e, Outcome(ex[p].res))
    /\ Store(p) /\ Answer(p, answered, "act", "resolved")
    /\ UNCHANGED <<appr, gen, raised>>

\* Mutation of CommitReconciliation: it tells the result at once.
CommitReconciliationTold(p, answered) ==
    /\ InCommit(p) /\ co[p].input = "reconcile" /\ Swaps(p)
    /\ Reconcile(p, HeadOf(p))
    /\ Tell(HeadOf(p), evid[HeadOf(p)].outcome)
    /\ Store(p) /\ Answer(p, answered, "step", "reconciled")
    /\ UNCHANGED <<appr, gen, raised>>

CommitReconciliation(p, answered) ==
    /\ InCommit(p) /\ co[p].input = "reconcile" /\ Swaps(p)
    /\ Reconcile(p, HeadOf(p))
    /\ Store(p) /\ Answer(p, answered, "step", "reconciled")
    /\ UNCHANGED <<facts, appr, gen, raised>>

\* The reconciled outcome is settled without touching the ledger again.
CommitReconciled(p, answered) ==
    /\ InCommit(p) /\ co[p].input = "reconciled" /\ Swaps(p)
    /\ Tell(HeadOf(p), co[p].s.recon)
    /\ Store(p) /\ Answer(p, answered, "act", "resolved")
    /\ UNCHANGED <<ledgerVars, appr, gen, raised>>

\* ExactReplay of an ordinary commit: the stored state is adopted.
AdoptReplay(p) ==
    /\ InCommit(p) /\ ~IsDispatch(p) /\ Replays(p)
    /\ IF co[p].input = "settled" THEN FailSettle(p) ELSE UNCHANGED ledgerVars
    /\ Answer(p, TRUE, IF co[p].input = "reconcile" THEN "step" ELSE "act",
              CASE co[p].input = "reconcile" -> "reconciled" [] co[p].input = "settled" -> "resolved" [] OTHER -> "none")
    /\ UNCHANGED <<op, receipts, facts, appr, gen, raised>>

\* StaleMailboxCut: the same authorization is tried again at the new cut.
StaleCut(p) ==
    /\ InCommit(p) /\ IsDispatch(p)
    /\ Fence(p) /\ ~Recorded(UnitOf(p)) /\ co[p].cut # gen
    /\ IF raised[p] THEN Ends(p) ELSE co' = [co EXCEPT ![p] = [co[p] EXCEPT !.cut = gen]]
    /\ UNCHANGED <<ledgerVars, op, receipts, facts, appr, gen, raised, faults>>

\* What the transaction checks besides fence, receipt, cut and revision: the
\* closeout, the reconciliation, dispositions, effect statuses.
Applicable(p) ==
    CASE co[p].input = "model" -> \A i \in DOMAIN co[p].new : slot[co[p].new[i]] = "none"
      [] co[p].input \in {"approved", "denied"} -> appr[HeadOf(p)] = co[p].input /\ slot[HeadOf(p)] = "prepared"
      [] co[p].input = "dispatch" -> slot[HeadOf(p)] = "prepared"
      [] co[p].input = "settled" ->
            /\ slot[ex[p].e] = "dispatched"
            /\ ex[p].closeout => att[ex[p].e].st = "authorized_unclaimed" /\ att[ex[p].e].epoch <= cap[p]
      [] co[p].input = "reconcile" -> MayReconcile(p, HeadOf(p))
      [] OTHER -> TRUE

\* An invalid or refused commit ends the segment, and so does one that never
\* reached the store.
FailSegment(p) ==
    /\ \/ co[p].pc = "step" /\ ~Bound(p) /\ NoFault
       \/ InCommit(p) /\ ~Fence(p) /\ NoFault
       \/ InCommit(p) /\ Recorded(UnitOf(p)) /\ ~Replays(p) /\ NoFault
       \/ InCommit(p) /\ Reaches(p) /\ ~Applicable(p) /\ NoFault
       \/ InCommit(p) /\ Fault("storage")
    /\ IF ex[p].pc = "idle" THEN UNCHANGED ledgerVars ELSE FailSettle(p)
    /\ Ends(p)
    /\ UNCHANGED <<op, receipts, facts, appr, gen, raised>>

-----------------------------------------------------------------------------
(* Execution and recovery of an authorized effect.                         *)

\* The executor at work; control raised after the authorization withholds it.
Execute(p) ==
    /\ Execution(p)
    /\ At(p, "permit") => (raised[p] <=> ex'[p].pc = "done")
    /\ UNCHANGED runVars

\* It has ended, and its result becomes the next input.
Executed(p) ==
    /\ co[p].pc = "executing" /\ At(p, "done")
    /\ Goto(p, "step")
    /\ UNCHANGED <<ledgerVars, op, receipts, facts, appr, gen, raised, faults>>

\* ExactReplay of an authorization: another segment holds the permit.  The
\* runner takes the replay marker and loads the current state.
ReplayDispatch(p) ==
    /\ InCommit(p) /\ IsDispatch(p) /\ Replays(p)
    /\ co' = [co EXCEPT ![p] = [Off EXCEPT !.pc = "polling", !.input = "settled",
                                           !.s = IF op.auth = HeadOf(p) THEN op ELSE UnitOf(p).to]]
    /\ UNCHANGED <<ledgerVars, op, receipts, facts, appr, gen, raised, faults>>

\* Mutation of RecoverReplay: the attempt is not polled.
RecoverReplayActive(p) ==
    /\ co[p].pc = "polling"
    /\ ex' = [ex EXCEPT ![p] = Doing("done", co[p].s.auth, Replayed(slot[co[p].s.auth]), FALSE)]
    /\ Goto(p, "step")
    /\ UNCHANGED <<lease, cap, slot, att, evid, ran, op, receipts, facts, appr, gen, raised, faults>>

\* The attempt is no longer active: the segment runs again with the
\* settlement the ledger implies.
RecoverReplay(p) ==
    /\ co[p].pc = "polling"
    /\ \E res \in Results : Recover(p, co[p].s.auth, res)
    /\ Goto(p, "step")
    /\ UNCHANGED <<op, receipts, facts, appr, gen, raised, faults>>

-----------------------------------------------------------------------------
(* The environment.                                                        *)

GrantSegment(p) == co[p] = Off /\ Grant(p) /\ UNCHANGED runVars

CrashSegment(p) ==
    /\ Crash(p) /\ Fault("crash")
    /\ Ends(p)
    /\ UNCHANGED <<op, receipts, facts, appr, gen, raised>>

LapseLease == Lapse /\ Fault("lapse") /\ UNCHANGED <<op, receipts, facts, appr, gen, co, raised>>

ExpireReservation(e) == ReservationExpires(e) /\ UNCHANGED runVars

Repair(p, e) ==
    /\ \/ Revoke(p, e)
       \/ e \in Observed /\ \E outcome \in {"completed", "failed"} : RecordEvidence(p, e, outcome)
    /\ UNCHANGED runVars

Committing(p) ==
    \E answered \in BOOLEAN :
        \/ CommitInitial(p, answered) \/ CommitModel(p, answered) \/ CommitDenial(p, answered)
        \/ CommitDispatch(p, answered) \/ CommitSettlement(p, answered)
        \/ CommitReconciliation(p, answered) \/ CommitReconciled(p, answered)

Segment(p) ==
    \/ Yield(p) \/ Return(p) \/ Generate(p) \/ Block(p) \/ Dispatch(p)
    \/ ResolveApproval(p) \/ ApprovalStale(p)
    \/ Propose(p) \/ Committing(p) \/ AdoptReplay(p) \/ StaleCut(p) \/ FailSegment(p)
    \/ Execute(p) \/ Executed(p) \/ ReplayDispatch(p) \/ RecoverReplay(p)

RunNext(p) ==
    \/ StartTurn(p) \/ ResumeTurn(p) \/ StartReconcile(p)
    \/ Segment(p)
    \/ \E decision \in {"approved", "denied"} : Decide(p, decision)
    \/ Interrupt(p) \/ RaiseControl(p)
    \/ GrantSegment(p) \/ CrashSegment(p)
    \/ \E e \in Effects : Repair(p, e)

Next ==
    \/ LapseLease
    \/ \E e \in Effects : ExpireReservation(e)
    \/ \E p \in Procs : RunNext(p)

Spec == Init /\ [][Next]_vars

\* A segment goes on as long as it has a next step (its task is scheduled,
\* the store answers, the tool ends), and a process that lost its segment is
\* started again, acquires the session and runs the turn if run_turn lets it.
\* Nothing else has to happen: no approval, no command, no reconciliation.
FairSpec ==
    /\ Spec
    /\ \A p \in Procs : /\ WF_vars(Segment(p))
                        /\ WF_vars(GrantSegment(p))
                        /\ WF_vars(StartTurn(p) \/ ResumeTurn(p))

-----------------------------------------------------------------------------
(* Properties.                                                             *)

Pending == {op.plans[i] : i \in DOMAIN op.plans}

\* The operation state and the effect ledger never disagree, whichever
\* segments race or die: only the head plan is ever authorized, its slot
\* says what the state's markers say, the plans behind it are prepared, and
\* an effect that is not pending was never planned or is decided.
StateMatchesLedger ==
    /\ op.auth # NoEffect => op.plans # <<>> /\ op.auth = Head(op.plans)
    /\ op.auth # NoEffect =>
          slot[op.auth] = IF op.recon # "none" THEN op.recon ELSE IF op.unknown THEN "unknown" ELSE "dispatched"
    /\ \A e \in Pending \ {op.auth} : slot[e] = "prepared"
    /\ \A e \in Effects \ Pending : slot[e] \in {"none", "rejected", "completed", "failed"}

\* Every decided effect has exactly one tool_result fact, it tells the
\* outcome the ledger holds, and no other effect has one.
OneToolResult ==
    \A e \in Effects :
        facts[e] = IF e \notin Pending /\ slot[e] # "none" THEN <<slot[e]>> ELSE <<>>

\* An effect that requires approval leaves `prepared' only with an approval
\* that is disposed of by the same transaction, and never runs after a denial.
ApprovalGate ==
    \A e \in Gated : /\ appr[e] = "applied" <=> slot[e] \notin {"none", "prepared", "rejected"}
                     /\ appr[e] = "rejected" <=> slot[e] = "rejected"
                     /\ ran[e] > 0 => appr[e] = "applied"

\* The compare-and-swap never decides anything inside a run: a segment whose
\* snapshot is stale finds the receipt of its own transition first.  So the
\* coordinator's CASConflict branches (reload and propose again, or fail an
\* authorization) are never taken, which is why no action models them.
NoCasConflict == \A p \in Procs : InCommit(p) /\ Reaches(p) => co[p].s.rev = op.rev

\* Tools run in the order of their calls: none is started before every
\* earlier call of its round is decided, and durably told.
RunInOrder ==
    \A r \in DOMAIN Calls : \A i, j \in DOMAIN Calls[r] :
        i < j /\ ran[Calls[r][j]] > 0 => facts[Calls[r][i]] # <<>>

\* An outcome is told truthfully: a completed or failed tool was really run,
\* or there is evidence of that outcome.
ToldTruthfully ==
    \A e \in Effects : slot[e] \in {"completed", "failed"} => ran[e] = 1 \/ evid[e].outcome = slot[e]

\* A dispatched effect is settled, or blocked for reconciliation, in the end:
\* what the order `authorize, execute, commit settlement' is for, and what
\* ADR-0085 asks of root startup recovery after a process crash.
DispatchedSettles == \A e \in Effects : slot[e] = "dispatched" ~> slot[e] # "dispatched"
=============================================================================
