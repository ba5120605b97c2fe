------------------------ MODULE SegmentAgreementProofs ------------------------
(***************************************************************************)
(* What a run says of its effects is true and complete, whichever segments *)
(* race, replay, recover or reconcile: operation state, ledger, facts and  *)
(* approvals agree, tools run in order, and the compare-and-swap of a      *)
(* commit never decides anything.                                          *)
(*                                                                         *)
(* The argument: a segment works on a snapshot, and every snapshot is a    *)
(* state that was committed (Known).  One with the current revision is the *)
(* current state, so that a commit that passes the swap transforms the     *)
(* state the ledger agrees with (Agreement).  One that was left behind was *)
(* left by a transition whose receipt is the one its own unit would find   *)
(* (Left), because the input of a segment fits its snapshot (Fits).        *)
(***************************************************************************)
EXTENDS SegmentCoordinatorProofs

-----------------------------------------------------------------------------
(* The inductive invariant.                                                *)

Undispatched == {"none", "prepared", "rejected"}

\* What the store holds of the past: the states committed so far, and whether
\* a transition was.
Known == {Admission} \cup {u.to : u \in receipts}
Has(kind, e, n) == \E u \in receipts : u.id = <<kind, e, n>>

\* A state that was committed: no newer than the current one, which is the
\* only one of its revision; its markers are about its head plan, and were set
\* by an authorization, a settlement and a reconciliation of that plan.
StateGood(s) ==
    /\ s.rev <= op.rev
    /\ s.rev = op.rev => s = op
    /\ s.rev = 0 => s = Admission
    /\ s.auth # NoEffect => s.plans # <<>> /\ s.auth = Head(s.plans) /\ slot[s.auth] \notin Undispatched
    /\ s.unknown => s.auth # NoEffect /\ Has("settled", s.auth, 0)
    /\ s.recon # "none" => s.unknown

\* A state that is no longer current was left by the transition that its
\* markers call for, and that transition has its receipt.  (Which epoch an
\* unknown effect was reconciled in, Fits says of the segment that cares.)
Left(s) ==
    \/ s.rev = op.rev
    \/ s.rev = 0 /\ Has("initial", NoEffect, 0)
    \/ s.model /\ Has("model", NoEffect, s.round + 1)
    \/ /\ s.plans # <<>> /\ s.auth = NoEffect
       /\ \/ Has("approval", Head(s.plans), 0) /\ Head(s.plans) \in Gated /\ appr[Head(s.plans)] = "rejected"
          \/ Has("dispatch", Head(s.plans), s.rev) /\ slot[Head(s.plans)] \notin Undispatched
    \/ s.auth # NoEffect /\ ~s.unknown /\ Has("settled", s.auth, 0)
    \/ s.unknown /\ s.recon = "none"
    \/ s.recon # "none" /\ Has("reconciled", Head(s.plans), 0)

HistoryGood == op \in Known /\ \A s \in Known : StateGood(s) /\ Left(s)

\* The effects of a model result are the first calls of its round.
Planned(c) == c.at \in DOMAIN Calls /\ \E n \in 0..Len(Calls[c.at]) : c.new = SubSeq(Calls[c.at], 1, n)

\* An approval input and its snapshot: a plan that was not authorized, and a
\* decision that stays what it is.
FitsApproval(c, decided) ==
    /\ Head(c.s.plans) \in Gated
    /\ c.s.auth = NoEffect
    /\ appr[Head(c.s.plans)] \in decided

\* The input of a segment fits its snapshot ...
InputFits(p) ==
    LET c == co[p]
        s == co[p].s
    IN  /\ s \in Known
        /\ c.input = "initial" => s.rev = 0
        /\ c.input = "model" => s.model /\ c.at = s.round + 1 /\ Planned(c)
        /\ c.input = "approved" => FitsApproval(c, {"approved", "applied"})
        /\ c.input = "denied" => FitsApproval(c, {"denied", "rejected"})
        /\ c.input = "dispatch" => Head(s.plans) \notin Gated /\ s.auth = NoEffect
        /\ c.input = "reconcile" =>
              /\ s.unknown /\ s.recon = "none"
              /\ \/ s.rev = op.rev
                 \/ cap[p] < lease.epoch
                 \/ Has("reconcile", Head(s.plans), cap[p])

\* ... and so does its stage, and what it has executed.
StageFits(p) ==
    LET c == co[p]
        s == co[p].s
    IN  /\ c.pc = "waiting" => Head(s.plans) \in Gated
        /\ c.pc = "act" => s.auth = NoEffect \/ s.unknown
        /\ c.pc = "commit" => c.input \notin {"none", "resolved"}
        /\ c.pc = "commit" /\ c.input = "settled" =>
              /\ ex[p].pc = "settling" /\ s.auth = ex[p].e
              /\ s.recon = "none" /\ (s.unknown => ex[p].res = "lost")
        /\ c.pc = "commit" /\ c.input = "reconciled" => s.recon # "none"

Fits(p) == InputFits(p) /\ StageFits(p)

\* Planned effects come in the order of their calls: whatever precedes one is
\* told, or still before it among the plans.
PlansInOrder ==
    \A r \in DOMAIN Calls : \A i, j \in DOMAIN Calls[r] :
        i < j /\ slot[Calls[r][j]] # "none" =>
           \/ facts[Calls[r][i]] # <<>>
           \/ \E k, l \in DOMAIN op.plans : k < l /\ op.plans[k] = Calls[r][i] /\ op.plans[l] = Calls[r][j]

Distinct(s) == \A k, l \in DOMAIN s : s[k] = s[l] => k = l

\* An approval is disposed of with the effect it is for (ApprovalGate without
\* what it says of runs, which follows).
Disposed ==
    \A e \in Gated : /\ appr[e] = "applied" <=> slot[e] \notin Undispatched
                     /\ appr[e] = "rejected" <=> slot[e] = "rejected"

\* State, ledger, facts and approvals agree.
Agreement ==
    /\ StateMatchesLedger
    /\ OneToolResult
    /\ Disposed
    /\ PlansInOrder
    /\ Distinct(op.plans)
    /\ op.recon # "unknown"

\* What the ledger remembers of its effects: a rejected one never ran; an
\* outcome that a process holds was seen, by it or by an earlier settlement;
\* evidence has an outcome.
RejectedNeverRan ==
    \A e \in Effects : slot[e] = "rejected" =>
        ran[e] = 0 /\ \A p \in Procs : ex[p].pc \in Holding => ex[p].e # e

ResultsAreReal ==
    \A p \in Procs :
        /\ ex[p].pc = "running" => ran[ex[p].e] > 0
        /\ ex[p].pc \in {"quiescing", "done", "settling"} /\ ex[p].res # "lost"
              => ran[ex[p].e] > 0 \/ slot[ex[p].e] \in {"completed", "failed"}

EvidenceIsReal == \A e \in Effects : evid[e].epoch # 0 => evid[e].outcome # "unknown"

LedgerHistory == RejectedNeverRan /\ ResultsAreReal /\ EvidenceIsReal /\ ToldTruthfully

RunInv ==
    /\ HistoryGood
    /\ Agreement
    /\ \A p \in Procs : Fits(p)

-----------------------------------------------------------------------------
(* What the ledger remembers of its effects.                               *)

\* A process that goes on with its effect, and its result.
LEMMA ExNow ==
    ASSUME ex \in [Procs -> ExType], NEW p \in Procs, NEW pc, NEW res, Now(p, pc, res)
    PROVE  /\ ex'[p].pc = pc /\ ex'[p].e = ex[p].e /\ ex'[p].res = res
           /\ \A q \in Procs : q # p => ex'[q] = ex[q]
BY DEF Now, Doing

\* The executor only adds to what has been seen of the effect it works on.
LEMMA ExecutionHistory ==
    ASSUME LedgerTypeOK, OnePermit, OnePermit', LedgerHistory, NEW p \in Procs, Execution(p)
    PROVE  LedgerHistory'
<1>t. /\ ex \in [Procs -> ExType] /\ ran \in [Effects -> Nat] /\ ex[p].res \in Results
      /\ ex[p].pc # "idle" => ex[p].e \in Effects
  BY DEF LedgerTypeOK, ExType, OnePermit, HeldIsDispatched
<1>. USE Stage
<1>1. UNCHANGED <<slot, evid>>
  BY DEF Execution, Withhold, LoadClaim, FailClaim, Reserve, MarkStarted, Quiesce, RunTool, SkipTool, FailQuiesce, ToolEnds
<1>2. /\ ex[p].pc \in Holding /\ ex[p].e \in Effects /\ ex'[p].e = ex[p].e
      /\ \A q \in Procs : q # p => ex'[q] = ex[q]
      /\ ex'[p].pc = "running" => ran'[ex[p].e] > 0
      /\ ex'[p].pc \in {"quiescing", "done", "settling"} /\ ex'[p].res # "lost"
            => ex[p].pc = "running" \/ (ex[p].pc = "quiescing" /\ ex'[p].res = ex[p].res)
  <2>1. CASE Withhold(p) \/ LoadClaim(p) \/ FailClaim(p) \/ SkipTool(p) \/ FailQuiesce(p)
    BY <2>1, <1>t, ExNow DEF Withhold, LoadClaim, FailClaim, SkipTool, FailQuiesce, At
  <2>2. CASE \E answered \in BOOLEAN : Reserve(p, answered) \/ MarkStarted(p, answered)
    BY <2>2, <1>t, ExNow DEF Reserve, MarkStarted, At
  <2>3. CASE \E answered \in BOOLEAN : Quiesce(p, answered)
    BY <2>3, <1>t, ExNow DEF Quiesce, At
  <2>4. CASE RunTool(p)
    BY <2>4, <1>t, ExNow DEF RunTool, At
  <2>5. CASE \E res \in Results : ToolEnds(p, res)
    <3>1. PICK res \in Results : At(p, "running") /\ Now(p, "quiescing", res)
      BY <2>5 DEF ToolEnds
    <3>2. ex'[p].pc = "quiescing" /\ ex'[p].e = ex[p].e /\ \A q \in Procs : q # p => ex'[q] = ex[q]
      BY <3>1, <1>t, ExNow
    <3>3. ex[p].pc = "running" /\ ex[p].e \in Effects
      BY <3>1, <1>t DEF At
    <3>. QED  BY <3>2, <3>3
  <2>. QED  BY <2>1, <2>2, <2>3, <2>4, <2>5 DEF Execution
<1>3. \A e \in Effects : /\ ran'[e] \in Nat /\ ran[e] \in Nat /\ ran[e] <= ran'[e] /\ ran'[e] <= 1
                         /\ e # ex[p].e => ran'[e] = ran[e]
  <2>1. RunTool(p) \/ UNCHANGED ran
    BY DEF Execution, Withhold, LoadClaim, FailClaim, Reserve, MarkStarted, Quiesce, SkipTool, FailQuiesce, ToolEnds
  <2>. QED  BY <1>t, <2>1 DEF RunTool, OnePermit, AtMostOnce
<1>4. RejectedNeverRan'
  BY <1>1, <1>2, <1>3 DEF LedgerHistory, RejectedNeverRan
<1>5. ResultsAreReal'
  <2>. SUFFICES ASSUME NEW q \in Procs
                PROVE  /\ ex'[q].pc = "running" => ran'[ex'[q].e] > 0
                       /\ ex'[q].pc \in {"quiescing", "done", "settling"} /\ ex'[q].res # "lost"
                             => ran'[ex'[q].e] > 0 \/ slot'[ex'[q].e] \in {"completed", "failed"}
    BY DEF ResultsAreReal
  <2>1. CASE q # p
    <3>1. ex[q].pc # "idle" => ex[q].e \in Effects
      BY DEF OnePermit, HeldIsDispatched
    <3>. QED  BY <2>1, <3>1, <1>1, <1>2, <1>3 DEF LedgerHistory, ResultsAreReal
  <2>2. CASE q = p
    BY <2>2, <1>1, <1>2, <1>3 DEF LedgerHistory, ResultsAreReal
  <2>. QED  BY <2>1, <2>2
<1>6. EvidenceIsReal' /\ ToldTruthfully'
  BY <1>1, <1>3 DEF LedgerHistory, EvidenceIsReal, ToldTruthfully
<1>. QED
  BY <1>4, <1>5, <1>6 DEF LedgerHistory

\* Every ledger action keeps the memory of the ledger.
LEMMA LedgerHistoryStep ==
    ASSUME LedgerTypeOK, OnePermit, OnePermit', EpochNamesOwner, LedgerHistory, [LedgerNext]_ledgerVars
    PROVE  LedgerHistory'
<1>. USE Stage
<1>t. /\ ex \in [Procs -> ExType] /\ slot \in [Effects -> SlotStatus] /\ ran \in [Effects -> Nat]
      /\ \A p \in Procs : ex[p].pc # "idle" => ex[p].e \in Effects
  BY DEF LedgerTypeOK, ExType, OnePermit, HeldIsDispatched
<1>1. CASE UNCHANGED <<slot, evid, ran, ex>>
  BY <1>1 DEF LedgerHistory, RejectedNeverRan, ResultsAreReal, EvidenceIsReal, ToldTruthfully
<1>2. ASSUME UNCHANGED <<slot, evid, ran>>, NEW p \in Procs, ex'[p].pc \in {"idle", "done", "settling"},
             ex'[p].pc # "idle" => /\ ex'[p].e \in Effects
                                   /\ \/ ex'[p].res = "lost"
                                      \/ slot[ex'[p].e] \in {"completed", "failed"}
                                      \/ /\ ex[p].pc \in {"done", "settling"}
                                         /\ ex'[p].res = ex[p].res /\ ex'[p].e = ex[p].e,
             \A q \in Procs : q # p => ex'[q] = ex[q]
      PROVE  LedgerHistory'
  BY <1>2 DEF LedgerHistory, RejectedNeverRan, ResultsAreReal, EvidenceIsReal, ToldTruthfully
<1>3. ASSUME UNCHANGED <<evid, ran>>, NEW e \in Effects, slot[e] \notin {"completed", "failed"},
             \A f \in Effects : f # e => slot'[f] = slot[f],
             slot'[e] = "rejected" => slot[e] = "prepared",
             slot'[e] \in {"completed", "failed"} => ran[e] > 0 \/ evid[e].outcome = slot'[e],
             \A q \in Procs : \/ ex'[q] = ex[q] \/ ex'[q].pc = "idle"
                              \/ ex'[q].pc = "permit" /\ ex'[q].e = e /\ slot'[e] # "rejected"
      PROVE  LedgerHistory'
  <2>1. RejectedNeverRan'
    BY <1>3 DEF LedgerHistory, RejectedNeverRan, OnePermit, UndispatchedIsFresh, HeldIsDispatched
  <2>2. ResultsAreReal'
    BY <1>3, <1>t DEF LedgerHistory, ResultsAreReal
  <2>3. ToldTruthfully'
    BY <1>3, <1>t DEF LedgerHistory, ToldTruthfully, OnePermit, AtMostOnce
  <2>. QED  BY <1>3, <2>1, <2>2, <2>3 DEF LedgerHistory, EvidenceIsReal
<1>4. CASE Lapse \/ \E e \in Effects : ReservationExpires(e)
  BY <1>1, <1>4 DEF Lapse, ReservationExpires
<1>5. ASSUME NEW p \in Procs, LedgerProcNext(p) PROVE LedgerHistory'
  <2>1. CASE Grant(p) \/ \E e \in Effects : Revoke(p, e)
    BY <2>1, <1>1 DEF Grant, Revoke
  <2>2. CASE Crash(p)
    <3>1. ex'[p].pc = "idle" /\ \A q \in Procs : q # p => ex'[q] = ex[q]
      BY <2>2, <1>t DEF Crash, CrashLedger, Resting
    <3>. QED  BY <2>2, <3>1, <1>2 DEF Crash, CrashLedger
  <2>3. ASSUME NEW es \in SUBSET Effects, Prepare(p, es) PROVE LedgerHistory'
    <3>1. /\ \A e \in Effects : slot'[e] = slot[e] \/ (slot[e] = "none" /\ slot'[e] = "prepared")
          /\ UNCHANGED <<evid, ran, ex>>
      BY <2>3 DEF Prepare
    <3>2. RejectedNeverRan' /\ ToldTruthfully' /\ EvidenceIsReal'
      BY <3>1 DEF LedgerHistory, RejectedNeverRan, ToldTruthfully, EvidenceIsReal
    <3>3. ResultsAreReal'
      BY <3>1, <1>t DEF LedgerHistory, ResultsAreReal
    <3>. QED  BY <3>2, <3>3 DEF LedgerHistory
  <2>4. ASSUME NEW e \in Effects, Reject(p, e) PROVE LedgerHistory'
    BY <2>4, <1>t, <1>3 DEF Reject
  <2>5. ASSUME NEW e \in Effects, NEW answered \in BOOLEAN, Authorize(p, e, answered) PROVE LedgerHistory'
    <3>1. \A q \in Procs : ex'[q] = ex[q] \/ (ex'[q].pc = "permit" /\ ex'[q].e = e)
      BY <2>5, <1>t DEF Authorize, Doing
    <3>. QED  BY <2>5, <3>1, <1>t, <1>3 DEF Authorize
  <2>6. ASSUME NEW e \in Effects, NEW res \in Results, Recover(p, e, res) PROVE LedgerHistory'
    <3>1. /\ ex'[p].pc = "done" /\ ex'[p].e = e /\ ex'[p].res = res
          /\ \A q \in Procs : q # p => ex'[q] = ex[q]
      BY <2>6, <1>t DEF Recover, Doing
    <3>2. res = "lost" \/ slot[e] \in {"completed", "failed"}
      BY <2>6 DEF Recover, Replayed
    <3>. QED  BY <2>6, <3>1, <3>2, <1>2 DEF Recover
  <2>7. ASSUME NEW e \in Effects, Reconcile(p, e) PROVE LedgerHistory'
    <3>1. slot[e] = "unknown" /\ slot'[e] = evid[e].outcome /\ slot'[e] # "rejected"
      BY <2>7, <1>t DEF Reconcile, MayReconcile, LedgerTypeOK
    <3>. QED  BY <2>7, <3>1, <1>t, <1>3 DEF Reconcile
  <2>8. ASSUME NEW e \in Effects, NEW outcome \in {"completed", "failed"}, RecordEvidence(p, e, outcome)
        PROVE LedgerHistory'
    <3>1. /\ UNCHANGED <<slot, ran, ex>> /\ evid[e].outcome = "unknown" /\ evid'[e].outcome = outcome
          /\ \A f \in Effects : f # e => evid'[f] = evid[f]
      BY <2>8 DEF RecordEvidence, NoEvidence, LedgerTypeOK
    <3>2. RejectedNeverRan' /\ ResultsAreReal'
      BY <3>1 DEF LedgerHistory, RejectedNeverRan, ResultsAreReal
    <3>3. EvidenceIsReal' /\ ToldTruthfully'
      BY <3>1 DEF LedgerHistory, EvidenceIsReal, ToldTruthfully
    <3>. QED  BY <3>2, <3>3 DEF LedgerHistory
  <2>9. CASE Execution(p)
    BY <2>9, ExecutionHistory
  <2>10. CASE LoadCloseout(p)
    <3>1. /\ ex[p].pc = "done" /\ ex'[p].pc = "settling" /\ ex'[p].e = ex[p].e /\ ex'[p].res = ex[p].res
          /\ \A q \in Procs : q # p => ex'[q] = ex[q]
      BY <2>10, <1>t DEF LoadCloseout, Doing, At
    <3>. QED  BY <2>10, <3>1, <1>t, <1>2 DEF LoadCloseout
  <2>11. CASE Settle(p)
    <3>1. /\ ex[p].pc = "settling" /\ ex[p].e \in Effects /\ slot[ex[p].e] = "dispatched"
          /\ slot'[ex[p].e] = Outcome(ex[p].res) /\ \A f \in Effects : f # ex[p].e => slot'[f] = slot[f]
          /\ ex'[p].pc = "idle" /\ \A q \in Procs : q # p => ex'[q] = ex[q]
      BY <2>11, <1>t DEF Settle, SettlementCommits, At, Resting
    <3>2. slot'[ex[p].e] # "rejected" /\ (slot'[ex[p].e] \in {"completed", "failed"} => ran[ex[p].e] > 0)
      BY <3>1 DEF Outcome, LedgerHistory, ResultsAreReal
    <3>. QED  BY <2>11, <3>1, <3>2, <1>3 DEF Settle, SettlementCommits
  <2>12. CASE FailSettle(p)
    <3>1. ex'[p].pc = "idle" /\ \A q \in Procs : q # p => ex'[q] = ex[q]
      BY <2>12, <1>t DEF FailSettle, Resting
    <3>. QED  BY <2>12, <3>1, <1>2 DEF FailSettle
  <2>. QED
    BY <1>5, <2>1, <2>2, <2>3, <2>4, <2>5, <2>6, <2>7, <2>8, <2>9, <2>10, <2>11, <2>12 DEF LedgerProcNext
<1>. QED
  BY <1>1, <1>4, <1>5 DEF LedgerNext, ledgerVars

LEMMA LedgerHistoryInit == LedgerInit => LedgerHistory
BY Stage DEF LedgerInit, LedgerHistory, RejectedNeverRan, ResultsAreReal, EvidenceIsReal, ToldTruthfully,
             NoEvidence, Resting

LEMMA LedgerRemembers == LedgerSpec => []LedgerHistory
<1>1. LedgerTypeOK /\ OnePermit /\ OnePermit' /\ OneOwner /\ LedgerHistory /\ [LedgerNext]_ledgerVars
         => LedgerHistory'
  <2>. SUFFICES ASSUME LedgerTypeOK, OnePermit, OnePermit', OneOwner, LedgerHistory, [LedgerNext]_ledgerVars
                PROVE  LedgerHistory'
    OBVIOUS
  <2>1. EpochNamesOwner
    BY DEF OneOwner
  <2>. QED  BY <2>1, LedgerHistoryStep
<1>. QED
  BY <1>1, LedgerHistoryInit, PermitInvariant, OwnerPerEpoch, PTL DEF LedgerSpec

\* What a run tells of its tools is true: an outcome is one that the tool had,
\* or one that the evidence has (ToldTruthfully).
THEOREM RunTellsTruthfully == Spec => []ToldTruthfully
<1>1. LedgerHistory => ToldTruthfully
  BY DEF LedgerHistory
<1>. QED
  BY <1>1, LedgerRemembers, RunsTheLedger, PTL

-----------------------------------------------------------------------------
(* What only grows.                                                        *)

\* A dispatched effect is never prepared again, and epochs only increase.
LEMMA LedgerGrows ==
    ASSUME LedgerTypeOK, [LedgerNext]_ledgerVars
    PROVE  /\ \A e \in Effects : slot[e] \notin Undispatched => slot'[e] \notin Undispatched
           /\ lease.epoch <= lease'.epoch
<1>t. /\ slot \in [Effects -> SlotStatus] /\ lease.epoch \in Nat /\ ex \in [Procs -> ExType]
      /\ \A e \in Effects : evid[e].outcome \in {"completed", "failed", "unknown"}
  BY DEF LedgerTypeOK, ExType
<1>1. CASE UNCHANGED <<slot, lease>>
  BY <1>1, <1>t
<1>2. CASE Lapse
  BY <1>2, <1>t DEF Lapse, LedgerTypeOK
<1>3. ASSUME NEW e \in Effects, ReservationExpires(e) PROVE UNCHANGED <<slot, lease>>
  BY <1>3 DEF ReservationExpires
<1>4. ASSUME NEW p \in Procs, LedgerProcNext(p)
      PROVE  /\ \A e \in Effects : slot[e] \notin Undispatched => slot'[e] \notin Undispatched
             /\ lease.epoch <= lease'.epoch
  <2>1. CASE Grant(p)
    BY <2>1, <1>t DEF Grant
  <2>2. ASSUME NEW es \in SUBSET Effects, Prepare(p, es)
        PROVE  UNCHANGED lease /\ \A e \in Effects : slot[e] \notin Undispatched => slot'[e] \notin Undispatched
    BY <2>2 DEF Prepare, Undispatched
  <2>3. ASSUME NEW e \in Effects,
               Reject(p, e) \/ Reconcile(p, e) \/ \E answered \in BOOLEAN : Authorize(p, e, answered)
        PROVE  UNCHANGED lease /\ \A f \in Effects : slot[f] \notin Undispatched => slot'[f] \notin Undispatched
    BY <2>3, <1>t DEF Reject, Reconcile, Authorize, Undispatched
  <2>4. CASE Settle(p)
    <3>1. UNCHANGED lease /\ slot' = [slot EXCEPT ![ex[p].e] = Outcome(ex[p].res)]
      BY <2>4 DEF Settle, SettlementCommits
    <3>2. Outcome(ex[p].res) \notin Undispatched
      BY DEF Outcome, Undispatched
    <3>. QED  BY <3>1, <3>2, <1>t
  <2>5. CASE \/ Crash(p) \/ Execution(p) \/ LoadCloseout(p) \/ FailSettle(p)
             \/ \E e \in Effects : \/ \E res \in Results : Recover(p, e, res)
                                   \/ Revoke(p, e)
                                   \/ \E outcome \in {"completed", "failed"} : RecordEvidence(p, e, outcome)
    <3>1. UNCHANGED <<slot, lease>>
      BY <2>5 DEF Crash, CrashLedger, LoadCloseout, FailSettle, Recover, Revoke, RecordEvidence, Execution,
                  Withhold, LoadClaim, FailClaim, Reserve, MarkStarted, Quiesce, RunTool, SkipTool, FailQuiesce, ToolEnds
    <3>. QED  BY <3>1, <1>1
  <2>. QED
    BY <1>4, <1>t, <2>1, <2>2, <2>3, <2>4, <2>5 DEF LedgerProcNext
<1>. QED
  BY <1>1, <1>2, <1>3, <1>4 DEF LedgerNext, ledgerVars

\* What a step leaves of the past: receipts stay, an effect stays dispatched,
\* an approval decided, a rejection a rejection.
Grows ==
    /\ receipts \subseteq receipts'
    /\ \A e \in Effects : /\ slot[e] \notin Undispatched => slot'[e] \notin Undispatched
                          /\ appr[e] \in {"approved", "applied"} => appr'[e] \in {"approved", "applied"}
                          /\ appr[e] \in {"denied", "rejected"} => appr'[e] \in {"denied", "rejected"}
                          /\ appr[e] = "rejected" => appr'[e] = "rejected"
    /\ lease.epoch <= lease'.epoch

\* How approvals change: one decision, one disposition of it.
LEMMA ApprovalChange ==
    ASSUME TypeOK, [Next]_vars
    PROVE  \/ UNCHANGED appr
           \/ \E e \in Effects, to \in {"approved", "denied"} : appr[e] = "none" /\ appr' = [appr EXCEPT ![e] = to]
           \/ \E e \in Effects : appr[e] = "denied" /\ appr' = [appr EXCEPT ![e] = "rejected"]
           \/ \E e \in Effects : appr[e] = "approved" /\ appr' = [appr EXCEPT ![e] = "applied"]
<1>1. ASSUME NEW p \in Procs, NEW decision \in {"approved", "denied"}, Decide(p, decision)
      PROVE  \E e \in Effects : appr[e] = "none" /\ appr' = [appr EXCEPT ![e] = decision]
  <2>1. HeadOf(p) \in Effects
    BY <1>1, OwnSegment, SegmentFields, HeadPlan DEF Decide
  <2>. QED  BY <1>1, <2>1 DEF Decide
<1>2. ASSUME NEW p \in Procs, Segment(p)
      PROVE  \/ UNCHANGED appr
             \/ \E e \in Effects : appr[e] = "denied" /\ appr' = [appr EXCEPT ![e] = "rejected"]
             \/ \E e \in Effects : appr[e] = "approved" /\ appr' = [appr EXCEPT ![e] = "applied"]
  <2>1. ASSUME NEW answered \in BOOLEAN, CommitDenial(p, answered) \/ CommitDispatch(p, answered)
        PROVE  \/ UNCHANGED appr
               \/ \E e \in Effects : appr[e] = "denied" /\ appr' = [appr EXCEPT ![e] = "rejected"]
               \/ \E e \in Effects : appr[e] = "approved" /\ appr' = [appr EXCEPT ![e] = "applied"]
    <3>1. HeadOf(p) \in Effects
      BY <2>1, OwnSegment, SegmentFields, HeadPlan DEF CommitDenial, CommitDispatch, InCommit, IsDispatch
    <3>. QED  BY <2>1, <3>1 DEF CommitDenial, CommitDispatch
  <2>. QED
    BY <1>2, <2>1 DEF Segment, Yield, Return, ApprovalStale, Quits, Generate, Block, Dispatch, ResolveApproval, StaleCut,
            Propose, Committing, CommitInitial, CommitModel, CommitSettlement, CommitReconciliation,
            CommitReconciled, AdoptReplay, FailSegment, Execute, runVars, Executed, ReplayDispatch, RecoverReplay
<1>3. ASSUME NEW p \in Procs,
             \/ StartTurn(p) \/ ResumeTurn(p) \/ StartReconcile(p) \/ Interrupt(p) \/ RaiseControl(p)
             \/ GrantSegment(p) \/ CrashSegment(p) \/ \E e \in Effects : Repair(p, e)
      PROVE  UNCHANGED appr
  BY <1>3 DEF StartTurn, ResumeTurn, StartReconcile, Begins, Interrupt, RaiseControl, GrantSegment, CrashSegment, Repair, runVars
<1>4. LapseLease \/ (\E e \in Effects : ExpireReservation(e)) \/ UNCHANGED vars => UNCHANGED appr
  BY DEF LapseLease, ExpireReservation, vars, runVars
<1>. QED
  BY <1>1, <1>2, <1>3, <1>4 DEF Next, RunNext

\* Only commits change what was committed; beside them an approval may be
\* decided, which the next action of a segment or its lease never does.
LEMMA OnlyCommits ==
    ASSUME [Next]_vars
    PROVE  \/ /\ UNCHANGED <<op, receipts, facts, slot>>
              /\ UNCHANGED appr \/ \E p \in Procs, decision \in {"approved", "denied"} : Decide(p, decision)
           \/ \E p \in Procs : Committing(p) /\ Segment(p)
<1>1. ASSUME NEW p \in Procs, Segment(p), ~Committing(p) PROVE UNCHANGED <<op, receipts, facts, slot, appr>>
  <2>1. CASE Execute(p)
    BY <2>1 DEF Execute, runVars, Execution, Withhold, LoadClaim, FailClaim, Reserve, MarkStarted, Quiesce, RunTool,
                SkipTool, FailQuiesce, ToolEnds
  <2>2. CASE Propose(p) \/ AdoptReplay(p) \/ FailSegment(p) \/ RecoverReplay(p)
    BY <2>2 DEF Propose, AdoptReplay, FailSegment, RecoverReplay, LoadCloseout, FailSettle, Recover, ledgerVars
  <2>. QED
    BY <1>1, <2>1, <2>2 DEF Segment, Yield, Return, ApprovalStale, Quits, Generate, Block, Dispatch, ResolveApproval,
            StaleCut, Executed, ReplayDispatch, ledgerVars
<1>2. ASSUME NEW p \in Procs,
             \/ StartTurn(p) \/ ResumeTurn(p) \/ StartReconcile(p) \/ Interrupt(p) \/ RaiseControl(p)
             \/ GrantSegment(p) \/ CrashSegment(p) \/ \E e \in Effects : Repair(p, e)
      PROVE  UNCHANGED <<op, receipts, facts, slot, appr>>
  BY <1>2 DEF StartTurn, ResumeTurn, StartReconcile, Begins, Interrupt, RaiseControl, GrantSegment, CrashSegment,
              Repair, runVars, ledgerVars, Grant, Crash, CrashLedger, Revoke, RecordEvidence
<1>3. ASSUME NEW p \in Procs, NEW decision \in {"approved", "denied"}, Decide(p, decision)
      PROVE  UNCHANGED <<op, receipts, facts, slot>>
  BY <1>3 DEF Decide, ledgerVars
<1>4. LapseLease \/ (\E e \in Effects : ExpireReservation(e)) \/ UNCHANGED vars
         => UNCHANGED <<op, receipts, facts, slot, appr>>
  BY DEF LapseLease, Lapse, ExpireReservation, ReservationExpires, vars, runVars, ledgerVars
<1>. QED
  BY <1>1, <1>2, <1>3, <1>4 DEF Next, RunNext

LEMMA CommitStores ==
    ASSUME NEW p \in Procs, Committing(p)
    PROVE  InCommit(p) /\ Swaps(p) /\ Store(p)
BY DEF Committing, CommitInitial, CommitModel, CommitDenial, CommitDispatch, CommitSettlement,
       CommitReconciliation, CommitReconciled

LEMMA Growth ==
    ASSUME LedgerTypeOK, TypeOK, [Next]_vars
    PROVE  Grows
<1>1. receipts \subseteq receipts'
  BY OnlyCommits, CommitStores DEF Store
<1>2. /\ \A e \in Effects : slot[e] \notin Undispatched => slot'[e] \notin Undispatched
      /\ lease.epoch <= lease'.epoch
  BY RunStep, LedgerGrows
<1>3. \A e \in Effects : /\ appr[e] \in {"approved", "applied"} => appr'[e] \in {"approved", "applied"}
                         /\ appr[e] \in {"denied", "rejected"} => appr'[e] \in {"denied", "rejected"}
                         /\ appr[e] = "rejected" => appr'[e] = "rejected"
  BY ApprovalChange DEF TypeOK
<1>. QED
  BY <1>1, <1>2, <1>3 DEF Grows

-----------------------------------------------------------------------------
(* What a commit does, seen from the operation state.                      *)

\* The fields of every proposal of the engine.
LEMMA ProposalFields ==
    ASSUME NEW s \in States
    PROVE  /\ LET t == InitialState(s)
              IN  t.rev = s.rev + 1 /\ t.plans = <<>> /\ t.auth = NoEffect /\ t.unknown = FALSE /\ t.recon = "none"
           /\ \A new \in Seq(Effects) :
                 LET t == ModelState(s, new)
                 IN  t.rev = s.rev + 1 /\ t.plans = new /\ t.auth = s.auth /\ t.unknown = s.unknown /\ t.recon = s.recon
           /\ LET t == PopPlan(s)
              IN  t.rev = s.rev + 1 /\ t.plans = Tail(s.plans) /\ t.auth = NoEffect /\ t.unknown = FALSE /\ t.recon = "none"
           /\ \A res \in {"ok", "fail"} : SettledState(s, res) = PopPlan(s)
           /\ LET t == AuthorizedState(s)
              IN  /\ t.rev = s.rev + 1 /\ t.plans = s.plans /\ t.auth = Head(s.plans)
                  /\ t.unknown = s.unknown /\ t.recon = s.recon
<1>1. s \in StateType /\ Admission \in StateType
  BY StateFields, AdmissionType
<1>2. LET t == InitialState(s)
      IN  t.rev = s.rev + 1 /\ t.plans = <<>> /\ t.auth = NoEffect /\ t.unknown = FALSE /\ t.recon = "none"
  BY <1>1 DEF InitialState, Admission
<1>3. ASSUME NEW new \in Seq(Effects)
      PROVE  LET t == ModelState(s, new)
             IN  t.rev = s.rev + 1 /\ t.plans = new /\ t.auth = s.auth /\ t.unknown = s.unknown /\ t.recon = s.recon
  BY <1>1 DEF ModelState, StateType
<1>4. LET t == PopPlan(s)
      IN  t.rev = s.rev + 1 /\ t.plans = Tail(s.plans) /\ t.auth = NoEffect /\ t.unknown = FALSE /\ t.recon = "none"
  BY <1>1 DEF PopPlan, StateType
<1>5. \A res \in {"ok", "fail"} : SettledState(s, res) = PopPlan(s)
  BY DEF SettledState
<1>6. LET t == AuthorizedState(s)
      IN  /\ t.rev = s.rev + 1 /\ t.plans = s.plans /\ t.auth = Head(s.plans)
          /\ t.unknown = s.unknown /\ t.recon = s.recon
  BY <1>1 DEF AuthorizedState, StateType
<1>. QED
  BY <1>2, <1>3, <1>4, <1>5, <1>6

\* The transitions of the operation state, with what they do to the ledger,
\* the facts and the approvals; e is the head plan.
Adds(kind, e, n) == \E u \in receipts' : u.id = <<kind, e, n>>
Pops == op'.plans = Tail(op.plans) /\ op'.auth = NoEffect /\ ~op'.unknown /\ op'.recon = "none"
Moves(e, status) == slot' = [slot EXCEPT ![e] = status]

Admits ==
    /\ op.rev = 0 /\ Adds("initial", NoEffect, 0)
    /\ op'.plans = <<>> /\ op'.auth = NoEffect /\ ~op'.unknown /\ op'.recon = "none"
    /\ UNCHANGED <<slot, facts, appr>>

PlansCalls(c) ==
    /\ op.model /\ Adds("model", NoEffect, op.round + 1) /\ c.at = op.round + 1 /\ Planned(c)
    /\ op'.plans = c.new /\ op'.auth = op.auth /\ op'.unknown = op.unknown /\ op'.recon = op.recon
    /\ \A i \in DOMAIN c.new : slot[c.new[i]] = "none"
    /\ slot' = [e \in Effects |-> IF \E i \in DOMAIN c.new : e = c.new[i] THEN "prepared" ELSE slot[e]]
    /\ UNCHANGED <<facts, appr>>

Denies(e) ==
    /\ op.auth = NoEffect /\ e \in Gated /\ Adds("approval", e, 0)
    /\ slot[e] = "prepared" /\ Moves(e, "rejected")
    /\ appr[e] = "denied" /\ appr' = [appr EXCEPT ![e] = "rejected"]
    /\ Tell(e, "rejected") /\ Pops

Authorizes(e) ==
    /\ op.auth = NoEffect /\ Adds("dispatch", e, op.rev)
    /\ slot[e] = "prepared" /\ Moves(e, "dispatched")
    /\ IF e \in Gated THEN appr[e] = "approved" /\ appr' = [appr EXCEPT ![e] = "applied"] ELSE UNCHANGED appr
    /\ op'.plans = op.plans /\ op'.auth = e /\ op'.unknown = op.unknown /\ op'.recon = op.recon
    /\ UNCHANGED facts

Settles(e) ==
    /\ op.auth = e /\ ~op.unknown /\ op.recon = "none" /\ Adds("settled", e, 0)
    /\ slot[e] = "dispatched"
    /\ \/ \E outcome \in {"completed", "failed"} : Moves(e, outcome) /\ Tell(e, outcome) /\ Pops
       \/ /\ Moves(e, "unknown")
          /\ op'.plans = op.plans /\ op'.auth = e /\ op'.unknown /\ op'.recon = "none"
          /\ UNCHANGED facts
    /\ UNCHANGED appr

Reconciles(e, epoch) ==
    /\ op.auth = e /\ op.unknown /\ op.recon = "none" /\ Adds("reconcile", e, epoch)
    /\ slot[e] = "unknown"
    /\ \E outcome \in {"completed", "failed"} : Moves(e, outcome) /\ op'.recon = outcome
    /\ op'.plans = op.plans /\ op'.auth = e /\ op'.unknown
    /\ UNCHANGED <<facts, appr>>

Finishes(e) ==
    /\ op.recon # "none" /\ Adds("reconciled", e, 0)
    /\ Tell(e, op.recon) /\ Pops
    /\ UNCHANGED <<slot, appr>>

HeadSteps(e, epoch) ==
    /\ op.plans # <<>> /\ e = Head(op.plans) /\ e \in Effects
    /\ Denies(e) \/ Authorizes(e) \/ Settles(e) \/ Reconciles(e, epoch) \/ Finishes(e)

\* What a commit of p is: one of them, from the current state.
Transforms(p) ==
    /\ co[p].s = op /\ op'.rev = op.rev + 1
    /\ Known' = Known \cup {op'}
    /\ Admits \/ PlansCalls(co[p]) \/ \E e \in Effects : HeadSteps(e, cap[p])

\* The receipt of a unit that is stored.
LEMMA UnitAdds ==
    ASSUME NEW p \in Procs, Store(p), NEW kind, NEW e, NEW n, NEW stamped, NEW cut, NEW to,
           UnitOf(p) = Unit(kind, e, n, stamped, cut, to)
    PROVE  Adds(kind, e, n) /\ op' = to
<1>1. UnitOf(p).id = <<kind, e, n>> /\ UnitOf(p).to = to
  BY DEF Unit
<1>. QED
  BY <1>1 DEF Store, Adds

\* A commit transforms the current state by one of these transitions.
LEMMA Transition ==
    ASSUME LedgerTypeOK, TypeOK, EpochNamesOwner, HeldIsDispatched, EvidenceIsReal, HistoryGood,
           NEW p \in Procs, Fits(p), Committing(p)
    PROVE  Transforms(p)
<1>. DEFINE e == HeadOf(p)
<1>1. InCommit(p) /\ Swaps(p) /\ Store(p)
  BY CommitStores
<1>2. co[p].s = op /\ op \in States /\ co[p].s \in States
  BY <1>1, OwnSegment, SegmentFields DEF Swaps, Fits, InputFits, HistoryGood, StateGood, TypeOK
<1>3. Known' = Known \cup {op'}
  BY <1>1 DEF Store, Known
<1>4. ~Recorded(UnitOf(p)) /\ co[p].pc = "commit" /\ Fence(p)
  BY <1>1 DEF Swaps, Reaches, InCommit
<1>5. co[p].input \notin {"initial", "model"} => op.plans # <<>> /\ e = Head(op.plans) /\ e \in Effects
  BY <1>2, <1>4, OwnSegment, SegmentFields, HeadPlan DEF HeadOf
<1>6. ASSUME NEW answered \in BOOLEAN, CommitInitial(p, answered)
      PROVE  op'.rev = op.rev + 1 /\ Admits
  <2>1. UnitOf(p) = Unit("initial", NoEffect, 0, FALSE, 0, InitialState(op)) /\ op.rev = 0
    BY <1>2, <1>6 DEF CommitInitial, UnitOf, Fits, InputFits, StageFits
  <2>2. Adds("initial", NoEffect, 0) /\ op' = InitialState(op)
    BY <1>1, <2>1, UnitAdds
  <2>3. /\ op'.rev = op.rev + 1 /\ op'.plans = <<>> /\ op'.auth = NoEffect
        /\ op'.unknown = FALSE /\ op'.recon = "none"
    BY <1>2, <2>2, ProposalFields
  <2>. QED  BY <1>6, <2>1, <2>2, <2>3 DEF CommitInitial, Admits, ledgerVars
<1>7. ASSUME NEW answered \in BOOLEAN, CommitModel(p, answered)
      PROVE  op'.rev = op.rev + 1 /\ PlansCalls(co[p])
  <2>1. /\ UnitOf(p) = Unit("model", NoEffect, co[p].at, TRUE, 0, ModelState(op, co[p].new))
        /\ op.model /\ co[p].at = op.round + 1 /\ Planned(co[p])
    BY <1>2, <1>7 DEF CommitModel, UnitOf, Fits, InputFits, StageFits
  <2>2. co[p].new \in Seq(Effects)
    BY OwnSegment, SegmentFields
  <2>3. Adds("model", NoEffect, co[p].at) /\ op' = ModelState(op, co[p].new)
    BY <1>1, <2>1, UnitAdds
  <2>4. /\ op'.rev = op.rev + 1 /\ op'.plans = co[p].new /\ op'.auth = op.auth
        /\ op'.unknown = op.unknown /\ op'.recon = op.recon
    BY <1>2, <2>2, <2>3, ProposalFields
  <2>. QED  BY <1>7, <2>1, <2>3, <2>4 DEF CommitModel, PlansCalls, Prepare
\* A plan that is done with.
<1>p. ASSUME op.plans # <<>>, op' = PopPlan(op) PROVE op'.rev = op.rev + 1 /\ Pops
  BY <1>2, <1>p, ProposalFields DEF Pops
<1>8. ASSUME NEW answered \in BOOLEAN, CommitDenial(p, answered)
      PROVE  op'.rev = op.rev + 1 /\ HeadSteps(e, cap[p])
  <2>1. /\ UnitOf(p) = Unit("approval", e, 0, TRUE, 0, PopPlan(op))
        /\ op.auth = NoEffect /\ e \in Gated /\ op.plans # <<>>
    BY <1>2, <1>5, <1>8 DEF CommitDenial, UnitOf, Fits, InputFits, StageFits, FitsApproval
  <2>2. Adds("approval", e, 0) /\ op' = PopPlan(op)
    BY <1>1, <2>1, UnitAdds
  <2>3. op'.rev = op.rev + 1 /\ Pops
    BY <1>p, <2>1, <2>2
  <2>. QED  BY <1>5, <1>8, <2>1, <2>2, <2>3 DEF CommitDenial, HeadSteps, Denies, Reject, Moves
<1>9. ASSUME NEW answered \in BOOLEAN, CommitDispatch(p, answered)
      PROVE  op'.rev = op.rev + 1 /\ HeadSteps(e, cap[p])
  <2>1. /\ UnitOf(p) = Unit("dispatch", e, op.rev, FALSE, co[p].cut, AuthorizedState(op))
        /\ op.auth = NoEffect /\ (co[p].input = "approved" <=> e \in Gated) /\ op.plans # <<>>
    BY <1>2, <1>5, <1>9 DEF CommitDispatch, IsDispatch, UnitOf, Fits, InputFits, StageFits, FitsApproval
  <2>2. Adds("dispatch", e, op.rev) /\ op' = AuthorizedState(op)
    BY <1>1, <2>1, UnitAdds
  <2>3. /\ op'.rev = op.rev + 1 /\ op'.plans = op.plans /\ op'.auth = Head(op.plans)
        /\ op'.unknown = op.unknown /\ op'.recon = op.recon
    BY <1>2, <2>2, ProposalFields
  <2>. QED  BY <1>5, <1>9, <2>1, <2>2, <2>3 DEF CommitDispatch, IsDispatch, HeadSteps, Authorizes, Authorize, Moves
<1>10. ASSUME NEW answered \in BOOLEAN, CommitSettlement(p, answered)
      PROVE  op'.rev = op.rev + 1 /\ HeadSteps(e, cap[p])
  <2>1. /\ UnitOf(p) = Unit("settled", ex[p].e, 0, ex[p].closeout \/ ex[p].res # "lost", 0, SettledState(op, ex[p].res))
        /\ op.auth = ex[p].e /\ op.recon = "none" /\ ex[p].pc = "settling"
    BY <1>2, <1>4, <1>10 DEF CommitSettlement, UnitOf, Fits, InputFits, StageFits
  <2>2. Adds("settled", ex[p].e, 0) /\ op' = SettledState(op, ex[p].res)
    BY <1>1, <2>1, UnitAdds
  <2>3. ex[p].e \in Effects /\ ex[p].e # NoEffect /\ ex[p].res \in Results
    BY <2>1, LedgerAssumption DEF HeldIsDispatched, LedgerTypeOK
  <2>4. ex[p].e = e
    BY <1>2, <1>5, <1>10, <2>1, <2>3 DEF CommitSettlement, HistoryGood, StateGood
  <2>5. ~op.unknown
    <3>1. UnitOf(p).id = <<"settled", ex[p].e, 0>>
      BY <2>1 DEF Unit
    <3>2. ~Has("settled", ex[p].e, 0)
      BY <1>4, <3>1 DEF Recorded, Has
    <3>. QED  BY <1>2, <2>1, <3>2 DEF HistoryGood, StateGood
  <2>6. slot[e] = "dispatched" /\ Moves(e, Outcome(ex[p].res)) /\ UNCHANGED appr
    BY <1>10, <2>4 DEF CommitSettlement, Settle, SettlementCommits, Moves
  <2>7. CASE ex[p].res = "lost"
    <3>1. /\ op'.rev = op.rev + 1 /\ op'.plans = op.plans /\ op'.auth = op.auth
          /\ op'.unknown = TRUE /\ op'.recon = op.recon
      BY <1>2, <2>2, <2>7, StateFields DEF SettledState, StateType
    <3>2. Outcome(ex[p].res) = "unknown"
      BY <2>7 DEF Outcome
    <3>. QED  BY <1>5, <1>10, <2>1, <2>2, <2>4, <2>5, <2>6, <2>7, <3>1, <3>2 DEF CommitSettlement, HeadSteps, Settles
  <2>8. CASE ex[p].res \in {"ok", "fail"}
    <3>1. op.plans # <<>> /\ op' = PopPlan(op)
      BY <1>2, <1>5, <1>10, <2>2, <2>8, ProposalFields DEF CommitSettlement
    <3>2. Outcome(ex[p].res) \in {"completed", "failed"}
      BY <2>8 DEF Outcome
    <3>3. op'.rev = op.rev + 1 /\ Pops
      BY <1>p, <3>1
    <3>. QED  BY <1>5, <1>10, <2>1, <2>2, <2>4, <2>5, <2>6, <2>8, <3>2, <3>3 DEF CommitSettlement, HeadSteps, Settles
  <2>. QED  BY <2>3, <2>7, <2>8 DEF Results
<1>11. ASSUME NEW answered \in BOOLEAN, CommitReconciliation(p, answered)
      PROVE  op'.rev = op.rev + 1 /\ HeadSteps(e, cap[p])
  <2>1. /\ UnitOf(p) = Unit("reconcile", e, cap[p], FALSE, 0, ReconciledState(op, evid[e].outcome))
        /\ op.unknown /\ op.recon = "none" /\ op.plans # <<>>
    BY <1>2, <1>5, <1>11 DEF CommitReconciliation, UnitOf, Fits, InputFits, StageFits
  <2>2. Adds("reconcile", e, cap[p]) /\ op' = ReconciledState(op, evid[e].outcome)
    BY <1>1, <2>1, UnitAdds
  <2>3. slot[e] = "unknown" /\ evid[e].epoch = cap[p] /\ Moves(e, evid[e].outcome)
    BY <1>11 DEF CommitReconciliation, Reconcile, MayReconcile, Moves
  <2>4. e \in Effects /\ evid[e].outcome \in {"completed", "failed"}
    BY <1>4, <1>5, <1>11, <2>3, FenceInForce DEF CommitReconciliation, EvidenceIsReal, LedgerTypeOK
  <2>5. /\ op'.rev = op.rev + 1 /\ op'.plans = op.plans /\ op'.auth = op.auth
        /\ op'.unknown = op.unknown /\ op'.recon = evid[e].outcome
    BY <1>2, <2>2, StateFields DEF ReconciledState, StateType
  <2>6. op.auth = e
    BY <1>2, <1>5, <1>11, <2>1 DEF CommitReconciliation, HistoryGood, StateGood
  <2>. QED  BY <1>5, <1>11, <2>1, <2>2, <2>3, <2>4, <2>5, <2>6 DEF CommitReconciliation, HeadSteps, Reconciles
<1>12. ASSUME NEW answered \in BOOLEAN, CommitReconciled(p, answered)
      PROVE  op'.rev = op.rev + 1 /\ HeadSteps(e, cap[p])
  <2>1. /\ UnitOf(p) = Unit("reconciled", e, 0, TRUE, 0, PopPlan(op))
        /\ op.recon # "none" /\ op.plans # <<>>
    BY <1>2, <1>4, <1>5, <1>12 DEF CommitReconciled, UnitOf, Fits, InputFits, StageFits
  <2>2. Adds("reconciled", e, 0) /\ op' = PopPlan(op)
    BY <1>1, <2>1, UnitAdds
  <2>3. op'.rev = op.rev + 1 /\ Pops
    BY <1>p, <2>1, <2>2
  <2>. QED  BY <1>2, <1>5, <1>12, <2>1, <2>2, <2>3 DEF CommitReconciled, HeadSteps, Finishes, ledgerVars
<1>13. HeadSteps(e, cap[p]) => \E f \in Effects : HeadSteps(f, cap[p])
  BY DEF HeadSteps
<1>. QED
  BY <1>2, <1>3, <1>6, <1>7, <1>8, <1>9, <1>10, <1>11, <1>12, <1>13 DEF Committing, Transforms

-----------------------------------------------------------------------------
(* What is known of the states committed so far.                           *)

LEMMA KnownStates ==
    ASSUME TypeOK
    PROVE  /\ Known \subseteq States
           /\ \A x \in Known : x.rev \in Nat /\ x.auth \in Effects \cup {NoEffect} /\ x.plans \in Seq(Effects)
<1>1. Known \subseteq States
  BY AdmissionType DEF Known, TypeOK
<1>. QED
  BY <1>1, StateFields DEF StateType

\* The current state is one of them.
LEMMA CurrentState ==
    ASSUME TypeOK, HistoryGood
    PROVE  /\ op \in States /\ op.rev \in Nat /\ op.plans \in Seq(Effects)
           /\ op.rev = 0 => op.plans = <<>>
           /\ op.model => op.plans = <<>>
           /\ op.auth # NoEffect => op.plans # <<>> /\ op.auth = Head(op.plans) /\ slot[op.auth] \notin Undispatched
           /\ op.unknown => op.plans # <<>> /\ op.auth # NoEffect /\ Has("settled", op.auth, 0)
           /\ op.recon # "none" => op.plans # <<>> /\ op.unknown
           /\ op.recon \in {"none", "completed", "failed", "unknown"}
<1>1. op \in States /\ StateGood(op)
  BY DEF TypeOK, HistoryGood
<1>2. /\ op.rev \in Nat /\ op.plans \in Seq(Effects) /\ op.recon \in {"none", "completed", "failed", "unknown"}
      /\ op.unknown => op.plans # <<>>
      /\ op.recon # "none" => op.plans # <<>>
      /\ op.model => op.plans = <<>>
  BY <1>1, StateFields DEF StateType
<1>. QED
  BY <1>1, <1>2 DEF StateGood, Admission

\* A state that is known stays what it is.
LEMMA OldState ==
    ASSUME TypeOK, Grows, NEW x \in Known, StateGood(x), Left(x),
           \/ UNCHANGED op
           \/ /\ op'.rev = op.rev + 1
              /\ x = op => Left(x)'
    PROVE  StateGood(x)' /\ Left(x)'
<1>1. /\ x.rev \in Nat /\ op.rev \in Nat /\ x.auth \in Effects \cup {NoEffect}
      /\ x.plans # <<>> => Head(x.plans) \in Effects
  BY KnownStates, StateFields, Plans DEF TypeOK, StateType
<1>2. StateGood(x)'
  BY <1>1 DEF StateGood, Grows, Has
<1>3. Left(x)'
  <2>1. CASE x.rev # op.rev \/ UNCHANGED op
    BY <2>1, <1>1 DEF StateGood, Left, Grows, Has
  <2>2. CASE x = op /\ op'.rev = op.rev + 1
    BY <2>2, <1>1
  <2>. QED  BY <2>1, <2>2 DEF StateGood
<1>. QED
  BY <1>2, <1>3

\* The marks that a commit leaves on the state it transforms, and on the one
\* it makes.
LEMMA NewState ==
    ASSUME TypeOK, LedgerTypeOK, HistoryGood, Grows, NEW p \in Procs, Transforms(p)
    PROVE  /\ \A x \in Known' : x = op => Left(x)'
           /\ \A x \in Known' : x = op' => StateGood(x)' /\ Left(x)'
<1>1. /\ op \in States /\ op.rev \in Nat /\ op'.rev = op.rev + 1
      /\ op.unknown => op.plans # <<>>
      /\ op.recon # "none" => op.plans # <<>>
      /\ op.model => op.plans = <<>>
  BY CurrentState DEF Transforms
<1>2. /\ op.auth # NoEffect => op.plans # <<>> /\ op.auth = Head(op.plans) /\ slot[op.auth] \notin Undispatched
      /\ op.unknown => op.auth # NoEffect /\ Has("settled", op.auth, 0)
      /\ op.recon # "none" => op.unknown
  BY CurrentState
<1>. SUFFICES ASSUME NEW x
              PROVE  /\ x = op => Left(x)'
                     /\ x = op' => StateGood(x)' /\ Left(x)'
  OBVIOUS
<1>3. x = op' => Left(x)'
  BY DEF Left
<1>4. CASE Admits
  <2>1. x = op => Left(x)'
    BY <1>4, <1>1 DEF Admits, Adds, Left, Has
  <2>2. x = op' => StateGood(x)'
    BY <1>4, <1>1 DEF Admits, StateGood
  <2>. QED  BY <1>3, <2>1, <2>2
<1>5. CASE PlansCalls(co[p])
  <2>1. x = op => Left(x)'
    BY <1>5, <1>1 DEF PlansCalls, Adds, Left, Has
  <2>2. x = op' => StateGood(x)'
    BY <1>5, <1>1, <1>2 DEF PlansCalls, StateGood
  <2>. QED  BY <1>3, <2>1, <2>2
<1>6. ASSUME NEW e \in Effects, HeadSteps(e, cap[p])
      PROVE  (x = op => Left(x)') /\ (x = op' => StateGood(x)')
  <2>t. slot \in [Effects -> SlotStatus] /\ appr \in [Effects -> {"none", "approved", "denied", "applied", "rejected"}]
        /\ e # NoEffect /\ op.plans # <<>> /\ e = Head(op.plans)
    BY <1>6, LedgerAssumption DEF LedgerTypeOK, TypeOK, HeadSteps
  <2>1. CASE Denies(e)
    <3>1. x = op => Left(x)'
      BY <2>1, <2>t, <1>1 DEF Denies, Adds, Left, Has
    <3>2. x = op' => StateGood(x)'
      BY <2>1, <1>1 DEF Denies, Pops, StateGood
    <3>. QED  BY <3>1, <3>2
  <2>2. CASE Authorizes(e)
    <3>. slot'[e] \notin Undispatched
      BY <2>2, <2>t DEF Authorizes, Moves, Undispatched
    <3>1. x = op => Left(x)'
      BY <2>2, <2>t, <1>1 DEF Authorizes, Adds, Left, Has
    <3>2. x = op' => StateGood(x)'
      BY <2>2, <2>t, <1>1, <1>2 DEF Authorizes, StateGood
    <3>. QED  BY <3>1, <3>2
  <2>3. CASE Settles(e)
    <3>1. x = op => Left(x)'
      BY <2>3, <2>t, <1>1 DEF Settles, Adds, Left, Has
    <3>2. CASE Pops
      BY <3>1, <3>2, <1>1 DEF Pops, StateGood
    <3>3. CASE Moves(e, "unknown") /\ op'.plans = op.plans /\ op'.auth = e /\ op'.unknown /\ op'.recon = "none"
      <4>1. slot'[e] \notin Undispatched
        BY <3>3, <2>t DEF Moves, Undispatched
      <4>. QED  BY <2>3, <3>1, <3>3, <4>1, <2>t, <1>1 DEF Settles, Adds, Has, StateGood
    <3>. QED  BY <2>3, <3>1, <3>2, <3>3 DEF Settles
  <2>4. CASE Reconciles(e, cap[p])
    <3>1. x = op => Left(x)'
      BY <2>4, <2>t, <1>1 DEF Reconciles, Left
    <3>2. slot'[e] \notin Undispatched
      BY <2>4, <2>t DEF Reconciles, Moves, Undispatched
    <3>3. x = op' => StateGood(x)'
      BY <2>4, <2>t, <3>2, <1>1, <1>2 DEF Reconciles, Has, StateGood, Grows
    <3>. QED  BY <3>1, <3>3
  <2>5. CASE Finishes(e)
    <3>1. x = op => Left(x)'
      BY <2>5, <2>t, <1>1 DEF Finishes, Adds, Left, Has
    <3>2. x = op' => StateGood(x)'
      BY <2>5, <1>1 DEF Finishes, Pops, StateGood
    <3>. QED  BY <3>1, <3>2
  <2>. QED  BY <1>6, <2>1, <2>2, <2>3, <2>4, <2>5 DEF HeadSteps
<1>. QED
  BY <1>3, <1>4, <1>5, <1>6 DEF Transforms

\* Every step keeps the history of states.
LEMMA HistoryStep ==
    ASSUME LedgerTypeOK, TypeOK, HistoryGood, Grows,
           UNCHANGED <<op, receipts>> \/ \E p \in Procs : Transforms(p)
    PROVE  HistoryGood' /\ Known \subseteq Known'
<1>1. CASE UNCHANGED <<op, receipts>>
  <2>1. Known' = Known
    BY <1>1 DEF Known
  <2>. QED  BY <1>1, <2>1, OldState DEF HistoryGood
<1>2. ASSUME NEW p \in Procs, Transforms(p) PROVE HistoryGood' /\ Known \subseteq Known'
  <2>1. Known' = Known \cup {op'} /\ op'.rev = op.rev + 1
    BY <1>2 DEF Transforms
  <2>2. \A x \in Known : StateGood(x)' /\ Left(x)'
    BY <1>2, <2>1, NewState, OldState DEF HistoryGood
  <2>. QED  BY <1>2, <2>1, <2>2, NewState DEF HistoryGood
<1>. QED
  BY <1>1, <1>2

-----------------------------------------------------------------------------
(* State, ledger, facts and approvals agree.                               *)

\* What is left of the plans when the head is done with.
LEMMA TailPlans ==
    ASSUME NEW s \in Seq(Effects), s # <<>>, Distinct(s)
    PROVE  /\ Head(s) \in {s[k] : k \in DOMAIN s}
           /\ {Tail(s)[k] : k \in DOMAIN Tail(s)} = {s[k] : k \in DOMAIN s} \ {Head(s)}
           /\ Distinct(Tail(s))
           /\ \A k, l \in DOMAIN s : k < l =>
                 \/ s[k] = Head(s)
                 \/ \E m, n \in DOMAIN Tail(s) : m < n /\ Tail(s)[m] = s[k] /\ Tail(s)[n] = s[l]
<1>1. /\ Len(s) \in Nat \ {0} /\ DOMAIN s = 1..Len(s)
      /\ Tail(s) \in Seq(Effects) /\ Len(Tail(s)) = Len(s) - 1
      /\ \A i \in 1..Len(Tail(s)) : Tail(s)[i] = s[i + 1]
  BY HeadTailProperties, EmptySeq, LenProperties
<1>2. DOMAIN Tail(s) = 1..(Len(s) - 1) /\ Head(s) = s[1]
  BY <1>1, LenProperties
<1>3. \A k \in DOMAIN s : k # 1 => k - 1 \in DOMAIN Tail(s) /\ Tail(s)[k - 1] = s[k]
  BY <1>1, <1>2
<1>4. \A k \in DOMAIN Tail(s) : k + 1 \in DOMAIN s /\ Tail(s)[k] = s[k + 1] /\ k + 1 # 1
  BY <1>1, <1>2
<1>5. {Tail(s)[k] : k \in DOMAIN Tail(s)} = {s[k] : k \in DOMAIN s} \ {Head(s)}
  <2>1. \A e \in {Tail(s)[k] : k \in DOMAIN Tail(s)} : e \in {s[k] : k \in DOMAIN s} \ {Head(s)}
    BY <1>1, <1>2, <1>4 DEF Distinct
  <2>2. \A e \in {s[k] : k \in DOMAIN s} \ {Head(s)} : e \in {Tail(s)[k] : k \in DOMAIN Tail(s)}
    BY <1>2, <1>3
  <2>. QED  BY <2>1, <2>2
<1>6. Distinct(Tail(s))
  BY <1>1, <1>2, <1>4 DEF Distinct
<1>7. ASSUME NEW k \in DOMAIN s, NEW l \in DOMAIN s, k < l, s[k] # Head(s)
      PROVE  \E m, n \in DOMAIN Tail(s) : m < n /\ Tail(s)[m] = s[k] /\ Tail(s)[n] = s[l]
  <2>1. /\ k - 1 \in DOMAIN Tail(s) /\ Tail(s)[k - 1] = s[k]
        /\ l - 1 \in DOMAIN Tail(s) /\ Tail(s)[l - 1] = s[l]
        /\ k - 1 < l - 1
    BY <1>1, <1>2, <1>3, <1>7
  <2>. QED  BY <2>1
<1>8. Head(s) \in {s[k] : k \in DOMAIN s}
  BY <1>1, <1>2
<1>. QED
  BY <1>5, <1>6, <1>7, <1>8

\* The first calls of a round are planned in their order, and only once.
LEMMA CallPlans ==
    ASSUME NEW c, Planned(c)
    PROVE  /\ c.new \in Seq(Effects) /\ Distinct(c.new)
           /\ \A r \in DOMAIN Calls : \A i, j \in DOMAIN Calls[r], m \in DOMAIN c.new :
                 i < j /\ c.new[m] = Calls[r][j] =>
                    i \in DOMAIN c.new /\ j \in DOMAIN c.new /\ c.new[i] = Calls[r][i] /\ c.new[j] = Calls[r][j]
<1>1. PICK n \in 0..Len(Calls[c.at]) : c.new = SubSeq(Calls[c.at], 1, n) /\ c.at \in DOMAIN Calls
  BY DEF Planned
<1>2. Calls[c.at] \in Seq(Effects) /\ \A r \in DOMAIN Calls : Calls[r] \in Seq(Effects)
  BY <1>1, CoordinatorAssumption, LenProperties
<1>3. /\ Len(Calls[c.at]) \in Nat /\ n \in Nat /\ DOMAIN Calls[c.at] = 1..Len(Calls[c.at])
      /\ \A i \in 1..n : Calls[c.at][i] \in Effects
      /\ \A r \in DOMAIN Calls : DOMAIN Calls[r] = 1..Len(Calls[r]) /\ Len(Calls[r]) \in Nat
  BY <1>1, <1>2, LenProperties
<1>4. /\ c.new \in Seq(Effects) /\ Len(c.new) = n
      /\ \A i \in 1..n : c.new[i] = Calls[c.at][i]
  BY <1>1, <1>3, SubSeqProperties
<1>5. DOMAIN c.new = 1..n
  BY <1>4, LenProperties
<1>6. Distinct(c.new)
  BY <1>1, <1>3, <1>4, <1>5, CoordinatorAssumption DEF Distinct
<1>7. ASSUME NEW r \in DOMAIN Calls, NEW i \in DOMAIN Calls[r], NEW j \in DOMAIN Calls[r], NEW m \in DOMAIN c.new,
             i < j, c.new[m] = Calls[r][j]
      PROVE  i \in DOMAIN c.new /\ j \in DOMAIN c.new /\ c.new[i] = Calls[r][i] /\ c.new[j] = Calls[r][j]
  <2>1. m \in DOMAIN Calls[c.at] /\ Calls[c.at][m] = Calls[r][j]
    BY <1>3, <1>4, <1>5, <1>7
  <2>2. r = c.at /\ j = m
    BY <1>1, <1>7, <2>1, CoordinatorAssumption
  <2>. QED  BY <1>3, <1>4, <1>5, <1>7, <2>2
<1>. QED
  BY <1>4, <1>6, <1>7

\* What is agreed holds when the head plan is done with, and told as such.
LEMMA DoneAgreement ==
    ASSUME LedgerTypeOK, TypeOK, Agreement, op.plans # <<>>, NEW e \in Effects, e = Head(op.plans),
           op.auth \in {NoEffect, e}, slot[e] # "none",
           NEW outcome \in {"rejected", "completed", "failed"},
           Moves(e, outcome), Tell(e, outcome), Pops
    PROVE  /\ StateMatchesLedger' /\ OneToolResult' /\ PlansInOrder'
           /\ Distinct(op.plans)' /\ op'.recon # "unknown"
<1>t. /\ slot \in [Effects -> SlotStatus] /\ facts \in [Effects -> Seq(SlotStatus)]
      /\ op.plans \in Seq(Effects) /\ Distinct(op.plans) /\ outcome \in SlotStatus
  BY StateFields DEF LedgerTypeOK, TypeOK, Agreement, SlotStatus
<1>1. /\ e \in Pending /\ Pending' = Pending \ {e} /\ Distinct(op.plans)'
      /\ \A k, l \in DOMAIN op.plans : k < l =>
            \/ op.plans[k] = e
            \/ \E m, n \in DOMAIN op'.plans : m < n /\ op'.plans[m] = op.plans[k] /\ op'.plans[n] = op.plans[l]
  <2>1. /\ Head(op.plans) \in {op.plans[k] : k \in DOMAIN op.plans}
        /\ {Tail(op.plans)[k] : k \in DOMAIN Tail(op.plans)} = {op.plans[k] : k \in DOMAIN op.plans} \ {Head(op.plans)}
        /\ Distinct(Tail(op.plans))
    BY <1>t, TailPlans
  <2>2. \A k, l \in DOMAIN op.plans : k < l =>
           \/ op.plans[k] = Head(op.plans)
           \/ \E m, n \in DOMAIN Tail(op.plans) :
                 m < n /\ Tail(op.plans)[m] = op.plans[k] /\ Tail(op.plans)[n] = op.plans[l]
    BY <1>t, TailPlans
  <2>3. op'.plans = Tail(op.plans)
    BY DEF Pops
  <2>4. Pending = {op.plans[k] : k \in DOMAIN op.plans}
    BY Zenon DEF Pending
  <2>5. Pending' = {op'.plans[k] : k \in DOMAIN op'.plans}
    BY Zenon DEF Pending
  <2>6. e \in Pending /\ Pending' = Pending \ {e}
    BY <2>1, <2>3, <2>4, <2>5, Zenon
  <2>7. Distinct(op.plans)'
    BY <2>1, <2>3 DEF Distinct
  <2>8. ASSUME NEW k \in DOMAIN op.plans, NEW l \in DOMAIN op.plans, k < l, op.plans[k] # e
        PROVE  \E m, n \in DOMAIN op'.plans : m < n /\ op'.plans[m] = op.plans[k] /\ op'.plans[n] = op.plans[l]
    <3>1. PICK m \in DOMAIN Tail(op.plans), n \in DOMAIN Tail(op.plans) :
             m < n /\ Tail(op.plans)[m] = op.plans[k] /\ Tail(op.plans)[n] = op.plans[l]
      BY <2>2, <2>8
    <3>. QED  BY <2>3, <3>1
  <2>. QED  BY <2>6, <2>7, <2>8
<1>2. /\ slot'[e] = outcome /\ facts'[e] = Append(facts[e], outcome)
      /\ \A f \in Effects : f # e => slot'[f] = slot[f] /\ facts'[f] = facts[f]
  BY <1>t DEF Moves, Tell
<1>3. StateMatchesLedger'
  <2>1. Pending \subseteq Effects /\ NoEffect \notin Effects
    BY <1>t, LenProperties, LedgerAssumption DEF Pending
  <2>. QED  BY <1>1, <1>2, <2>1 DEF Agreement, StateMatchesLedger, Pops
<1>4. OneToolResult'
  <2>1. facts[e] = <<>>
    BY <1>1 DEF Agreement, OneToolResult
  <2>2. Append(facts[e], outcome) = <<outcome>>
    BY <2>1
  <2>. QED  BY <1>1, <1>2, <2>2 DEF Agreement, OneToolResult
<1>5. PlansInOrder'
  <2>. SUFFICES ASSUME NEW r \in DOMAIN Calls, NEW i \in DOMAIN Calls[r], NEW j \in DOMAIN Calls[r],
                       i < j, slot'[Calls[r][j]] # "none"
                PROVE  \/ facts'[Calls[r][i]] # <<>>
                       \/ \E m, n \in DOMAIN op'.plans :
                             m < n /\ op'.plans[m] = Calls[r][i] /\ op'.plans[n] = Calls[r][j]
    BY DEF PlansInOrder
  <2>1. Calls[r][i] \in Effects /\ Calls[r][j] \in Effects
    BY CoordinatorAssumption, LenProperties
  <2>2. slot[Calls[r][j]] # "none"
    BY <1>2, <2>1
  <2>3. facts[Calls[r][i]] # <<>> \/ Calls[r][i] = e => facts'[Calls[r][i]] # <<>>
    <3>1. facts[e] \in Seq(SlotStatus) /\ outcome \in SlotStatus
      BY <1>t
    <3>2. Append(facts[e], outcome) # <<>>
      BY <3>1, AppendProperties
    <3>. QED  BY <1>2, <2>1, <3>2
  <2>. QED  BY <1>1, <2>2, <2>3 DEF Agreement, PlansInOrder
<1>. QED
  BY <1>1, <1>3, <1>4, <1>5 DEF Pops

\* What is agreed survives every transition of the operation state.
LEMMA AgreementCommits ==
    ASSUME LedgerTypeOK, TypeOK, HistoryGood, Agreement, NEW p \in Procs, Transforms(p)
    PROVE  Agreement'
<1>t. /\ slot \in [Effects -> SlotStatus] /\ NoEffect \notin Effects /\ Gated \subseteq Effects
      /\ appr \in [Effects -> {"none", "approved", "denied", "applied", "rejected"}]
      /\ op.plans \in Seq(Effects) /\ Distinct(op.plans)
  BY CurrentState, LedgerAssumption, CoordinatorAssumption DEF LedgerTypeOK, TypeOK, Agreement
<1>u. Pending \subseteq Effects /\ (op.plans = <<>> => Pending = {})
  BY <1>t, LenProperties, EmptySeq DEF Pending
<1>c. \A r \in DOMAIN Calls : \A i \in DOMAIN Calls[r] : Calls[r][i] \in Effects
  BY CoordinatorAssumption, LenProperties
<1>1. CASE Admits
  <2>1. op.plans = <<>> /\ op'.plans = <<>> /\ op'.auth = NoEffect /\ op'.recon = "none" /\ UNCHANGED <<slot, facts, appr>>
    BY <1>1, CurrentState DEF Admits
  <2>2. op.auth = NoEffect /\ Pending' = Pending
    BY <2>1, CurrentState DEF Pending
  <2>. QED
    BY <2>1, <2>2 DEF Agreement, StateMatchesLedger, OneToolResult, Disposed, PlansInOrder, Distinct
<1>2. CASE PlansCalls(co[p])
  <2>. DEFINE c == co[p]
  <2>1. /\ op.plans = <<>> /\ Pending = {} /\ op.auth = NoEffect /\ op'.auth = NoEffect /\ op'.recon = "none"
        /\ op'.plans = c.new /\ UNCHANGED <<facts, appr>>
    BY <1>2, <1>u, CurrentState DEF PlansCalls
  <2>2. Pending' = {c.new[i] : i \in DOMAIN c.new}
    BY <2>1 DEF Pending
  <2>3. /\ \A e \in Pending' : slot[e] = "none"
        /\ \A e \in Effects : slot'[e] = IF e \in Pending' THEN "prepared" ELSE slot[e]
    BY <1>2, <2>2 DEF PlansCalls
  <2>4. /\ c.new \in Seq(Effects) /\ Distinct(c.new)
        /\ \A r \in DOMAIN Calls : \A i, j \in DOMAIN Calls[r], m \in DOMAIN c.new :
              i < j /\ c.new[m] = Calls[r][j] =>
                 i \in DOMAIN c.new /\ j \in DOMAIN c.new /\ c.new[i] = Calls[r][i] /\ c.new[j] = Calls[r][j]
    BY <1>2, CallPlans DEF PlansCalls
  <2>5. Pending' \subseteq Effects
    BY <2>2, <2>4, LenProperties
  <2>6. StateMatchesLedger'
    BY <2>1, <2>3, <2>5 DEF Agreement, StateMatchesLedger
  <2>7. OneToolResult'
    BY <2>1, <2>3 DEF Agreement, OneToolResult
  <2>8. Disposed'
    BY <1>t, <2>1, <2>3 DEF Agreement, Disposed, Undispatched
  <2>9. PlansInOrder'
    <3>. SUFFICES ASSUME NEW r \in DOMAIN Calls, NEW i \in DOMAIN Calls[r], NEW j \in DOMAIN Calls[r],
                         i < j, slot'[Calls[r][j]] # "none"
                  PROVE  \/ facts'[Calls[r][i]] # <<>>
                         \/ \E m, n \in DOMAIN op'.plans :
                               m < n /\ op'.plans[m] = Calls[r][i] /\ op'.plans[n] = Calls[r][j]
      BY DEF PlansInOrder
    <3>1. CASE Calls[r][j] \in Pending'
      <4>1. i \in DOMAIN c.new /\ j \in DOMAIN c.new /\ c.new[i] = Calls[r][i] /\ c.new[j] = Calls[r][j]
        BY <2>2, <2>4, <3>1
      <4>. QED  BY <2>1, <4>1
    <3>2. CASE Calls[r][j] \notin Pending'
      <4>1. slot[Calls[r][j]] # "none"
        BY <1>c, <2>3, <3>2
      <4>2. DOMAIN op.plans = {}
        BY <2>1, LenProperties, EmptySeq
      <4>. QED  BY <2>1, <4>1, <4>2 DEF Agreement, PlansInOrder
    <3>. QED  BY <3>1, <3>2
  <2>. QED  BY <2>1, <2>4, <2>6, <2>7, <2>8, <2>9 DEF Agreement, Distinct
<1>3. ASSUME NEW e \in Effects, HeadSteps(e, cap[p]) PROVE Agreement'
  <2>h. op.plans # <<>> /\ e = Head(op.plans) /\ e \in Pending /\ e # NoEffect
    <3>1. op.plans # <<>> /\ e = Head(op.plans) /\ e # NoEffect
      BY <1>t, <1>3 DEF HeadSteps
    <3>2. Head(op.plans) \in {op.plans[k] : k \in DOMAIN op.plans}
      BY <1>t, <3>1, TailPlans
    <3>. QED  BY <3>1, <3>2 DEF Pending
  \* The plans stay: an effect is authorized, indeterminate or reconciled.
  <2>k. ASSUME op'.plans = op.plans, op'.auth = e, op.auth \in {NoEffect, e}, UNCHANGED facts, NEW status \in SlotStatus,
               Moves(e, status), slot[e] # "none", op'.recon # "unknown",
               status = IF op'.recon # "none" THEN op'.recon ELSE IF op'.unknown THEN "unknown" ELSE "dispatched",
               Disposed'
        PROVE  Agreement'
    <3>1. Pending' = Pending
      BY <2>k DEF Pending
    <3>2. slot'[e] = status /\ \A f \in Effects : f # e => slot'[f] = slot[f]
      BY <2>k, <1>t DEF Moves
    <3>3. StateMatchesLedger'
      BY <1>u, <1>t, <2>h, <2>k, <3>1, <3>2 DEF Agreement, StateMatchesLedger
    <3>4. OneToolResult'
      BY <1>u, <2>h, <2>k, <3>1, <3>2 DEF Agreement, OneToolResult
    <3>5. PlansInOrder'
      BY <1>c, <2>k, <3>2 DEF Agreement, PlansInOrder
    <3>6. Distinct(op.plans)'
      BY <1>t, <2>k DEF Distinct
    <3>. QED  BY <2>k, <3>3, <3>4, <3>5, <3>6 DEF Agreement
  <2>1. CASE Denies(e)
    <3>1. Disposed'
      BY <1>t, <2>1 DEF Denies, Moves, Agreement, Disposed, Undispatched
    <3>. QED  BY <2>1, <2>h, <3>1, DoneAgreement DEF Denies, Agreement
  <2>2. CASE Authorizes(e)
    <3>1. Disposed'
      BY <1>t, <2>2 DEF Authorizes, Moves, Agreement, Disposed, Undispatched
    <3>2. ~op.unknown /\ op.recon = "none"
      BY <2>2, CurrentState DEF Authorizes
    <3>. QED  BY <2>2, <2>k, <3>1, <3>2 DEF Authorizes, SlotStatus
  <2>3. CASE Settles(e)
    <3>1. Disposed'
      BY <1>t, <2>3 DEF Settles, Moves, Agreement, Disposed, Undispatched
    <3>2. CASE \E outcome \in {"completed", "failed"} : Moves(e, outcome) /\ Tell(e, outcome) /\ Pops
      BY <2>3, <2>h, <3>1, <3>2, DoneAgreement DEF Settles, Agreement
    <3>3. CASE ~\E outcome \in {"completed", "failed"} : Moves(e, outcome) /\ Tell(e, outcome) /\ Pops
      BY <2>3, <2>k, <3>1, <3>3 DEF Settles, SlotStatus
    <3>. QED  BY <3>2, <3>3
  <2>4. CASE Reconciles(e, cap[p])
    <3>1. Disposed'
      BY <1>t, <2>4 DEF Reconciles, Moves, Agreement, Disposed, Undispatched
    <3>. QED  BY <2>4, <2>k, <3>1 DEF Reconciles, SlotStatus
  <2>5. CASE Finishes(e)
    <3>1. op.auth = e /\ op.recon \in {"completed", "failed"} /\ slot[e] = op.recon
      BY <2>5, <2>h, CurrentState DEF Finishes, Agreement, StateMatchesLedger
    <3>2. Moves(e, op.recon)
      BY <1>t, <2>5, <3>1 DEF Finishes, Moves
    <3>3. Disposed'
      BY <2>5 DEF Finishes, Agreement, Disposed
    <3>. QED  BY <2>5, <2>h, <3>1, <3>2, <3>3, DoneAgreement DEF Finishes, Agreement
  <2>. QED  BY <1>3, <2>1, <2>2, <2>3, <2>4, <2>5 DEF HeadSteps
<1>. QED
  BY <1>1, <1>2, <1>3 DEF Transforms

\* ... and every other step.
LEMMA AgreementStep ==
    ASSUME LedgerTypeOK, TypeOK, HistoryGood, Agreement, [Next]_vars,
           \A p \in Procs : Committing(p) => Transforms(p)
    PROVE  Agreement'
<1>1. ASSUME UNCHANGED <<op, facts, slot>>, Disposed' PROVE Agreement'
  <2>1. Pending' = Pending
    BY <1>1 DEF Pending
  <2>. QED
    BY <1>1, <2>1 DEF Agreement, StateMatchesLedger, OneToolResult, PlansInOrder, Distinct
<1>2. UNCHANGED <<slot, appr>> => Disposed'
  BY DEF Agreement, Disposed
<1>3. ASSUME NEW p \in Procs, NEW decision \in {"approved", "denied"}, Decide(p, decision), UNCHANGED slot
      PROVE  Disposed'
  <2>1. HeadOf(p) \in Effects
    BY <1>3, OwnSegment, SegmentFields, HeadPlan DEF Decide
  <2>. QED  BY <1>3, <2>1, CoordinatorAssumption DEF Decide, Agreement, Disposed, TypeOK
<1>. QED
  BY <1>1, <1>2, <1>3, OnlyCommits, AgreementCommits

-----------------------------------------------------------------------------
(* What a segment does fits its snapshot.                                  *)

\* A step moves the current state only by a commit under the epoch in force.
Advances ==
    \/ UNCHANGED <<op, receipts>>
    \/ \E p \in Procs : Transforms(p) /\ cap[p] = lease.epoch

\* An input goes on to fit.
LEMMA InputKept ==
    ASSUME LedgerTypeOK, LedgerTypeOK', TypeOK, EpochNamesOwner, HistoryGood, Grows,
           Known \subseteq Known', Advances,
           NEW p \in Procs, InputFits(p), cap'[p] = cap[p],
           co'[p].input = co[p].input, co'[p].s = co[p].s, co'[p].at = co[p].at, co'[p].new = co[p].new
    PROVE  InputFits(p)'
<1>. DEFINE s == co[p].s
<1>1. /\ s \in Known /\ s \in States /\ s \in Known'
      /\ (s.plans # <<>> => Head(s.plans) \in Effects)
      /\ co[p].input \in {"approved", "denied"} => s.plans # <<>>
  BY KnownStates, StateFields, Plans, OwnSegment, SegmentFields DEF InputFits
<1>2. /\ cap[p] \in Nat /\ lease.epoch \in Nat /\ lease'.epoch \in Nat
      /\ cap[p] <= lease.epoch /\ lease.epoch <= lease'.epoch
  BY DEF LedgerTypeOK, EpochNamesOwner, Grows
<1>3. ASSUME co[p].input = "reconcile"
      PROVE  \/ s.rev = op'.rev
             \/ cap'[p] < lease'.epoch
             \/ \E u \in receipts' : u.id = <<"reconcile", Head(s.plans), cap[p]>>
  <2>1. CASE UNCHANGED <<op, receipts>>
    BY <1>2, <1>3, <2>1 DEF InputFits, Has
  <2>2. CASE cap[p] < lease.epoch
    BY <1>2, <2>2
  <2>3. CASE Has("reconcile", Head(s.plans), cap[p])
    BY <2>3 DEF Has, Grows
  <2>4. ASSUME NEW q \in Procs, Transforms(q), cap[q] = lease.epoch, s.rev = op.rev
        PROVE  cap'[p] < lease'.epoch \/ \E u \in receipts' : u.id = <<"reconcile", Head(s.plans), cap[p]>>
    <3>1. s = op /\ op.unknown /\ op.recon = "none" /\ op.plans # <<>> /\ op.auth # NoEffect
      BY <1>1, <1>3, <2>4, CurrentState DEF HistoryGood, StateGood, InputFits
    <3>2. PICK e \in Effects : HeadSteps(e, cap[q])
      BY <2>4, <3>1, CurrentState DEF Transforms, Admits, PlansCalls
    <3>3. Reconciles(e, cap[q]) /\ e = Head(op.plans)
      BY <3>1, <3>2 DEF HeadSteps, Denies, Authorizes, Settles, Finishes
    <3>4. \E u \in receipts' : u.id = <<"reconcile", Head(s.plans), cap[q]>>
      BY <3>1, <3>3 DEF Reconciles, Adds
    <3>5. CASE cap[p] = lease.epoch
      BY <2>4, <3>4, <3>5
    <3>6. CASE cap[p] # lease.epoch
      BY <1>2, <3>6
    <3>. QED  BY <3>5, <3>6
  <2>. QED  BY <1>3, <2>1, <2>2, <2>3, <2>4 DEF InputFits, Advances
<1>4. co[p].input = "approved" => FitsApproval(co[p], {"approved", "applied"})'
  BY <1>1 DEF InputFits, FitsApproval, Grows
<1>5. co[p].input = "denied" => FitsApproval(co[p], {"denied", "rejected"})'
  BY <1>1 DEF InputFits, FitsApproval, Grows
<1>6. co[p].input = "model" => s.model /\ co'[p].at = s.round + 1 /\ Planned(co[p])'
  BY DEF InputFits, Planned
<1>7. co[p].input = "reconcile" => \/ s.rev = op'.rev
                                   \/ cap'[p] < lease'.epoch
                                   \/ Has("reconcile", Head(co[p].s.plans), cap[p])'
  BY <1>3 DEF Has
<1>. QED
  BY <1>1, <1>4, <1>5, <1>6, <1>7 DEF InputFits

\* A segment that has nothing to commit that was observed before.
LEMMA InputFresh ==
    ASSUME NEW p \in Procs, co'[p].s \in Known', co'[p].input \in {"none", "settled", "resolved", "reconciled"}
    PROVE  InputFits(p)'
BY DEF InputFits

\* A segment that is over, and one that another process's step leaves alone.
LEMMA OffFits ==
    ASSUME NEW p \in Procs, co'[p] = Off
    PROVE  Fits(p)'
<1>1. co'[p].s = Admission /\ co'[p].input = "none" /\ co'[p].pc = "off"
  BY DEF Off
<1>2. Admission \in Known'
  BY DEF Known
<1>3. StageFits(p)'
  BY <1>1 DEF StageFits
<1>. QED
  BY <1>1, <1>2, <1>3, InputFresh DEF Fits

LEMMA FitsKept ==
    ASSUME LedgerTypeOK, LedgerTypeOK', TypeOK, EpochNamesOwner, HistoryGood, Grows,
           Known \subseteq Known', Advances,
           NEW p \in Procs, Fits(p), cap'[p] = cap[p], co'[p] = co[p],
           co[p].pc = "commit" => ex'[p] = ex[p]
    PROVE  Fits(p)'
<1>1. InputFits(p)'
  BY InputKept DEF Fits
<1>2. StageFits(p)'
  BY DEF Fits, StageFits
<1>. QED
  BY <1>1, <1>2 DEF Fits

\* A process acts for itself: the others keep segment, effect and epoch.
LEMMA ExecutionAlone ==
    ASSUME LedgerTypeOK, NEW p \in Procs, Execution(p)
    PROVE  /\ UNCHANGED cap /\ ex[p].pc \in Holding
           /\ \A q \in Procs : q # p => ex'[q] = ex[q]
<1>1. UNCHANGED cap /\ ex[p].pc \in Holding
  BY Stage DEF Execution, Withhold, LoadClaim, FailClaim, Reserve, MarkStarted, Quiesce, RunTool, SkipTool, FailQuiesce,
               ToolEnds, At
<1>2. \E pc, res : Now(p, pc, res)
  BY DEF Execution, Withhold, LoadClaim, FailClaim, Reserve, MarkStarted, Quiesce, RunTool, SkipTool, FailQuiesce, ToolEnds
<1>. QED
  BY <1>1, <1>2, ExNow DEF LedgerTypeOK, ExType

LEMMA SegmentAlone ==
    ASSUME LedgerTypeOK, TypeOK, NEW p \in Procs, Segment(p)
    PROVE  /\ UNCHANGED cap
           /\ \A q \in Procs : q # p => co'[q] = co[q] /\ ex'[q] = ex[q]
<1>t. co \in [Procs -> Segments] /\ ex \in [Procs -> ExType]
  BY DEF TypeOK, LedgerTypeOK, ExType
<1>1. CASE Yield(p) \/ Return(p) \/ Generate(p) \/ Block(p) \/ Dispatch(p) \/ ResolveApproval(p) \/ ApprovalStale(p)
           \/ StaleCut(p) \/ Executed(p) \/ ReplayDispatch(p)
  <2>1. UNCHANGED <<cap, ex>>
    BY <1>1 DEF Yield, Return, ApprovalStale, Quits, Generate, Block, Dispatch, ResolveApproval, StaleCut, Executed,
                ReplayDispatch, ledgerVars
  <2>2. \A q \in Procs : q # p => co'[q] = co[q]
    BY <1>1, <1>t DEF Yield, Return, ApprovalStale, Quits, Ends, Generate, Block, Goto, Dispatch, ResolveApproval, StaleCut,
                      Executed, ReplayDispatch
  <2>. QED  BY <2>1, <2>2
<1>2. CASE Propose(p) \/ FailSegment(p) \/ RecoverReplay(p)
  <2>1. UNCHANGED cap /\ \A q \in Procs : q # p => ex'[q] = ex[q]
    BY <1>2, <1>t DEF Propose, FailSegment, RecoverReplay, LoadCloseout, FailSettle, Recover, ledgerVars
  <2>2. \A q \in Procs : q # p => co'[q] = co[q]
    BY <1>2, <1>t DEF Propose, FailSegment, RecoverReplay, Goto, Ends
  <2>. QED  BY <2>1, <2>2
<1>3. CASE AdoptReplay(p) \/ Committing(p)
  <2>1. UNCHANGED cap /\ \A q \in Procs : q # p => ex'[q] = ex[q]
    BY <1>3, <1>t DEF AdoptReplay, FailSettle, Committing, CommitInitial, CommitModel, CommitDenial, CommitDispatch,
                      CommitSettlement, CommitReconciliation, CommitReconciled, Prepare, Reject, Authorize, Settle,
                      SettlementCommits, Reconcile, ledgerVars
  <2>2. \E answered, pc, input : Answer(p, answered, pc, input)
    BY <1>3 DEF AdoptReplay, Committing, CommitInitial, CommitModel, CommitDenial, CommitDispatch,
                CommitSettlement, CommitReconciliation, CommitReconciled
  <2>3. \A q \in Procs : q # p => co'[q] = co[q]
    BY <2>2, <1>t DEF Answer, Ends
  <2>. QED  BY <2>1, <2>3
<1>4. CASE Execute(p)
  BY <1>4, ExecutionAlone DEF Execute, runVars
<1>. QED
  BY <1>1, <1>2, <1>3, <1>4 DEF Segment

LEMMA OthersStay ==
    ASSUME LedgerTypeOK, TypeOK, NEW p \in Procs, RunNext(p), NEW q \in Procs, q # p
    PROVE  co'[q] = co[q] /\ ex'[q] = ex[q] /\ cap'[q] = cap[q]
<1>t. /\ co \in [Procs -> Segments] /\ ex \in [Procs -> ExType] /\ cap \in [Procs -> Nat]
  BY DEF TypeOK, LedgerTypeOK, ExType
<1>1. CASE Segment(p)
  BY <1>1, SegmentAlone
<1>2. CASE StartTurn(p) \/ ResumeTurn(p) \/ StartReconcile(p)
  BY <1>2, <1>t DEF StartTurn, ResumeTurn, StartReconcile, Begins, ledgerVars
<1>3. CASE Interrupt(p) \/ RaiseControl(p) \/ \E decision \in {"approved", "denied"} : Decide(p, decision)
  BY <1>3 DEF Interrupt, RaiseControl, Decide, ledgerVars
<1>4. CASE GrantSegment(p) \/ CrashSegment(p)
  BY <1>4, <1>t DEF GrantSegment, Grant, CrashSegment, Crash, CrashLedger, Ends, runVars
<1>5. CASE \E e \in Effects : Repair(p, e)
  BY <1>5 DEF Repair, Revoke, RecordEvidence, runVars
<1>. QED
  BY <1>1, <1>2, <1>3, <1>4, <1>5 DEF RunNext

\* The fields of a segment that goes on, and of one that a commit or a replay
\* starts anew.
LEMMA OnFields ==
    ASSUME TypeOK, NEW p \in Procs, NEW pc, Goto(p, pc)
    PROVE  /\ co'[p].pc = pc /\ co'[p].input = co[p].input /\ co'[p].s = co[p].s
           /\ co'[p].at = co[p].at /\ co'[p].new = co[p].new
<1>1. co[p] \in SegmentType /\ co \in [Procs -> Segments]
  BY OwnSegment, SegmentFields DEF TypeOK
<1>. QED
  BY <1>1 DEF Goto, SegmentType

LEMMA BeginsFields ==
    ASSUME TypeOK, NEW p \in Procs, NEW pc, NEW input, Begins(p, pc, input)
    PROVE  co'[p].pc = pc /\ co'[p].input = input /\ co'[p].s = op
<1>1. co'[p] = [Off EXCEPT !.pc = pc, !.input = input, !.s = op]
  BY DEF Begins, TypeOK
<1>. QED
  BY <1>1 DEF Off

LEMMA AnswerFields ==
    ASSUME TypeOK, NEW p \in Procs, NEW answered \in BOOLEAN, answered, NEW pc, NEW input, Answer(p, answered, pc, input)
    PROVE  co'[p].pc = pc /\ co'[p].input = input /\ co'[p].s = UnitOf(p).to
<1>1. co'[p] = [Off EXCEPT !.pc = pc, !.input = input, !.s = UnitOf(p).to, !.cut = co[p].cut]
  BY DEF Answer, TypeOK
<1>. QED
  BY <1>1 DEF Off

\* What a segment commits, other than an authorization or a reconciliation,
\* leaves no effect that is being dispatched.
LEMMA ActsFree ==
    ASSUME LedgerTypeOK, TypeOK, HistoryGood, NEW p \in Procs, Fits(p), InCommit(p),
           ~IsDispatch(p), co[p].input # "reconcile"
    PROVE  UnitOf(p).to.auth = NoEffect \/ UnitOf(p).to.unknown
<1>. DEFINE s == co[p].s
<1>1. /\ s \in States /\ s \in Known /\ StateGood(s) /\ ex[p].res \in Results
      /\ (s.model => s.plans = <<>>) /\ co[p].new \in Seq(Effects)
  BY OwnSegment, SegmentFields, StateFields DEF Fits, InputFits, HistoryGood, LedgerTypeOK
<1>2. PopPlan(s).auth = NoEffect /\ InitialState(s).auth = NoEffect /\ ModelState(s, co[p].new).auth = s.auth
  BY <1>1, ProposalFields
<1>3. SettledState(s, "lost").unknown = TRUE
  BY <1>1, StateFields DEF SettledState, StateType
<1>4. CASE co[p].input = "initial"
  BY <1>2, <1>4 DEF UnitOf, Unit
<1>5. CASE co[p].input = "model"
  <2>1. UnitOf(p).to = ModelState(s, co[p].new)
    BY <1>5 DEF UnitOf, Unit
  <2>2. s.auth = NoEffect
    BY <1>1, <1>5 DEF Fits, InputFits, StateGood
  <2>. QED  BY <1>2, <2>1, <2>2
<1>6. CASE co[p].input \in {"denied", "reconciled"}
  BY <1>2, <1>6 DEF UnitOf, Unit
<1>7. CASE co[p].input = "settled"
  <2>1. UnitOf(p).to = SettledState(s, ex[p].res)
    BY <1>7 DEF UnitOf, Unit
  <2>2. CASE ex[p].res = "lost"
    BY <1>3, <2>1, <2>2
  <2>3. CASE ex[p].res # "lost"
    BY <1>2, <2>1, <2>3 DEF SettledState
  <2>. QED  BY <2>2, <2>3
<1>8. co[p].input \in {"initial", "model", "denied", "reconciled", "settled"}
  BY OwnSegment, SegmentFields DEF SegmentType, Fits, StageFits, InCommit, IsDispatch
<1>. QED
  BY <1>4, <1>5, <1>6, <1>7, <1>8

\* A segment that begins fits.
LEMMA BeginsFits ==
    ASSUME TypeOK, HistoryGood, Known \subseteq Known', NEW p \in Procs,
           StartTurn(p) \/ ResumeTurn(p) \/ StartReconcile(p)
    PROVE  Fits(p)'
<1>1. op \in Known' /\ op' = op
  BY DEF HistoryGood, StartTurn, ResumeTurn, StartReconcile, Begins
<1>2. CASE StartTurn(p)
  <2>1. co'[p].pc = "step" /\ co'[p].input = "initial" /\ co'[p].s = op /\ op.rev = 0
    BY <1>2, BeginsFields DEF StartTurn
  <2>. QED  BY <1>1, <2>1 DEF Fits, InputFits, StageFits
<1>3. CASE ResumeTurn(p)
  <2>1. co'[p].pc = "waiting" /\ co'[p].input = "none" /\ co'[p].s = op /\ Head(op.plans) \in Gated
    BY <1>3, BeginsFields DEF ResumeTurn
  <2>. QED  BY <1>1, <2>1 DEF Fits, InputFits, StageFits
<1>4. CASE StartReconcile(p)
  <2>1. /\ co'[p].pc = "commit" /\ co'[p].input = "reconcile" /\ co'[p].s = op
        /\ op.unknown /\ op.recon = "none"
    BY <1>4, BeginsFields DEF StartReconcile
  <2>. QED  BY <1>1, <2>1 DEF Fits, InputFits, StageFits
<1>. QED
  BY <1>2, <1>3, <1>4

\* ... and so does one that goes on from what was committed: by it, or before.
LEMMA AnswerFits ==
    ASSUME LedgerTypeOK, TypeOK, HistoryGood, Known \subseteq Known', NEW p \in Procs, Fits(p),
           Committing(p) \/ AdoptReplay(p), UnitOf(p).to \in Known'
    PROVE  Fits(p)'
<1>1. InCommit(p)
  BY CommitStores DEF AdoptReplay
<1>2. PICK answered \in BOOLEAN, pc \in {"act", "executing", "step"}, input \in {"none", "settled", "resolved", "reconciled"} :
         /\ Answer(p, answered, pc, input)
         /\ pc = "act" => ~IsDispatch(p) /\ co[p].input # "reconcile"
  <2>1. CASE Committing(p)
    BY <2>1 DEF Committing, CommitInitial, CommitModel, CommitDenial, CommitDispatch,
                CommitSettlement, CommitReconciliation, CommitReconciled, IsDispatch
  <2>2. CASE AdoptReplay(p)
    BY <2>2 DEF AdoptReplay
  <2>. QED  BY <2>1, <2>2
<1>3. CASE answered
  <2>1. co'[p].pc = pc /\ co'[p].input = input /\ co'[p].s = UnitOf(p).to
    BY <1>2, <1>3, AnswerFields
  <2>2. pc = "act" => UnitOf(p).to.auth = NoEffect \/ UnitOf(p).to.unknown
    BY <1>1, <1>2, ActsFree
  <2>3. StageFits(p)'
    BY <2>1, <2>2 DEF StageFits
  <2>. QED  BY <2>1, <2>3, InputFresh DEF Fits
<1>4. CASE ~answered
  BY <1>2, <1>4, OffFits DEF Answer, Ends, TypeOK
<1>. QED
  BY <1>3, <1>4

\* A segment that takes its next action, or resolves an approval.
LEMMA ActingFits ==
    ASSUME LedgerTypeOK, LedgerTypeOK', TypeOK, EpochNamesOwner, HistoryGood, Grows,
           Known \subseteq Known', Advances, Disposed,
           NEW p \in Procs, Fits(p), UNCHANGED cap,
           Generate(p) \/ Block(p) \/ Dispatch(p) \/ ResolveApproval(p)
    PROVE  Fits(p)'
<1>. DEFINE s == co[p].s
<1>t. /\ co[p] \in SegmentType /\ co \in [Procs -> Segments] /\ s \in States /\ s \in Known /\ s \in Known'
      /\ s.round \in Nat /\ StateGood(s)
  BY OwnSegment, SegmentFields, StateFields DEF TypeOK, StateType, Fits, InputFits, HistoryGood
<1>1. CASE Generate(p)
  <2>1. PICK n \in 0..Len(Calls[s.round + 1]) :
           co' = [co EXCEPT ![p] = [co[p] EXCEPT !.pc = "step", !.input = "model", !.at = s.round + 1,
                                                 !.new = SubSeq(Calls[s.round + 1], 1, n)]]
    BY <1>1 DEF Generate
  <2>2. /\ co'[p].pc = "step" /\ co'[p].input = "model" /\ co'[p].s = s /\ co'[p].at = s.round + 1
        /\ co'[p].new = SubSeq(Calls[s.round + 1], 1, n)
    BY <1>t, <2>1 DEF SegmentType
  <2>3. s.model /\ s.round + 1 \in DOMAIN Calls
    <3>1. DOMAIN Calls = 1..Len(Calls) /\ Len(Calls) \in Nat
      BY CoordinatorAssumption, LenProperties
    <3>2. s.model /\ s.round < Len(Calls)
      BY <1>1 DEF Generate, MayGenerate, MaxRounds
    <3>. QED  BY <1>t, <3>1, <3>2
  <2>4. Planned(co[p])'
    BY <2>2, <2>3 DEF Planned
  <2>. QED  BY <1>t, <2>2, <2>3, <2>4 DEF Fits, InputFits, StageFits
<1>2. CASE Block(p)
  <2>1. /\ co'[p].pc = "waiting" /\ co'[p].input = co[p].input /\ co'[p].s = s
        /\ co'[p].at = co[p].at /\ co'[p].new = co[p].new
    BY <1>2, OnFields DEF Block
  <2>2. Head(s.plans) \in Gated
    BY <1>2 DEF Block, MayWait, MayDispatch, HeadOf
  <2>3. InputFits(p)'
    BY <2>1, InputKept DEF Fits
  <2>. QED  BY <2>1, <2>2, <2>3 DEF Fits, StageFits
<1>3. CASE Dispatch(p)
  <2>1. /\ co'[p].pc = "commit" /\ co'[p].s = s /\ co'[p].at = co[p].at /\ co'[p].new = co[p].new
        /\ co'[p].input = IF co[p].input = "approved" THEN "approved" ELSE "dispatch"
    BY <1>3, <1>t DEF Dispatch, SegmentType
  <2>2. /\ s.auth = NoEffect
        /\ co[p].input # "approved" => Head(s.plans) \notin Gated
    BY <1>3 DEF Dispatch, MayDispatch, HasPlan, Acting, HeadOf, Fits, StageFits
  <2>3. CASE co[p].input = "approved"
    <3>1. InputFits(p)'
      BY <2>1, <2>3, InputKept DEF Fits
    <3>. QED  BY <2>1, <2>3, <3>1 DEF Fits, StageFits
  <2>4. CASE co[p].input # "approved"
    BY <1>t, <2>1, <2>2, <2>4 DEF Fits, InputFits, StageFits
  <2>. QED  BY <2>3, <2>4
<1>4. CASE ResolveApproval(p)
  <2>. DEFINE e == Head(s.plans)
  <2>1. /\ co'[p].pc \in {"step", "act"} /\ co'[p].s = s
        /\ co'[p].input = appr[e] /\ appr[e] \in {"approved", "denied"} /\ appr' = appr
    BY <1>4, <1>t DEF ResolveApproval, HeadOf, SegmentType
  <2>2. e \in Gated
    BY <1>4 DEF ResolveApproval, Fits, StageFits
  <2>3. s.auth = NoEffect
    BY <1>t, <2>1, <2>2 DEF StateGood, Disposed
  <2>. QED  BY <1>t, <2>1, <2>2, <2>3 DEF Fits, InputFits, StageFits, FitsApproval
<1>. QED
  BY <1>1, <1>2, <1>3, <1>4

\* One that hands its input to the store, tries again, or follows an effect.
LEMMA WorkingFits ==
    ASSUME LedgerTypeOK, LedgerTypeOK', TypeOK, EpochNamesOwner, HistoryGood, Grows,
           Known \subseteq Known', Advances,
           NEW p \in Procs, Fits(p), UNCHANGED cap,
           Propose(p) \/ StaleCut(p) \/ Executed(p) \/ ReplayDispatch(p) \/ RecoverReplay(p) \/ Execute(p)
    PROVE  Fits(p)'
<1>. DEFINE s == co[p].s
<1>t. /\ co[p] \in SegmentType /\ co \in [Procs -> Segments] /\ s \in States /\ s \in Known /\ s \in Known'
      /\ ex \in [Procs -> ExType]
  BY OwnSegment, SegmentFields DEF TypeOK, LedgerTypeOK, ExType, Fits, InputFits
<1>1. CASE Propose(p)
  <2>1. /\ co'[p].pc = "commit" /\ co'[p].input = co[p].input /\ co'[p].s = s
        /\ co'[p].at = co[p].at /\ co'[p].new = co[p].new
    BY <1>1, OnFields DEF Propose
  <2>2. InputFits(p)'
    BY <2>1, InputKept DEF Fits
  <2>3. co[p].input \in {"initial", "model", "denied", "settled", "reconciled"}
    BY <1>1, OwnSegment, SegmentFields DEF Propose
  <2>4. ASSUME co[p].input = "settled"
        PROVE  /\ ex'[p].pc = "settling" /\ s.auth = ex'[p].e
               /\ s.recon = "none" /\ (s.unknown => ex'[p].res = "lost")
    <3>1. ex'[p].pc = "settling" /\ ex'[p].e = ex[p].e /\ ex'[p].res = ex[p].res
      BY <1>1, <1>t, <2>4 DEF Propose, LoadCloseout, Doing
    <3>. QED  BY <1>1, <2>4, <3>1 DEF Propose, Bound
  <2>5. co[p].input = "reconciled" => s.recon # "none"
    BY <1>1 DEF Propose, Bound
  <2>6. StageFits(p)'
    BY <2>1, <2>3, <2>4, <2>5 DEF StageFits
  <2>. QED  BY <2>2, <2>6 DEF Fits
<1>2. CASE StaleCut(p)
  <2>1. CASE Ends(p)
    BY <2>1, OffFits DEF Ends, TypeOK
  <2>2. CASE co' = [co EXCEPT ![p] = [co[p] EXCEPT !.cut = gen]]
    <3>1. /\ co'[p].pc = co[p].pc /\ co'[p].input = co[p].input /\ co'[p].s = s
          /\ co'[p].at = co[p].at /\ co'[p].new = co[p].new
      BY <1>t, <2>2 DEF SegmentType
    <3>2. InputFits(p)'
      BY <3>1, InputKept DEF Fits
    <3>3. StageFits(p)'
      BY <1>2, <3>1 DEF StaleCut, ledgerVars, Fits, StageFits
    <3>. QED  BY <3>2, <3>3 DEF Fits
  <2>. QED  BY <1>2, <2>1, <2>2 DEF StaleCut
<1>3. CASE Executed(p) \/ RecoverReplay(p)
  <2>1. /\ co'[p].pc = "step" /\ co'[p].input = co[p].input /\ co'[p].s = s
        /\ co[p].pc \in {"executing", "polling"}
    BY <1>3, OnFields DEF Executed, RecoverReplay
  <2>2. co[p].input = "settled"
    BY <2>1, OwnSegment, SegmentFields
  <2>3. StageFits(p)'
    BY <2>1 DEF StageFits
  <2>. QED  BY <1>t, <2>1, <2>2, <2>3, InputFresh DEF Fits
<1>4. CASE ReplayDispatch(p)
  <2>1. /\ co'[p].pc = "polling" /\ co'[p].input = "settled"
        /\ co'[p].s = IF op.auth = HeadOf(p) THEN op ELSE UnitOf(p).to
    <3>1. co'[p] = [Off EXCEPT !.pc = "polling", !.input = "settled",
                               !.s = IF op.auth = HeadOf(p) THEN op ELSE UnitOf(p).to]
      BY <1>4, <1>t DEF ReplayDispatch
    <3>. QED  BY <3>1 DEF Off
  <2>2. op \in Known' /\ UnitOf(p).to \in Known'
    BY <1>4 DEF ReplayDispatch, Replays, HistoryGood, Known
  <2>3. StageFits(p)'
    BY <2>1 DEF StageFits
  <2>. QED  BY <2>1, <2>2, <2>3, InputFresh DEF Fits
<1>5. CASE Execute(p)
  <2>1. co' = co /\ ex[p].pc \in Holding
    BY <1>5, ExecutionAlone DEF Execute, runVars
  <2>2. ex[p].pc # "settling"
    BY <2>1, Stage
  <2>3. InputFits(p)'
    BY <2>1, InputKept DEF Fits
  <2>4. StageFits(p)'
    BY <2>1, <2>2 DEF Fits, StageFits
  <2>. QED  BY <2>3, <2>4 DEF Fits
<1>. QED
  BY <1>1, <1>2, <1>3, <1>4, <1>5

\* Whatever a step does, every segment fits what it leaves.
LEMMA FitsStep ==
    ASSUME LedgerTypeOK, LedgerTypeOK', TypeOK, EpochNamesOwner, HistoryGood, Disposed, Grows,
           Known \subseteq Known', Advances, [Next]_vars,
           \A p \in Procs : Committing(p) => Transforms(p),
           \A p \in Procs : Fits(p)
    PROVE  \A p \in Procs : Fits(p)'
<1>. SUFFICES ASSUME NEW q \in Procs PROVE Fits(q)'
  OBVIOUS
<1>t. co \in [Procs -> Segments]
  BY DEF TypeOK
<1>1. CASE co'[q] = co[q] /\ ex'[q] = ex[q] /\ cap'[q] = cap[q]
  BY <1>1, FitsKept
<1>2. CASE LapseLease \/ (\E e \in Effects : ExpireReservation(e)) \/ UNCHANGED vars
  BY <1>1, <1>2 DEF LapseLease, Lapse, ExpireReservation, ReservationExpires, runVars, ledgerVars, vars
<1>3. ASSUME NEW p \in Procs, RunNext(p), p # q PROVE Fits(q)'
  BY <1>1, <1>3, OthersStay
<1>4. CASE RunNext(q)
  <2>1. CASE StartTurn(q) \/ ResumeTurn(q) \/ StartReconcile(q)
    BY <2>1, BeginsFits
  <2>2. CASE Segment(q)
    <3>1. UNCHANGED cap
      BY <2>2, SegmentAlone
    <3>2. CASE Generate(q) \/ Block(q) \/ Dispatch(q) \/ ResolveApproval(q)
      BY <3>1, <3>2, ActingFits
    <3>3. CASE Propose(q) \/ StaleCut(q) \/ Executed(q) \/ ReplayDispatch(q) \/ RecoverReplay(q) \/ Execute(q)
      BY <3>1, <3>3, WorkingFits
    <3>4. CASE Yield(q) \/ Return(q) \/ ApprovalStale(q) \/ FailSegment(q)
      <4>1. co'[q] = Off
        BY <1>t, <3>4 DEF Yield, Return, ApprovalStale, FailSegment, Quits, Ends
      <4>. QED  BY <4>1, OffFits
    <3>5. CASE Committing(q)
      <4>1. UnitOf(q).to \in Known'
        BY <3>5, CommitStores DEF Store, Known
      <4>. QED  BY <3>5, <4>1, AnswerFits
    <3>6. CASE AdoptReplay(q)
      <4>1. UnitOf(q).to \in Known'
        BY <3>6 DEF AdoptReplay, Replays, Known
      <4>. QED  BY <3>6, <4>1, AnswerFits
    <3>. QED  BY <2>2, <3>2, <3>3, <3>4, <3>5, <3>6 DEF Segment
  <2>3. CASE Interrupt(q) \/ RaiseControl(q) \/ \E decision \in {"approved", "denied"} : Decide(q, decision)
    BY <1>1, <2>3 DEF Interrupt, RaiseControl, Decide, ledgerVars
  <2>4. CASE GrantSegment(q)
    BY <2>4, OffFits DEF GrantSegment, runVars
  <2>5. CASE CrashSegment(q)
    BY <1>t, <2>5, OffFits DEF CrashSegment, Ends
  <2>6. CASE \E e \in Effects : Repair(q, e)
    BY <1>1, <2>6 DEF Repair, Revoke, RecordEvidence, runVars
  <2>. QED  BY <1>4, <2>1, <2>2, <2>3, <2>4, <2>5, <2>6 DEF RunNext
<1>. QED
  BY <1>2, <1>3, <1>4 DEF Next

-----------------------------------------------------------------------------
(* The invariant, and what it says.                                        *)

LEMMA RunInvInit == Init => RunInv
<1>. SUFFICES ASSUME Init PROVE RunInv
  OBVIOUS
<1>t. /\ op = Admission /\ receipts = {} /\ facts = [e \in Effects |-> <<>>] /\ appr = [e \in Effects |-> "none"]
      /\ co = [p \in Procs |-> Off] /\ slot = [e \in Effects |-> "none"]
  BY DEF Init, RunInit, LedgerInit
<1>1. HistoryGood
  <2>1. Known = {Admission}
    BY <1>t DEF Known
  <2>. QED  BY <1>t, <2>1 DEF HistoryGood, StateGood, Left, Admission
<1>2. Agreement
  <2>1. DOMAIN op.plans = {} /\ op.auth = NoEffect /\ op.recon = "none"
    BY <1>t, EmptySeq, LenProperties DEF Admission
  <2>2. Pending = {}
    BY <2>1 DEF Pending
  <2>3. StateMatchesLedger /\ OneToolResult
    BY <1>t, <2>1, <2>2 DEF StateMatchesLedger, OneToolResult
  <2>4. Disposed
    BY <1>t, CoordinatorAssumption DEF Disposed, Undispatched
  <2>5. PlansInOrder
    <3>1. \A r \in DOMAIN Calls : \A i \in DOMAIN Calls[r] : Calls[r][i] \in Effects
      BY CoordinatorAssumption, LenProperties
    <3>. QED  BY <1>t, <3>1 DEF PlansInOrder
  <2>. QED  BY <2>1, <2>3, <2>4, <2>5 DEF Agreement, Distinct
<1>3. ASSUME NEW p \in Procs PROVE Fits(p)
  <2>1. co[p].s = Admission /\ co[p].input = "none" /\ co[p].pc = "off"
    BY <1>t DEF Off
  <2>. QED  BY <2>1 DEF Fits, InputFits, StageFits, Known
<1>. QED
  BY <1>1, <1>2, <1>3 DEF RunInv

LEMMA RunInvStep ==
    ASSUME LedgerTypeOK, LedgerTypeOK', TypeOK, EpochNamesOwner, HeldIsDispatched, EvidenceIsReal,
           RunInv, [Next]_vars
    PROVE  RunInv'
<1>1. \A p \in Procs : Committing(p) => Transforms(p)
  BY Transition DEF RunInv
<1>2. \A p \in Procs : Committing(p) => cap[p] = lease.epoch
  BY CommitStores, FenceInForce DEF Swaps, Reaches
<1>3. Advances
  BY <1>1, <1>2, OnlyCommits DEF Advances
<1>4. Grows
  BY Growth
<1>5. HistoryGood' /\ Known \subseteq Known'
  BY <1>3, <1>4, HistoryStep DEF RunInv, Advances
<1>6. Agreement'
  BY <1>1, AgreementStep DEF RunInv
<1>7. \A p \in Procs : Fits(p)'
  BY <1>1, <1>3, <1>4, <1>5, FitsStep DEF RunInv, Agreement
<1>. QED
  BY <1>5, <1>6, <1>7 DEF RunInv

\* The ledger's invariants and the run's.
LEMMA RunInvariant == Spec => [](LedgerTypeOK /\ TypeOK /\ OnePermit /\ EpochNamesOwner /\ LedgerHistory /\ RunInv)
<1>1. LedgerTypeOK /\ LedgerTypeOK' /\ TypeOK /\ OneOwner /\ OnePermit /\ LedgerHistory /\ RunInv /\ [Next]_vars
         => RunInv'
  <2>. SUFFICES ASSUME LedgerTypeOK, LedgerTypeOK', TypeOK, OneOwner, OnePermit, LedgerHistory, RunInv, [Next]_vars
                PROVE  RunInv'
    OBVIOUS
  <2>1. EpochNamesOwner /\ HeldIsDispatched /\ EvidenceIsReal
    BY DEF OneOwner, OnePermit, LedgerHistory
  <2>. QED  BY <2>1, RunInvStep
<1>2. OneOwner => EpochNamesOwner
  BY DEF OneOwner
<1>3. Spec => [](LedgerTypeOK /\ TypeOK /\ OnePermit /\ OneOwner /\ LedgerHistory)
  BY RunsTheLedger, RunTypeCorrect, TypeCorrect, OnePermitOnly, OwnerPerEpoch, LedgerRemembers, PTL
<1>. QED
  BY <1>1, <1>2, <1>3, RunInvInit, PTL DEF Spec

\* The operation state and the effect ledger never disagree, whichever
\* segments race, die, replay or take over (StateMatchesLedger).
THEOREM StateAgreesWithLedger == Spec => []StateMatchesLedger
<1>1. RunInv => StateMatchesLedger
  BY DEF RunInv, Agreement
<1>. QED
  BY <1>1, RunInvariant, PTL

\* Every decided effect is told exactly once, with the outcome the ledger
\* holds, and no other effect is told (OneToolResult).
THEOREM ToldExactlyOnce == Spec => []OneToolResult
<1>1. RunInv => OneToolResult
  BY DEF RunInv, Agreement
<1>. QED
  BY <1>1, RunInvariant, PTL

\* An effect that requires approval is dispatched only by the transaction that
\* disposes of its approval, and a denied one never runs (ApprovalGate).
THEOREM GateHolds == Spec => []ApprovalGate
<1>1. LedgerTypeOK /\ TypeOK /\ OnePermit /\ EpochNamesOwner /\ LedgerHistory /\ RunInv => ApprovalGate
  <2>. SUFFICES ASSUME LedgerTypeOK, OnePermit, LedgerHistory, RunInv, NEW e \in Gated
                PROVE  /\ appr[e] = "applied" <=> slot[e] \notin {"none", "prepared", "rejected"}
                       /\ appr[e] = "rejected" <=> slot[e] = "rejected"
                       /\ ran[e] > 0 => appr[e] = "applied"
    BY DEF ApprovalGate
  <2>1. e \in Effects /\ ran[e] \in Nat
    BY CoordinatorAssumption DEF LedgerTypeOK
  <2>2. ran[e] > 0 => slot[e] \notin Undispatched
    BY <2>1 DEF OnePermit, UndispatchedIsFresh, LedgerHistory, RejectedNeverRan, Undispatched
  <2>. QED  BY <2>2 DEF RunInv, Agreement, Disposed, Undispatched
<1>. QED
  BY <1>1, RunInvariant, PTL

\* No tool is started before every earlier call of its round is decided and
\* told (RunInOrder).
THEOREM CallsRunInOrder == Spec => []RunInOrder
<1>1. LedgerTypeOK /\ TypeOK /\ OnePermit /\ EpochNamesOwner /\ LedgerHistory /\ RunInv => RunInOrder
  <2>. SUFFICES ASSUME LedgerTypeOK, TypeOK, OnePermit, RunInv,
                       NEW r \in DOMAIN Calls, NEW i \in DOMAIN Calls[r], NEW j \in DOMAIN Calls[r],
                       i < j, ran[Calls[r][j]] > 0
                PROVE  facts[Calls[r][i]] # <<>>
    BY DEF RunInOrder
  <2>. DEFINE e == Calls[r][j]
  <2>1. e \in Effects /\ slot[e] \notin {"none", "prepared"}
    <3>1. e \in Effects
      BY CoordinatorAssumption, LenProperties
    <3>. QED  BY <3>1 DEF LedgerTypeOK, OnePermit, UndispatchedIsFresh
  <2>2. SUFFICES ASSUME NEW k \in DOMAIN op.plans, NEW l \in DOMAIN op.plans, k < l, op.plans[l] = e
                 PROVE  FALSE
    BY <2>1 DEF RunInv, Agreement, PlansInOrder
  <2>3. e = op.auth
    BY <2>1, <2>2 DEF RunInv, Agreement, StateMatchesLedger, Pending
  <2>4. e = Head(op.plans) /\ op.plans # <<>>
    BY <2>1, <2>3, LedgerAssumption DEF RunInv, Agreement, StateMatchesLedger
  <2>5. op.plans \in Seq(Effects) /\ DOMAIN op.plans = 1..Len(op.plans) /\ Len(op.plans) \in Nat \ {0}
    BY <2>4, CurrentState, LenProperties, EmptySeq DEF RunInv
  <2>6. l = 1
    BY <2>2, <2>4, <2>5 DEF RunInv, Agreement, Distinct
  <2>. QED  BY <2>2, <2>5, <2>6
<1>. QED
  BY <1>1, RunInvariant, PTL

\* A segment whose snapshot is stale finds the receipt of its own transition
\* before the revisions are compared (NoCasConflict).
THEOREM SwapNeverDecides == Spec => []NoCasConflict
<1>1. LedgerTypeOK /\ TypeOK /\ OnePermit /\ EpochNamesOwner /\ LedgerHistory /\ RunInv => NoCasConflict
  <2>. SUFFICES ASSUME LedgerTypeOK, TypeOK, OnePermit, EpochNamesOwner, RunInv,
                       NEW p \in Procs, InCommit(p), Reaches(p), co[p].s.rev # op.rev
                PROVE  FALSE
    BY DEF NoCasConflict
  <2>. DEFINE s == co[p].s
  <2>1. /\ InputFits(p) /\ StageFits(p) /\ StateGood(s) /\ Left(s) /\ s \in States
        /\ co[p].pc = "commit" /\ Fence(p)
        /\ co[p].input \notin {"initial", "model"} => s.plans # <<>>
        /\ s.model => s.plans = <<>>
    BY OwnSegment, SegmentFields, StateFields DEF RunInv, Fits, InputFits, HistoryGood, InCommit, Reaches
  <2>2. \A u \in receipts : u.id # UnitOf(p).id
    BY DEF Reaches, Recorded
  <2>3. Disposed
    BY DEF RunInv, Agreement
  <2>4. CASE co[p].input = "initial"
    <3>1. UnitOf(p).id = <<"initial", NoEffect, 0>>
      BY <2>4 DEF UnitOf, Unit
    <3>2. s = Admission
      BY <2>1, <2>4 DEF InputFits, StateGood
    <3>. QED  BY <2>1, <2>2, <3>1, <3>2 DEF Left, Has, Admission
  <2>5. CASE co[p].input = "model"
    <3>1. UnitOf(p).id = <<"model", NoEffect, s.round + 1>> /\ s.model
      BY <2>1, <2>5 DEF InputFits, UnitOf, Unit
    <3>. QED  BY <2>1, <2>2, <3>1 DEF Left, Has, StateGood, Admission
  <2>6. CASE co[p].input = "denied"
    <3>1. UnitOf(p).id = <<"approval", Head(s.plans), 0>>
      BY <2>6 DEF UnitOf, Unit, HeadOf
    <3>2. s.plans # <<>> /\ s.auth = NoEffect /\ Head(s.plans) \in Gated /\ appr[Head(s.plans)] \in {"denied", "rejected"}
      BY <2>1, <2>6 DEF InputFits, FitsApproval
    <3>. QED  BY <2>1, <2>2, <2>3, <3>1, <3>2 DEF Left, Has, StateGood, Admission, Disposed
  <2>7. CASE IsDispatch(p)
    <3>1. UnitOf(p).id = <<"dispatch", Head(s.plans), s.rev>>
      BY <2>7 DEF IsDispatch, UnitOf, Unit, HeadOf
    <3>2. /\ s.plans # <<>> /\ s.auth = NoEffect
          /\ Head(s.plans) \in Gated => appr[Head(s.plans)] \in {"approved", "applied"}
      BY <2>1, <2>7 DEF IsDispatch, InputFits, FitsApproval
    <3>. QED  BY <2>1, <2>2, <3>1, <3>2 DEF Left, Has, StateGood, Admission
  <2>8. CASE co[p].input = "settled"
    <3>1. UnitOf(p).id = <<"settled", ex[p].e, 0>>
      BY <2>8 DEF UnitOf, Unit
    <3>2. s.plans # <<>> /\ s.auth = ex[p].e /\ s.auth # NoEffect /\ s.recon = "none"
      BY <2>1, <2>8, LedgerAssumption DEF StageFits, OnePermit, HeldIsDispatched
    <3>. QED  BY <2>1, <2>2, <3>1, <3>2 DEF Left, Has, StateGood, Admission
  <2>9. CASE co[p].input = "reconcile"
    <3>1. UnitOf(p).id = <<"reconcile", Head(s.plans), cap[p]>>
      BY <2>9 DEF UnitOf, Unit, HeadOf
    <3>2. cap[p] = lease.epoch /\ lease.epoch \in Nat
      BY <2>1, FenceInForce DEF LedgerTypeOK
    <3>. QED  BY <2>1, <2>2, <2>9, <3>1, <3>2 DEF InputFits, Has
  <2>10. CASE co[p].input = "reconciled"
    <3>1. UnitOf(p).id = <<"reconciled", Head(s.plans), 0>>
      BY <2>10 DEF UnitOf, Unit, HeadOf
    <3>2. s.plans # <<>> /\ s.recon # "none"
      BY <2>1, <2>10 DEF StageFits
    <3>. QED  BY <2>1, <2>2, <3>1, <3>2 DEF Left, Has, StateGood, Admission
  <2>11. co[p].input \in {"initial", "model", "approved", "denied", "dispatch", "settled", "reconcile", "reconciled"}
    BY <2>1, OwnSegment, SegmentFields DEF SegmentType, StageFits
  <2>. QED  BY <2>4, <2>5, <2>6, <2>7, <2>8, <2>9, <2>10, <2>11 DEF IsDispatch
<1>. QED
  BY <1>1, RunInvariant, PTL
=============================================================================
