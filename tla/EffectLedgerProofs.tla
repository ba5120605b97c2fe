-------------------------- MODULE EffectLedgerProofs --------------------------
(***************************************************************************)
(* Proofs about EffectLedger for any sets of processes and effects, any    *)
(* owner ids and any number of epochs.                                     *)
(***************************************************************************)
EXTENDS EffectLedger, TLAPS

ExType == [pc : Stages, e : Effects \cup {NoEffect}, res : Results, closeout : BOOLEAN]
AttType == [st : AttStatus, epoch : Nat, late : BOOLEAN]

-----------------------------------------------------------------------------
(* Type correctness.                                                       *)

\* The rest state, and what Doing makes, are states of a process.
LEMMA DoingType ==
    /\ Resting \in ExType
    /\ \A pc \in Stages, e \in Effects \cup {NoEffect}, res \in Results, c \in BOOLEAN :
          Doing(pc, e, res, c) \in ExType
BY DEF Resting, Doing, ExType, Stages, Holding, Claiming, Executing, Results

\* A process that goes on with its effect keeps the effect; the others stay.
LEMMA NowEffect ==
    ASSUME ex \in [Procs -> ExType], NEW p \in Procs,
           NEW pc \in Stages, NEW res \in Results, Now(p, pc, res)
    PROVE  /\ ex' \in [Procs -> ExType]
           /\ ex'[p].pc = pc /\ ex'[p].e = ex[p].e
           /\ \A q \in Procs : q # p => ex'[q] = ex[q]
<1>1. ex[p].e \in Effects \cup {NoEffect}
  BY DEF ExType
<1>2. Doing(pc, ex[p].e, res, FALSE) \in ExType
  BY <1>1, DoingType
<1>. QED
  BY <1>2 DEF Now, Doing

\* A transition of an attempt touches that attempt only.
LEMMA MarkEffect ==
    ASSUME att \in [Effects -> AttType], NEW e, NEW st \in AttStatus, NEW late \in BOOLEAN,
           Mark(e, st, late)
    PROVE  /\ att' \in [Effects -> AttType]
           /\ e \in Effects => att'[e].st = st
           /\ \A f \in Effects : f # e => att'[f] = att[f]
<1>1. ASSUME e \in Effects
      PROVE [st |-> st, epoch |-> att[e].epoch, late |-> late] \in AttType
  BY <1>1 DEF AttType
<1>. QED
  BY <1>1 DEF Mark

\* The stages and results that the actions name.
LEMMA Stage ==
    /\ Stages = {"permit", "loaded", "reserved", "unclaiming", "claimed", "running",
                 "quiescing", "idle", "done", "settling"}
    /\ Holding = {"permit", "loaded", "reserved", "unclaiming", "claimed", "running", "quiescing"}
    /\ Executing = {"claimed", "running"}
    /\ Results = {"ok", "fail", "lost"}
BY DEF Stages, Holding, Claiming, Executing, Results

\* Every action preserves the type invariant.
LEMMA TypeStep == LedgerTypeOK /\ [LedgerNext]_ledgerVars => LedgerTypeOK'
<1>. SUFFICES ASSUME LedgerTypeOK, [LedgerNext]_ledgerVars PROVE LedgerTypeOK'
  OBVIOUS
<1>. USE LedgerAssumption
<1>t. /\ ex \in [Procs -> ExType] /\ att \in [Effects -> AttType]
      /\ \A p \in Procs : ex[p].res \in Results /\ ex[p].e \in Effects \cup {NoEffect}
  BY DEF LedgerTypeOK, ExType, AttType
<1>u. ASSUME /\ ex' \in [Procs -> ExType] /\ att' \in [Effects -> AttType]
             /\ UNCHANGED <<lease, cap, slot, evid>> /\ ran' \in [Effects -> Nat]
      PROVE  LedgerTypeOK'
  BY <1>u DEF LedgerTypeOK, ExType, AttType
<1>1. CASE UNCHANGED ledgerVars
  BY <1>1 DEF LedgerTypeOK, ledgerVars
<1>2. CASE Lapse
  BY <1>2 DEF LedgerTypeOK, Lapse
<1>3. ASSUME NEW e \in Effects, ReservationExpires(e) PROVE LedgerTypeOK'
  <2>1. att' \in [Effects -> AttType]
    BY <1>3, <1>t, MarkEffect DEF ReservationExpires, AttStatus
  <2>. QED  BY <2>1, <1>t, <1>u, <1>3 DEF ReservationExpires, LedgerTypeOK
<1>4. ASSUME NEW p \in Procs, LedgerProcNext(p) PROVE LedgerTypeOK'
  <2>1. CASE Grant(p)
    BY <2>1 DEF LedgerTypeOK, Grant
  <2>2. CASE Crash(p)
    BY <2>2, <1>t, DoingType DEF LedgerTypeOK, Crash, CrashLedger, ExType
  <2>3. ASSUME NEW es \in SUBSET Effects, Prepare(p, es) PROVE LedgerTypeOK'
    BY <2>3 DEF LedgerTypeOK, Prepare, SlotStatus
  <2>4. ASSUME NEW e \in Effects, Reject(p, e) PROVE LedgerTypeOK'
    BY <2>4 DEF LedgerTypeOK, Reject, SlotStatus
  <2>5. ASSUME NEW e \in Effects, NEW answered \in BOOLEAN, Authorize(p, e, answered) PROVE LedgerTypeOK'
    <3>1. Doing("permit", e, "lost", FALSE) \in ExType
      BY DoingType, Stage
    <3>2. ex' \in [Procs -> ExType]
      BY <2>5, <3>1, <1>t DEF Authorize
    <3>3. att' \in [Effects -> AttType]
      BY <2>5, <1>t DEF Authorize, AttType, AttStatus, LedgerTypeOK
    <3>4. slot' \in [Effects -> SlotStatus]
      BY <2>5 DEF Authorize, SlotStatus, LedgerTypeOK
    <3>. QED  BY <2>5, <3>2, <3>3, <3>4 DEF Authorize, LedgerTypeOK, ExType, AttType
  <2>6. ASSUME NEW e \in Effects, NEW res \in Results, Recover(p, e, res) PROVE LedgerTypeOK'
    <3>1. Doing("done", e, res, FALSE) \in ExType
      BY DoingType, Stage
    <3>. QED  BY <2>6, <3>1, <1>t, <1>u DEF Recover, LedgerTypeOK
  <2>7. ASSUME NEW e \in Effects, Revoke(p, e) PROVE LedgerTypeOK'
    <3>1. att' \in [Effects -> AttType]
      BY <2>7, <1>t, MarkEffect DEF Revoke, AttStatus
    <3>. QED  BY <2>7, <3>1, <1>t, <1>u DEF Revoke, LedgerTypeOK
  <2>8. ASSUME NEW e \in Effects, Reconcile(p, e) PROVE LedgerTypeOK'
    BY <2>8 DEF LedgerTypeOK, Reconcile, SlotStatus
  <2>9. ASSUME NEW e \in Effects, NEW outcome \in {"completed", "failed"}, RecordEvidence(p, e, outcome)
        PROVE LedgerTypeOK'
    BY <2>9 DEF LedgerTypeOK, RecordEvidence
  <2>10. CASE Execution(p)
    <3>1. UNCHANGED <<lease, cap, slot, evid>>
      BY <2>10 DEF Execution, Withhold, LoadClaim, FailClaim, Reserve, MarkStarted, Quiesce,
                   RunTool, SkipTool, FailQuiesce, ToolEnds
    <3>2. ran' \in [Effects -> Nat]
      <4>1. CASE RunTool(p)
        <5>1. \A e \in Effects : ran[e] + 1 \in Nat
          BY DEF LedgerTypeOK
        <5>2. ran' = [ran EXCEPT ![ex[p].e] = ran[ex[p].e] + 1] /\ ran \in [Effects -> Nat]
          BY <4>1 DEF RunTool, LedgerTypeOK
        <5>. QED  BY <5>1, <5>2
      <4>2. CASE UNCHANGED ran
        BY <4>2 DEF LedgerTypeOK
      <4>. QED  BY <2>10, <4>1, <4>2 DEF Execution, Withhold, LoadClaim, FailClaim, Reserve,
                   MarkStarted, Quiesce, SkipTool, FailQuiesce, ToolEnds
    <3>3. \E pc \in Stages, res \in Results : Now(p, pc, res)
      <4>1. CASE \E answered \in BOOLEAN : Reserve(p, answered) \/ MarkStarted(p, answered)
        BY <4>1, Stage DEF Reserve, MarkStarted
      <4>2. CASE \E answered \in BOOLEAN : Quiesce(p, answered)
        BY <4>2, Stage, <1>t DEF Quiesce
      <4>3. CASE Withhold(p) \/ LoadClaim(p) \/ FailClaim(p) \/ RunTool(p) \/ SkipTool(p) \/ FailQuiesce(p)
        BY <4>3, Stage DEF Withhold, LoadClaim, FailClaim, RunTool, SkipTool, FailQuiesce
      <4>4. CASE \E res \in Results : ToolEnds(p, res)
        BY <4>4, Stage DEF ToolEnds
      <4>. QED  BY <2>10, <4>1, <4>2, <4>3, <4>4 DEF Execution
    <3>4. UNCHANGED att \/ \E st \in AttStatus : Mark(ex[p].e, st, FALSE)
      BY <2>10 DEF AttStatus, Execution, Withhold, LoadClaim, FailClaim, Reserve, MarkStarted, Quiesce,
                   RunTool, SkipTool, FailQuiesce, ToolEnds
    <3>5. ex' \in [Procs -> ExType]
      BY <3>3, <1>t, NowEffect
    <3>6. att' \in [Effects -> AttType]
      BY <3>4, <1>t, MarkEffect
    <3>. QED  BY <3>1, <3>2, <3>5, <3>6, <1>u
  <2>11. CASE LoadCloseout(p)
    <3>1. \A c \in BOOLEAN : Doing("settling", ex[p].e, ex[p].res, c) \in ExType
      BY DoingType, Stage, <1>t
    <3>. QED  BY <2>11, <3>1, <1>t, <1>u DEF LoadCloseout, LedgerTypeOK
  <2>12. CASE Settle(p)
    <3>1. att' \in [Effects -> AttType]
      BY <2>12, <1>t, MarkEffect DEF Settle, SettlementCommits, AttStatus
    <3>2. slot' \in [Effects -> SlotStatus]
      BY <2>12, <1>t DEF Settle, SettlementCommits, Outcome, SlotStatus, LedgerTypeOK
    <3>. QED  BY <2>12, <3>1, <3>2, DoingType, <1>t DEF Settle, SettlementCommits, LedgerTypeOK, ExType, AttType
  <2>13. CASE FailSettle(p)
    BY <2>13, <1>t, <1>u, DoingType DEF FailSettle, LedgerTypeOK
  <2>. QED
    BY <1>4, <2>1, <2>2, <2>3, <2>4, <2>5, <2>6, <2>7, <2>8, <2>9, <2>10, <2>11, <2>12, <2>13
    DEF LedgerProcNext
<1>. QED
  BY <1>1, <1>2, <1>3, <1>4 DEF LedgerNext

\* The initial ledger is well typed.
LEMMA TypeInit == LedgerInit => LedgerTypeOK
BY LedgerAssumption, DoingType DEF LedgerInit, LedgerTypeOK, NoAttempt, NoEvidence, SlotStatus, AttStatus, ExType

\* Type correctness of the ledger, its attempts and the executors.
THEOREM TypeCorrect == LedgerSpec => []LedgerTypeOK
BY TypeInit, TypeStep, PTL DEF LedgerSpec

-----------------------------------------------------------------------------
(* One permit per effect.                                                  *)

\* OnePermit holds of a ledger in which nothing was dispatched.
LEMMA PermitInit == LedgerInit => OnePermit
BY DEF LedgerInit, OnePermit, UndispatchedIsFresh, HeldIsDispatched, OneHolder, ExecutingIsStarted, NotYetRun,
       AtMostOnce, NoAttempt, Resting, Holding, Claiming, Executing

\* A process that holds no permit after its step, and touches neither slots
\* nor attempts, leaves OnePermit alone.
LEMMA WithoutPermit ==
    ASSUME OnePermit, NEW p \in Procs, UNCHANGED <<slot, att, ran>>,
           ex'[p].pc \notin Holding, ex'[p].pc # "idle" => ex'[p].e \in Effects,
           \A q \in Procs : q # p => ex'[q] = ex[q]
    PROVE  OnePermit'
<1>1. UndispatchedIsFresh' /\ AtMostOnce'
  BY DEF OnePermit, UndispatchedIsFresh, AtMostOnce
<1>2. HeldIsDispatched'
  BY DEF OnePermit, HeldIsDispatched
<1>3. OneHolder'
  BY DEF OnePermit, OneHolder
<1>4. ExecutingIsStarted' /\ NotYetRun'
  BY Stage DEF OnePermit, ExecutingIsStarted, NotYetRun
<1>. QED
  BY <1>1, <1>2, <1>3, <1>4 DEF OnePermit

\* The holder of a permit goes on with its effect, and only with it.
LEMMA WithPermit ==
    ASSUME OnePermit, NEW p \in Procs, ex[p].pc \in Holding, UNCHANGED slot,
           \A q \in Procs : q # p => ex'[q] = ex[q],
           \A f \in Effects : f # ex[p].e => att'[f] = att[f] /\ ran'[f] = ran[f],
           ex'[p].e = ex[p].e,
           ex'[p].pc \in Executing => att'[ex[p].e].st = "started",
           ex'[p].pc \in {"permit", "loaded", "reserved", "claimed"} => ran'[ex[p].e] = 0,
           ran'[ex[p].e] <= 1
    PROVE  OnePermit'
<1>0. ex[p].e \in Effects /\ slot[ex[p].e] \notin {"none", "prepared"}
  BY Stage DEF OnePermit, HeldIsDispatched
<1>1. UndispatchedIsFresh' /\ AtMostOnce'
  BY <1>0 DEF OnePermit, UndispatchedIsFresh, AtMostOnce
<1>2. HeldIsDispatched'
  BY <1>0 DEF OnePermit, HeldIsDispatched
<1>3. OneHolder'
  BY DEF OnePermit, OneHolder
<1>4. \A q \in Procs : ex[q].pc \in Holding /\ q # p => ex[q].e # ex[p].e /\ ex[q].e \in Effects
  BY Stage DEF OnePermit, OneHolder, HeldIsDispatched
<1>5. ExecutingIsStarted' /\ NotYetRun'
  BY <1>4, Stage DEF OnePermit, ExecutingIsStarted, NotYetRun
<1>. QED
  BY <1>1, <1>2, <1>3, <1>5 DEF OnePermit

\* The steps of the executor preserve OnePermit.
LEMMA ExecutionPermit ==
    ASSUME LedgerTypeOK, OnePermit, NEW p \in Procs, Execution(p)
    PROVE  OnePermit'
<1>t. /\ ex \in [Procs -> ExType] /\ att \in [Effects -> AttType] /\ ran \in [Effects -> Nat]
      /\ ex[p].res \in Results
  BY DEF LedgerTypeOK, ExType, AttType
<1>r. ex[p].pc \in Holding => ran[ex[p].e] <= 1 /\ ran[ex[p].e] \in Nat /\ ex[p].e \in Effects
  BY <1>t, Stage DEF OnePermit, AtMostOnce, HeldIsDispatched
<1>1. CASE Withhold(p) \/ FailQuiesce(p)
  <2>1. /\ ex'[p].pc = "done" /\ ex'[p].e \in Effects
        /\ \A q \in Procs : q # p => ex'[q] = ex[q]
    BY <1>1, <1>t, <1>r, Stage, NowEffect DEF Withhold, FailQuiesce, At
  <2>. QED  BY <1>1, <2>1, WithoutPermit, Stage DEF Withhold, FailQuiesce
<1>2. CASE LoadClaim(p) \/ FailClaim(p)
  <2>1. /\ ex[p].pc \in {"permit", "loaded", "reserved"}
        /\ ex'[p].pc \in {"loaded", "unclaiming"} /\ ex'[p].e = ex[p].e
        /\ \A q \in Procs : q # p => ex'[q] = ex[q]
    BY <1>2, <1>t, Stage, NowEffect DEF LoadClaim, FailClaim, At
  <2>2. ran[ex[p].e] = 0
    BY <2>1 DEF OnePermit, NotYetRun
  <2>. QED  BY <1>2, <2>1, <2>2, <1>r, WithPermit, Stage DEF LoadClaim, FailClaim
<1>3. CASE (\E res \in Results : ToolEnds(p, res)) \/ SkipTool(p)
  <2>1. /\ ex[p].pc \in {"claimed", "running"}
        /\ ex'[p].pc = "quiescing" /\ ex'[p].e = ex[p].e
        /\ \A q \in Procs : q # p => ex'[q] = ex[q]
    BY <1>3, <1>t, Stage, NowEffect DEF ToolEnds, SkipTool, At
  <2>. QED  BY <1>3, <2>1, <1>r, WithPermit, Stage DEF ToolEnds, SkipTool
<1>4. ASSUME NEW answered \in BOOLEAN, Reserve(p, answered) \/ MarkStarted(p, answered) PROVE OnePermit'
  <2>1. /\ ex[p].pc \in {"loaded", "reserved"} /\ UNCHANGED <<slot, ran>>
        /\ \/ ex'[p].pc \in {"reserved", "unclaiming"}
           \/ ex'[p].pc = "claimed" /\ Mark(ex[p].e, "started", FALSE)
        /\ ex'[p].e = ex[p].e /\ \A q \in Procs : q # p => ex'[q] = ex[q]
        /\ Mark(ex[p].e, "reserved", FALSE) \/ Mark(ex[p].e, "started", FALSE)
    BY <1>4, <1>t, Stage, NowEffect DEF Reserve, MarkStarted, At
  <2>2. ran[ex[p].e] = 0
    BY <2>1 DEF OnePermit, NotYetRun
  <2>3. ex[p].e \in Effects
    BY <2>1, <1>r, Stage
  <2>4. /\ \A f \in Effects : f # ex[p].e => att'[f] = att[f]
        /\ ex'[p].pc = "claimed" => att'[ex[p].e].st = "started"
    BY <2>1, <2>3, <1>t, MarkEffect DEF AttStatus
  <2>5. /\ ex[p].pc \in Holding
        /\ ran'[ex[p].e] = 0 /\ \A f \in Effects : f # ex[p].e => ran'[f] = ran[f]
        /\ ex'[p].pc \in Executing => ex'[p].pc = "claimed"
    BY <2>1, <2>2, Stage
  <2>. QED  BY <2>1, <2>4, <2>5, WithPermit
<1>5. CASE RunTool(p)
  <2>1. /\ ex[p].pc = "claimed" /\ ex'[p].pc = "running" /\ ex'[p].e = ex[p].e
        /\ \A q \in Procs : q # p => ex'[q] = ex[q]
    BY <1>5, <1>t, Stage, NowEffect DEF RunTool, At
  <2>2. ran[ex[p].e] = 0 /\ att[ex[p].e].st = "started" /\ ex[p].e \in Effects
    BY <2>1, <1>r, Stage DEF OnePermit, NotYetRun, ExecutingIsStarted
  <2>3. ran'[ex[p].e] = 1 /\ \A f \in Effects : f # ex[p].e => ran'[f] = ran[f]
    BY <2>2, <1>5, <1>t DEF RunTool
  <2>. QED  BY <2>1, <2>2, <2>3, <1>5, WithPermit, Stage DEF RunTool
<1>6. ASSUME NEW answered \in BOOLEAN, Quiesce(p, answered) PROVE OnePermit'
  <2>1. /\ ex[p].pc \in {"quiescing", "unclaiming"} /\ UNCHANGED <<slot, ran>>
        /\ ex'[p].pc = "done" /\ ex'[p].e = ex[p].e /\ \A q \in Procs : q # p => ex'[q] = ex[q]
    BY <1>6, <1>t, Stage, NowEffect DEF Quiesce, At
  <2>2. \A f \in Effects : f # ex[p].e => att'[f] = att[f]
    BY <1>6, <1>t, MarkEffect DEF Quiesce, AttStatus
  <2>. QED  BY <2>1, <2>2, <1>r, WithPermit, Stage
<1>. QED
  BY <1>1, <1>2, <1>3, <1>4, <1>5, <1>6 DEF Execution

\* Every action preserves OnePermit.
LEMMA PermitStep == LedgerTypeOK /\ OnePermit /\ [LedgerNext]_ledgerVars => OnePermit'
<1>. SUFFICES ASSUME LedgerTypeOK, OnePermit, [LedgerNext]_ledgerVars PROVE OnePermit'
  OBVIOUS
<1>t. /\ ex \in [Procs -> ExType] /\ att \in [Effects -> AttType]
      /\ slot \in [Effects -> SlotStatus] /\ ran \in [Effects -> Nat]
  BY DEF LedgerTypeOK, ExType, AttType
<1>. USE DEF OnePermit, UndispatchedIsFresh, HeldIsDispatched, OneHolder, ExecutingIsStarted, NotYetRun, AtMostOnce
<1>1. CASE UNCHANGED <<slot, att, ex, ran>>
  BY <1>1
<1>2. ASSUME NEW e \in Effects, ReservationExpires(e) PROVE OnePermit'
  <2>1. att'[e].st = "reserved" /\ \A f \in Effects : f # e => att'[f] = att[f]
    BY <1>2, <1>t, MarkEffect DEF ReservationExpires, AttStatus
  <2>. QED  BY <2>1, <1>2, Stage DEF ReservationExpires
<1>3. ASSUME NEW p \in Procs, LedgerProcNext(p) PROVE OnePermit'
  <2>1. CASE Crash(p)
    <3>1. ex'[p] = Resting /\ \A q \in Procs : q # p => ex'[q] = ex[q]
      BY <2>1, <1>t DEF Crash, CrashLedger
    <3>. QED  BY <3>1, <2>1, WithoutPermit, Stage DEF Crash, CrashLedger, Resting
  <2>2. ASSUME NEW es \in SUBSET Effects, Prepare(p, es) PROVE OnePermit'
    <3>1. \A e \in Effects : slot'[e] = slot[e] \/ (slot[e] = "none" /\ slot'[e] = "prepared")
      BY <2>2 DEF Prepare
    <3>. QED  BY <3>1, <2>2, Stage DEF Prepare
  <2>3. ASSUME NEW e \in Effects, Reject(p, e) PROVE OnePermit'
    <3>1. slot[e] = "prepared" /\ slot'[e] = "rejected" /\ \A f \in Effects : f # e => slot'[f] = slot[f]
      BY <2>3, <1>t DEF Reject
    <3>. QED  BY <3>1, <2>3, Stage DEF Reject
  <2>4. ASSUME NEW e \in Effects, NEW answered \in BOOLEAN, Authorize(p, e, answered) PROVE OnePermit'
    <3>1. slot[e] = "prepared" /\ slot'[e] = "dispatched" /\ \A f \in Effects : f # e => slot'[f] = slot[f]
      BY <2>4, <1>t DEF Authorize
    <3>2. att'[e].st = "authorized_unclaimed" /\ \A f \in Effects : f # e => att'[f] = att[f]
      BY <2>4, <1>t DEF Authorize
    <3>3. UNCHANGED ran /\ ran[e] = 0 /\ att[e].st = "none"
      BY <3>1, <2>4 DEF Authorize
    <3>4. \A q \in Procs : ex[q].pc \in Holding => ex[q].e # e
      BY <3>1
    <3>5. CASE UNCHANGED ex
      BY <3>1, <3>2, <3>3, <3>4, <3>5, Stage
    <3>6. CASE ex' = [ex EXCEPT ![p] = Doing("permit", e, "lost", FALSE)]
      <4>1. ex'[p].pc = "permit" /\ ex'[p].e = e /\ \A q \in Procs : q # p => ex'[q] = ex[q]
        BY <3>6, <1>t DEF Doing
      <4>. QED  BY <4>1, <3>1, <3>2, <3>3, <3>4, Stage
    <3>. QED  BY <2>4, <3>5, <3>6 DEF Authorize
  <2>5. ASSUME NEW e \in Effects, NEW res \in Results, Recover(p, e, res) PROVE OnePermit'
    <3>1. ex'[p].pc = "done" /\ ex'[p].e = e /\ \A q \in Procs : q # p => ex'[q] = ex[q]
      BY <2>5, <1>t DEF Recover, Doing
    <3>. QED  BY <3>1, <2>5, WithoutPermit, Stage DEF Recover
  <2>6. ASSUME NEW e \in Effects, Revoke(p, e) PROVE OnePermit'
    <3>1. att'[e].st = "quiescent" /\ \A f \in Effects : f # e => att'[f] = att[f]
      BY <2>6, <1>t, MarkEffect DEF Revoke, AttStatus
    <3>. QED  BY <3>1, <2>6, Stage DEF Revoke
  <2>7. ASSUME NEW e \in Effects, Reconcile(p, e) PROVE OnePermit'
    <3>1. /\ slot[e] = "unknown" /\ slot'[e] \notin {"none", "prepared"}
          /\ \A f \in Effects : f # e => slot'[f] = slot[f]
      BY <2>7, <1>t DEF Reconcile, MayReconcile, LedgerTypeOK
    <3>. QED  BY <3>1, <2>7, Stage DEF Reconcile
  <2>8. CASE Execution(p)
    BY <2>8, ExecutionPermit
  <2>9. CASE LoadCloseout(p)
    <3>1. ex'[p].pc = "settling" /\ ex'[p].e = ex[p].e /\ \A q \in Procs : q # p => ex'[q] = ex[q]
      BY <2>9, <1>t DEF LoadCloseout, Doing
    <3>2. ex[p].e \in Effects
      BY <2>9 DEF LoadCloseout, At
    <3>3. UNCHANGED <<slot, att, ran>> /\ ex'[p].pc \notin Holding
      BY <3>1, <2>9, Stage DEF LoadCloseout
    <3>. HIDE DEF OnePermit
    <3>. QED  BY <3>1, <3>2, <3>3, WithoutPermit
  <2>10. CASE Settle(p)
    <3>0. ex[p].e \in Effects /\ slot[ex[p].e] = "dispatched"
      BY <2>10 DEF Settle, SettlementCommits, At
    <3>1. /\ slot'[ex[p].e] \notin {"none", "prepared"}
          /\ \A f \in Effects : f # ex[p].e => slot'[f] = slot[f]
      BY <2>10, <3>0, <1>t DEF Settle, SettlementCommits, Outcome
    <3>2. ex'[p] = Resting /\ \A q \in Procs : q # p => ex'[q] = ex[q]
      BY <2>10, <1>t DEF Settle
    <3>3. CASE UNCHANGED att
      BY <3>0, <3>1, <3>2, <3>3, <2>10, Stage DEF Settle, SettlementCommits, Resting
    <3>4. CASE Mark(ex[p].e, "quiescent", FALSE) /\ att[ex[p].e].st = "authorized_unclaimed"
      <4>1. att'[ex[p].e].st = "quiescent" /\ \A f \in Effects : f # ex[p].e => att'[f] = att[f]
        BY <3>4, <3>0, <1>t, MarkEffect DEF AttStatus
      <4>. QED  BY <4>1, <3>0, <3>1, <3>2, <3>4, <2>10, Stage DEF Settle, SettlementCommits, Resting
    <3>. QED  BY <2>10, <3>3, <3>4 DEF Settle, SettlementCommits
  <2>11. CASE FailSettle(p)
    <3>1. ex'[p] = Resting /\ \A q \in Procs : q # p => ex'[q] = ex[q]
      BY <2>11, <1>t DEF FailSettle
    <3>. QED  BY <3>1, <2>11, WithoutPermit, Stage DEF FailSettle, Resting
  <2>12. CASE Grant(p) \/ \E e \in Effects, outcome \in {"completed", "failed"} : RecordEvidence(p, e, outcome)
    BY <2>12, <1>1 DEF Grant, RecordEvidence
  <2>. QED
    BY <1>3, <2>1, <2>2, <2>3, <2>4, <2>5, <2>6, <2>7, <2>8, <2>9, <2>10, <2>11, <2>12 DEF LedgerProcNext
<1>. QED
  BY <1>1, <1>2, <1>3 DEF LedgerNext, Lapse, ledgerVars

\* OnePermit is an invariant, together with the types it needs.
LEMMA PermitInvariant == LedgerSpec => [](LedgerTypeOK /\ OnePermit)
BY TypeInit, TypeStep, PermitInit, PermitStep, PTL DEF LedgerSpec

\* No tool is ever started twice: AtMostOnce for any number of processes,
\* takeovers, crashes, lost answers and recoveries.
THEOREM NoSecondRun == LedgerSpec => []AtMostOnce
<1>1. OnePermit => AtMostOnce
  BY DEF OnePermit
<1>. QED
  BY <1>1, PermitInvariant, PTL

\* A quiescent attempt is executed by nobody, however it became quiescent.
THEOREM DurableQuiescence == LedgerSpec => []QuiescentIsQuiet
<1>1. OnePermit => QuiescentIsQuiet
  BY DEF OnePermit, ExecutingIsStarted, QuiescentIsQuiet, Busy
<1>. QED
  BY <1>1, PermitInvariant, PTL

\* A reconciliation by a later owner never meets a running tool.
THEOREM TakeoverReconciliation == LedgerSpec => TakeoverReconcilesQuiet
<1> DEFINE Quiet == \A e \in Effects :
        slot[e] = "unknown" /\ slot'[e] # "unknown" /\ evid[e].epoch # att[e].epoch => ~Busy(e)
<1>1. LedgerTypeOK /\ OnePermit /\ [LedgerNext]_ledgerVars => [Quiet]_ledgerVars
  <2>. SUFFICES ASSUME LedgerTypeOK, OnePermit, LedgerNext, NEW e \in Effects,
                       slot[e] = "unknown", slot'[e] # "unknown", evid[e].epoch # att[e].epoch
                PROVE  ~Busy(e)
    BY DEF ledgerVars
  <2>t. slot \in [Effects -> SlotStatus]
    BY DEF LedgerTypeOK
  <2>1. \E p \in Procs : Reconcile(p, e)
    <3>1. PICK p \in Procs : LedgerProcNext(p)
      BY DEF LedgerNext, Lapse, ReservationExpires
    <3>2. CASE Grant(p) \/ Crash(p) \/ Execution(p) \/ LoadCloseout(p) \/ FailSettle(p)
      BY <3>2 DEF Grant, Crash, CrashLedger, Execution, Withhold, LoadClaim, FailClaim, Reserve, MarkStarted,
             RunTool, SkipTool, ToolEnds, Quiesce, FailQuiesce, LoadCloseout, FailSettle
    <3>3. CASE Settle(p) \/ \E es \in SUBSET Effects : Prepare(p, es)
      BY <2>t, <3>3 DEF Settle, SettlementCommits, Prepare
    <3>4. ASSUME NEW f \in Effects,
                 \/ Reject(p, f) \/ Revoke(p, f)
                 \/ \E answered \in BOOLEAN : Authorize(p, f, answered)
                 \/ \E res \in Results : Recover(p, f, res)
                 \/ \E outcome \in {"completed", "failed"} : RecordEvidence(p, f, outcome)
          PROVE  FALSE
      BY <2>t, <3>4 DEF Reject, Revoke, Authorize, Recover, RecordEvidence
    <3>5. ASSUME NEW f \in Effects, Reconcile(p, f) PROVE \E r \in Procs : Reconcile(r, e)
      <4>1. f = e
        BY <2>t, <3>5 DEF Reconcile
      <4>. QED  BY <3>5, <4>1
    <3>. QED
      BY <3>1, <3>2, <3>3, <3>4, <3>5 DEF LedgerProcNext
  <2>2. att[e].st # "started"
    BY <2>1 DEF Reconcile, MayReconcile
  <2>. QED
    BY <2>2 DEF OnePermit, ExecutingIsStarted, Busy
<1>. QED
  BY <1>1, PermitInvariant, PTL DEF LedgerSpec, TakeoverReconcilesQuiet

-----------------------------------------------------------------------------
(* One owner per epoch.                                                    *)

\* Two processes with the epoch in force are one, if one has an owner id of its own.
LEMMA InForce ==
    ASSUME EpochNamesOwner, NEW p \in Procs, Alone(p), NEW q \in Procs,
           cap[p] = lease.epoch, cap[q] = lease.epoch, cap[p] # 0
    PROVE  p = q
BY DEF EpochNamesOwner, Alone

\* A process whose write is accepted has the epoch in force.
LEMMA FenceInForce ==
    ASSUME EpochNamesOwner, NEW p \in Procs, Fence(p)
    PROVE  cap[p] = lease.epoch /\ cap[p] # 0
BY DEF EpochNamesOwner, Fence

\* Before any grant there is no epoch.
LEMMA OwnerInit == LedgerInit => OneOwner
BY DEF LedgerInit, OneOwner, EpochNamesOwner, SettledPermitIsOld, SettlesWhatIsQuiet, Resting, Pursuing, Executing

\* A step of p that leaves lease, epochs and slots alone.
LEMMA OwnerMove ==
    ASSUME LedgerTypeOK, OnePermit, OneOwner, NEW p \in Procs, UNCHANGED <<lease, cap, slot>>,
           \A q \in Procs : q # p => ex'[q] = ex[q],
           ex'[p].pc # "idle" => cap[p] # 0,
           ex'[p].pc \in Pursuing =>
              \/ ex'[p].pc \notin Executing /\ slot[ex'[p].e] = "dispatched"
              \/ /\ ex[p].pc \in Pursuing /\ ex'[p].e = ex[p].e
                 /\ ex'[p].pc \in Executing => ex[p].pc \in Executing \/ Fence(p),
           ex'[p].pc \in {"done", "settling"} =>
              \/ ex[p].pc \in Holding \cup {"done", "settling"} /\ ex'[p].e = ex[p].e
              \/ ex'[p].e \in Effects /\ att[ex'[p].e].st # "started"
    PROVE  OneOwner'
<1>1. EpochNamesOwner'
  BY DEF OneOwner, EpochNamesOwner
<1>2. SettledPermitIsOld'
  <2>. SUFFICES ASSUME NEW r \in Procs, Alone(r), ex'[r].pc \in Pursuing, slot[ex'[r].e] # "dispatched"
                PROVE  ex'[r].pc \notin Executing /\ cap[r] < lease.epoch
    BY DEF SettledPermitIsOld, Alone
  <2>1. CASE r # p
    BY <2>1 DEF OneOwner, SettledPermitIsOld, Alone
  <2>2. CASE r = p
    <3>1. ex[p].pc \notin Executing /\ cap[p] < lease.epoch
      BY <2>2 DEF OneOwner, SettledPermitIsOld, Alone
    <3>2. ~Fence(p)
      BY <3>1, FenceInForce DEF OneOwner, LedgerTypeOK
    <3>. QED  BY <2>2, <3>1, <3>2
  <2>. QED  BY <2>1, <2>2
<1>3. SettlesWhatIsQuiet'
  <2>. SUFFICES ASSUME NEW r \in Procs, Alone(r), NEW q \in Procs,
                       ex'[q].pc \in {"done", "settling"}, cap[q] = lease.epoch, ex'[r].pc \in Executing
                PROVE  ex'[r].e # ex'[q].e
    BY DEF SettlesWhatIsQuiet, Alone
  <2>0. r # q /\ ex'[r].pc \in Pursuing
    BY Stage DEF Pursuing
  <2>1. CASE r = p
    <3>1. cap[q] # 0 /\ ex'[q] = ex[q]
      BY <2>0, <2>1 DEF OneOwner, EpochNamesOwner
    <3>2. ~Fence(p)
      BY <2>0, <2>1, <3>1, FenceInForce, InForce DEF OneOwner
    <3>. QED  BY <2>0, <2>1, <3>1, <3>2 DEF OneOwner, SettlesWhatIsQuiet, Alone
  <2>2. CASE q = p
    <3>1. ex'[r] = ex[r] /\ att[ex[r].e].st = "started" /\ ex[r].pc \in Holding
      BY <2>0, <2>2, Stage DEF OnePermit, ExecutingIsStarted
    <3>2. CASE ex[p].pc \in Holding /\ ex'[p].e = ex[p].e
      BY <2>0, <2>2, <3>1, <3>2 DEF OnePermit, OneHolder
    <3>3. CASE ex[p].pc \in {"done", "settling"} /\ ex'[p].e = ex[p].e
      BY <2>0, <2>2, <3>1, <3>3 DEF OneOwner, SettlesWhatIsQuiet, Alone
    <3>. QED  BY <2>2, <3>1, <3>2, <3>3
  <2>3. CASE r # p /\ q # p
    BY <2>3 DEF OneOwner, SettlesWhatIsQuiet, Alone
  <2>. QED  BY <2>1, <2>2, <2>3
<1>. QED
  BY <1>1, <1>2, <1>3 DEF OneOwner

\* The steps of the executor preserve OneOwner.
LEMMA ExecutionOwner ==
    ASSUME LedgerTypeOK, OnePermit, OneOwner, NEW p \in Procs, Execution(p)
    PROVE  OneOwner'
<1>t. ex \in [Procs -> ExType] /\ ex[p].res \in Results
  BY DEF LedgerTypeOK, ExType
<1>u. UNCHANGED <<lease, cap, slot>>
  BY DEF Execution, Withhold, LoadClaim, FailClaim, Reserve, MarkStarted, Quiesce, RunTool, SkipTool, FailQuiesce, ToolEnds
<1>c. ex[p].pc # "idle" => cap[p] # 0
  BY DEF OneOwner, EpochNamesOwner
<1>. USE Stage
<1>1. CASE Withhold(p) \/ FailQuiesce(p) \/ \E answered \in BOOLEAN : Quiesce(p, answered)
  <2>1. /\ ex[p].pc \in Holding /\ ex'[p].pc = "done" /\ ex'[p].e = ex[p].e
        /\ \A q \in Procs : q # p => ex'[q] = ex[q]
    BY <1>1, <1>t, NowEffect DEF Withhold, FailQuiesce, Quiesce, At
  <2>. QED  BY <1>u, <1>c, <2>1, OwnerMove DEF Pursuing
<1>2. CASE \/ LoadClaim(p) \/ FailClaim(p) \/ SkipTool(p)
           \/ \E res \in Results : ToolEnds(p, res)
           \/ \E answered \in BOOLEAN : Reserve(p, answered)
  <2>1. /\ ex[p].pc \in Pursuing /\ ex'[p].pc \in {"loaded", "reserved", "unclaiming", "quiescing"}
        /\ ex'[p].e = ex[p].e /\ \A q \in Procs : q # p => ex'[q] = ex[q]
    BY <1>2, <1>t, NowEffect DEF LoadClaim, FailClaim, SkipTool, ToolEnds, Reserve, At, Pursuing
  <2>2. ex[p].pc # "idle" /\ ex'[p].pc \notin Executing
    BY <2>1 DEF Pursuing
  <2>. QED  BY <1>u, <1>c, <2>1, <2>2, OwnerMove
<1>3. CASE RunTool(p) \/ \E answered \in BOOLEAN : MarkStarted(p, answered)
  <2>1. /\ ex[p].pc \in Pursuing /\ ex'[p].pc \in {"claimed", "unclaiming", "running"}
        /\ ex'[p].e = ex[p].e /\ \A q \in Procs : q # p => ex'[q] = ex[q]
        /\ Fence(p) \/ ex[p].pc \in Executing
    BY <1>3, <1>t, NowEffect DEF RunTool, MarkStarted, At, Pursuing
  <2>2. ex[p].pc # "idle" /\ ex'[p].pc \notin {"done", "settling", "idle"}
    BY <2>1 DEF Pursuing
  <2>. QED  BY <1>u, <1>c, <2>1, <2>2, OwnerMove
<1>. QED
  BY <1>1, <1>2, <1>3 DEF Execution

\* A slot changes under the fence; its effect is pursued by nobody in force
\* and executed by nobody, unless it becomes dispatched.
LEMMA OwnerSlot ==
    ASSUME LedgerTypeOK, OnePermit, OneOwner, NEW e \in Effects, UNCHANGED <<lease, cap>>,
           \A f \in Effects : f # e => slot'[f] = slot[f],
           \A q \in Procs : /\ Alone(q) /\ ex'[q].pc \in Pursuing /\ ex'[q].e = e /\ slot'[e] # "dispatched"
                           => ex'[q].pc \notin Executing /\ cap[q] < lease.epoch,
           \A q \in Procs : \/ ex'[q] = ex[q] \/ ex'[q].pc = "idle"
                            \/ ex'[q].pc = "permit" /\ ex'[q].e = e /\ cap[q] # 0
    PROVE  OneOwner'
<1>1. EpochNamesOwner'
  BY DEF OneOwner, EpochNamesOwner
<1>2. SettledPermitIsOld'
  <2>. SUFFICES ASSUME NEW r \in Procs, Alone(r), ex'[r].pc \in Pursuing, slot'[ex'[r].e] # "dispatched"
                PROVE  ex'[r].pc \notin Executing /\ cap[r] < lease.epoch
    BY DEF SettledPermitIsOld, Alone
  <2>1. CASE ex'[r].e = e
    BY <2>1
  <2>2. CASE ex'[r].e # e
    <3>1. ex'[r] = ex[r]
      BY <2>2 DEF Pursuing
    <3>2. ex[r].e \in Effects
      BY <3>1 DEF OnePermit, HeldIsDispatched, Pursuing
    <3>. QED  BY <2>2, <3>1, <3>2 DEF OneOwner, SettledPermitIsOld, Alone
  <2>. QED  BY <2>1, <2>2
<1>3. SettlesWhatIsQuiet'
  BY Stage DEF OneOwner, SettlesWhatIsQuiet, Alone
<1>. QED
  BY <1>1, <1>2, <1>3 DEF OneOwner

\* Every action preserves OneOwner.
LEMMA OwnerStep == LedgerTypeOK /\ OnePermit /\ OneOwner /\ [LedgerNext]_ledgerVars => OneOwner'
<1>. SUFFICES ASSUME LedgerTypeOK, OnePermit, OneOwner, [LedgerNext]_ledgerVars PROVE OneOwner'
  OBVIOUS
<1>t. /\ ex \in [Procs -> ExType] /\ slot \in [Effects -> SlotStatus]
      /\ cap \in [Procs -> Nat] /\ lease.epoch \in Nat
  BY DEF LedgerTypeOK, ExType
<1>1. CASE UNCHANGED <<lease, cap, slot, ex>>
  BY <1>1 DEF OneOwner, EpochNamesOwner, SettledPermitIsOld, SettlesWhatIsQuiet, Alone
<1>2. CASE Lapse
  <2>1. /\ lease'.epoch = lease.epoch /\ lease'.owner = lease.owner /\ ~lease'.live
        /\ UNCHANGED <<cap, slot, ex>>
    BY <1>2 DEF Lapse, LedgerTypeOK
  <2>. QED  BY <2>1 DEF OneOwner, EpochNamesOwner, SettledPermitIsOld, SettlesWhatIsQuiet, Alone
<1>3. ASSUME NEW p \in Procs, LedgerProcNext(p) PROVE OneOwner'
  <2>1. CASE Grant(p)
    <3>1. /\ ex[p].pc = "idle" /\ UNCHANGED <<slot, ex>>
          /\ lease'.owner = OwnerOf[p] /\ lease'.epoch \in Nat /\ cap'[p] = lease'.epoch
          /\ \A q \in Procs : q # p => cap'[q] = cap[q]
          /\ \/ lease.live /\ lease'.epoch = lease.epoch /\ lease.owner = OwnerOf[p]
             \/ lease'.epoch = lease.epoch + 1
      BY <2>1, <1>t DEF Grant
    <3>2. lease'.epoch # 0 /\ lease.epoch <= lease'.epoch
      BY <3>1, <1>t DEF OneOwner, EpochNamesOwner
    <3>3. EpochNamesOwner'
      BY <3>1, <3>2, <1>t DEF OneOwner, EpochNamesOwner
    <3>4. SettledPermitIsOld'
      BY <3>1, <3>2, <1>t DEF OneOwner, SettledPermitIsOld, Pursuing, Alone
    <3>5. SettlesWhatIsQuiet'
      BY <3>1, <3>2, <1>t DEF OneOwner, SettlesWhatIsQuiet, EpochNamesOwner, Alone
    <3>. QED  BY <3>3, <3>4, <3>5 DEF OneOwner
  <2>2. CASE Crash(p)
    <3>1. /\ ex'[p].pc = "idle" /\ cap'[p] = 0 /\ UNCHANGED <<lease, slot>>
          /\ \A q \in Procs : q # p => ex'[q] = ex[q] /\ cap'[q] = cap[q]
      BY <2>2, <1>t DEF Crash, CrashLedger, Resting
    <3>2. EpochNamesOwner'
      BY <3>1, <1>t DEF OneOwner, EpochNamesOwner
    <3>3. SettledPermitIsOld'
      BY <3>1 DEF OneOwner, SettledPermitIsOld, Pursuing, Alone
    <3>4. SettlesWhatIsQuiet'
      BY <3>1, Stage DEF OneOwner, SettlesWhatIsQuiet, Alone
    <3>. QED  BY <3>2, <3>3, <3>4 DEF OneOwner
  <2>3. ASSUME NEW es \in SUBSET Effects, Prepare(p, es) PROVE OneOwner'
    <3>1. /\ \A e \in Effects : slot'[e] = slot[e] \/ slot[e] = "none"
          /\ UNCHANGED <<lease, cap, ex>>
      BY <2>3 DEF Prepare
    <3>2. \A q \in Procs : ex[q].pc \in Pursuing => slot'[ex[q].e] = slot[ex[q].e]
      BY <3>1, Stage DEF OnePermit, HeldIsDispatched, Pursuing
    <3>. QED  BY <3>1, <3>2 DEF OneOwner, EpochNamesOwner, SettledPermitIsOld, SettlesWhatIsQuiet, Alone
  <2>4. ASSUME NEW e \in Effects, Reject(p, e) PROVE OneOwner'
    <3>1. /\ slot[e] = "prepared" /\ \A f \in Effects : f # e => slot'[f] = slot[f]
          /\ UNCHANGED <<lease, cap, ex>>
      BY <2>4, <1>t DEF Reject
    <3>2. \A q \in Procs : ex'[q].pc \in Pursuing => ex'[q].e # e
      BY <3>1, Stage DEF OnePermit, HeldIsDispatched, Pursuing
    <3>. QED  BY <3>1, <3>2, OwnerSlot
  <2>5. ASSUME NEW e \in Effects, NEW answered \in BOOLEAN, Authorize(p, e, answered) PROVE OneOwner'
    <3>1. /\ slot'[e] = "dispatched" /\ \A f \in Effects : f # e => slot'[f] = slot[f]
          /\ UNCHANGED <<lease, cap>>
      BY <2>5, <1>t DEF Authorize
    <3>2. cap[p] # 0
      BY <2>5, FenceInForce DEF Authorize, OneOwner
    <3>3. \A q \in Procs : \/ ex'[q] = ex[q]
                           \/ ex'[q].pc = "permit" /\ ex'[q].e = e /\ cap[q] # 0
      BY <2>5, <3>2, <1>t DEF Authorize, Doing
    <3>. QED  BY <3>1, <3>3, OwnerSlot
  <2>6. ASSUME NEW e \in Effects, Reconcile(p, e) PROVE OneOwner'
    <3>1. /\ slot[e] = "unknown" /\ \A f \in Effects : f # e => slot'[f] = slot[f]
          /\ UNCHANGED <<lease, cap, ex>>
      BY <2>6, <1>t DEF Reconcile, MayReconcile
    <3>2. \A q \in Procs : Alone(q) /\ ex'[q].pc \in Pursuing /\ ex'[q].e = e
                           => ex'[q].pc \notin Executing /\ cap[q] < lease.epoch
      BY <3>1 DEF OneOwner, SettledPermitIsOld, Alone
    <3>. QED  BY <3>1, <3>2, OwnerSlot
  <2>7. CASE Settle(p)
    <3>1. /\ ex[p].pc = "settling" /\ ex[p].e \in Effects
          /\ \A f \in Effects : f # ex[p].e => slot'[f] = slot[f]
          /\ ex'[p].pc = "idle" /\ \A q \in Procs : q # p => ex'[q] = ex[q]
          /\ UNCHANGED <<lease, cap>>
      BY <2>7, <1>t DEF Settle, SettlementCommits, At, Resting, OnePermit, HeldIsDispatched
    <3>2. cap[p] = lease.epoch /\ cap[p] # 0
      BY <2>7, FenceInForce DEF Settle, SettlementCommits, OneOwner
    <3>3. ASSUME NEW q \in Procs, Alone(q), ex'[q].pc \in Pursuing, ex'[q].e = ex[p].e
          PROVE  ex'[q].pc \notin Executing /\ cap[q] < lease.epoch
      <4>1. q # p /\ ex'[q] = ex[q]
        BY <3>1, <3>3 DEF Pursuing
      <4>2. cap[q] # lease.epoch
        BY <4>1, <3>2, <3>3, InForce DEF OneOwner
      <4>3. cap[q] < lease.epoch
        BY <4>2, <1>t DEF OneOwner, EpochNamesOwner
      <4>. QED  BY <4>1, <4>3, <3>1, <3>2, <3>3 DEF OneOwner, SettlesWhatIsQuiet, Alone
    <3>. QED  BY <3>1, <3>3, OwnerSlot
  <2>8. ASSUME NEW e \in Effects, NEW res \in Results, Recover(p, e, res) PROVE OneOwner'
    <3>1. /\ ex'[p].pc = "done" /\ ex'[p].e = e /\ \A q \in Procs : q # p => ex'[q] = ex[q]
          /\ cap[p] # 0 /\ att[e].st # "started" /\ UNCHANGED <<lease, cap, slot>>
      BY <2>8, <1>t DEF Recover, Doing
    <3>. QED  BY <3>1, OwnerMove, Stage DEF Pursuing
  <2>9. CASE LoadCloseout(p)
    <3>1. /\ ex[p].pc = "done" /\ ex'[p].pc = "settling" /\ ex'[p].e = ex[p].e
          /\ \A q \in Procs : q # p => ex'[q] = ex[q]
          /\ UNCHANGED <<lease, cap, slot>>
      BY <2>9, <1>t DEF LoadCloseout, Doing, At
    <3>2. cap[p] # 0
      BY <3>1 DEF OneOwner, EpochNamesOwner
    <3>. QED  BY <3>1, <3>2, OwnerMove, Stage DEF Pursuing
  <2>10. CASE FailSettle(p)
    <3>1. /\ ex'[p].pc = "idle" /\ \A q \in Procs : q # p => ex'[q] = ex[q]
          /\ UNCHANGED <<lease, cap, slot>>
      BY <2>10, <1>t DEF FailSettle, Resting
    <3>. QED  BY <3>1, OwnerMove, Stage DEF Pursuing
  <2>11. CASE Execution(p)
    BY <2>11, ExecutionOwner
  <2>12. CASE \E e \in Effects : \/ Revoke(p, e)
                                 \/ \E outcome \in {"completed", "failed"} : RecordEvidence(p, e, outcome)
    BY <2>12, <1>1 DEF Revoke, RecordEvidence
  <2>. QED
    BY <1>3, <2>1, <2>2, <2>3, <2>4, <2>5, <2>6, <2>7, <2>8, <2>9, <2>10, <2>11, <2>12 DEF LedgerProcNext
<1>4. ASSUME NEW e \in Effects, ReservationExpires(e) PROVE OneOwner'
  BY <1>4, <1>1 DEF ReservationExpires
<1>. QED
  BY <1>1, <1>2, <1>3, <1>4 DEF LedgerNext, ledgerVars

\* OneOwner for every value of the constants.
THEOREM OwnerPerEpoch == LedgerSpec => []OneOwner
BY OwnerInit, OwnerStep, TypeInit, TypeStep, PermitInit, PermitStep, PTL DEF LedgerSpec

\* What has been settled, declared unknown or reconciled is not being executed
\* by a process that shares its owner id with nobody.
THEOREM SettledMeansQuiet == LedgerSpec => []SettledIsQuiet
<1>1. OnePermit /\ OneOwner => SettledIsQuiet
  BY Stage DEF OneOwner, SettledPermitIsOld, SettledIsQuiet, HeldIsDispatched, OnePermit, Pursuing, Alone
<1>. QED
  BY <1>1, OwnerPerEpoch, PermitInvariant, PTL

\* One permit per effect, for every number of processes and takeovers: see
\* OnePermit.
THEOREM OnePermitOnly == LedgerSpec => []OnePermit
BY PermitInvariant, PTL

\* The lease of the ledger is a SessionLease: see UsesLease.
THEOREM LeaseUsed == LedgerSpec => UsesLease
<1> DEFINE seen == IF lease.live THEN lease.owner ELSE NoOwner
<1>1. LedgerInit => Lease!LeaseInit
  BY DEF LedgerInit, Lease!LeaseInit
<1>2. LedgerTypeOK /\ [LedgerNext]_ledgerVars
        => [Lease!Begin \/ Lease!End \/ Lease!Write]_(Lease!leaseVars)
  <2> SUFFICES ASSUME LedgerTypeOK, [LedgerNext]_ledgerVars
               PROVE  Lease!Begin \/ Lease!End \/ UNCHANGED <<seen, lease.epoch>>
    BY DEF Lease!leaseVars
  <2>1. ASSUME NEW p \in Procs, Grant(p)
        PROVE  Lease!Begin \/ UNCHANGED <<seen, lease.epoch>>
    BY <2>1, LedgerAssumption DEF Grant, Lease!Begin, LedgerTypeOK
  <2>2. CASE Lapse
    BY <2>2 DEF Lapse, Lease!End, LedgerTypeOK
  <2>3. CASE ~Lapse /\ ~\E p \in Procs : Grant(p)
    <3>1. ASSUME NEW p \in Procs, Execution(p) PROVE UNCHANGED lease
      BY <3>1 DEF Execution, Withhold, LoadClaim, FailClaim, Reserve, MarkStarted, Quiesce,
                  RunTool, SkipTool, FailQuiesce, ToolEnds
    <3>2. ASSUME NEW p \in Procs, NEW e \in Effects, NEW res, NEW answered, NEW outcome,
                 \/ Reject(p, e) \/ Authorize(p, e, answered) \/ Recover(p, e, res) \/ Revoke(p, e)
                 \/ Reconcile(p, e) \/ RecordEvidence(p, e, outcome) \/ ReservationExpires(e)
          PROVE  UNCHANGED lease
      BY <3>2 DEF Reject, Authorize, Recover, Revoke, Reconcile, RecordEvidence, ReservationExpires
    <3>3. ASSUME NEW p \in Procs, NEW es,
                 Prepare(p, es) \/ Crash(p) \/ LoadCloseout(p) \/ Settle(p) \/ FailSettle(p)
          PROVE  UNCHANGED lease
      BY <3>3 DEF Prepare, Crash, CrashLedger, LoadCloseout, Settle, SettlementCommits, FailSettle
    <3>4. CASE UNCHANGED ledgerVars
      BY <3>4 DEF ledgerVars
    <3>5. CASE \E e \in Effects : ReservationExpires(e)
      BY <3>5 DEF ReservationExpires
    <3>6. CASE \E p \in Procs : LedgerProcNext(p)
      <4>1. PICK p \in Procs : LedgerProcNext(p)
        BY <3>6
      <4> QED
        BY <2>3, <3>1, <3>2, <3>3, <4>1, Zenon DEF LedgerProcNext
    <3> QED
      BY <2>3, <3>4, <3>5, <3>6 DEF LedgerNext
  <2> QED
    BY <2>1, <2>2, <2>3
<1> QED
  BY <1>1, <1>2, TypeCorrect, PTL DEF LedgerSpec, UsesLease, Lease!LeaseSpec
=============================================================================
