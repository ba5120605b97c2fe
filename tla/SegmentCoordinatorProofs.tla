----------------------- MODULE SegmentCoordinatorProofs -----------------------
(***************************************************************************)
(* Whatever the coordinator does with its segments, approvals, replays and *)
(* reconciliations, the effect ledger sees only steps of EffectLedger      *)
(* (RunsTheLedger).  So what is proved of the ledger holds of every run.   *)
(* The refinement needs to know that a segment that prepares, rejects,     *)
(* authorizes, recovers or reconciles has an effect to do that with, and   *)
(* this is what TypeOK, an inductive invariant, says of segments.          *)
(***************************************************************************)
EXTENDS SegmentCoordinator, EffectLedgerProofs, SequenceTheorems

-----------------------------------------------------------------------------
(* Types of states and units.                                              *)

StateType ==
    [rev : Nat, round : Nat, plans : Seq(Effects), auth : Effects \cup {NoEffect},
     unknown : BOOLEAN, recon : {"none", "completed", "failed", "unknown"}, model : BOOLEAN]

\* What there is to know of the plans of a state.
LEMMA Plans ==
    ASSUME NEW s \in Seq(Effects), s # <<>>
    PROVE  /\ Head(s) \in Effects
           /\ Tail(s) \in Seq(Effects)
           /\ Len(s) = 1 => Tail(s) = <<>>
<1>1. /\ Head(s) \in Effects /\ Tail(s) \in Seq(Effects) /\ Len(Tail(s)) = Len(s) - 1
  BY HeadTailProperties
<1>2. Tail(s) # <<>> => Len(Tail(s)) # 0
  BY <1>1, EmptySeq
<1> QED
  BY <1>1, <1>2

\* The empty sequence of plans, and the state a run is admitted in.
LEMMA AdmissionType == <<>> \in Seq(Effects) /\ Admission \in States /\ Off \in Segments
<1>1. <<>> \in Seq(Effects)
  BY EmptySeq
<1>2. Admission \in States
  BY <1>1 DEF Admission, States
<1>3. Off \in Segments
  BY <1>1, <1>2 DEF Off, Segments
<1> QED
  BY <1>1, <1>2, <1>3

\* A record of the right type is a state if it has plans for its markers.
LEMMA StateFields ==
    ASSUME NEW s \in States
    PROVE  /\ s \in StateType
           /\ s.rev + 1 \in Nat /\ s.round + 1 \in Nat /\ s.plans \in Seq(Effects)
           /\ s.unknown \in BOOLEAN /\ s.model \in BOOLEAN
           /\ s.recon \in {"none", "completed", "failed", "unknown"}
           /\ s.unknown \/ s.recon # "none" => s.plans # <<>>
           /\ s.model => s.plans = <<>>
BY DEF States, StateType

LEMMA IsState ==
    ASSUME NEW s \in StateType,
           s.unknown \/ s.recon # "none" => s.plans # <<>>,
           s.model => s.plans = <<>>
    PROVE  s \in States
BY DEF States, StateType

\* Every proposal of the engine is a state.
LEMMA ProposalTypes ==
    ASSUME NEW s \in States
    PROVE  /\ InitialState(s) \in States
           /\ \A new \in Seq(Effects) : s.model => ModelState(s, new) \in States
           /\ s.plans # <<>> =>
                 /\ PopPlan(s) \in States
                 /\ \A res \in Results : SettledState(s, res) \in States
                 /\ AuthorizedState(s) \in States /\ AuthorizedState(s).auth \in Effects
                 /\ \A outcome \in {"completed", "failed", "unknown"} : ReconciledState(s, outcome) \in States
<1> USE StateFields
<1>1. InitialState(s) \in States
  <2>1. Admission \in StateType
    BY AdmissionType
  <2>2. InitialState(s) \in StateType
    BY <2>1, Zenon DEF InitialState, StateType
  <2>3. /\ InitialState(s).unknown = FALSE /\ InitialState(s).recon = "none"
        /\ InitialState(s).plans = <<>>
    BY DEF InitialState, Admission
  <2> QED
    BY <2>2, <2>3, IsState
<1>2. ASSUME NEW new \in Seq(Effects), s.model
      PROVE  ModelState(s, new) \in States
  <2>1. ModelState(s, new) \in StateType
    BY Zenon DEF ModelState, StateType
  <2>2. /\ ModelState(s, new).unknown = s.unknown /\ ModelState(s, new).recon = s.recon
        /\ ModelState(s, new).model = FALSE
    BY DEF ModelState, StateType
  <2> QED
    BY <1>2, <2>1, <2>2, IsState
<1>3. ASSUME s.plans # <<>>
      PROVE  PopPlan(s) \in States
  <2>1. /\ Tail(s.plans) \in Seq(Effects)
        /\ Len(s.plans) = 1 => Tail(s.plans) = <<>>
    BY <1>3, Plans
  <2>2. PopPlan(s) \in StateType
    BY <2>1, Zenon DEF PopPlan, StateType
  <2>3. /\ PopPlan(s).unknown = FALSE /\ PopPlan(s).recon = "none"
        /\ PopPlan(s).model = (Len(s.plans) = 1) /\ PopPlan(s).plans = Tail(s.plans)
    BY DEF PopPlan, StateType
  <2> QED
    BY <2>1, <2>2, <2>3, IsState
<1>4. ASSUME s.plans # <<>>, NEW res \in Results
      PROVE  SettledState(s, res) \in States
  <2>1. [s EXCEPT !.rev = @ + 1, !.unknown = TRUE] \in StateType
    BY Zenon DEF StateType
  <2>2. /\ [s EXCEPT !.rev = @ + 1, !.unknown = TRUE].plans = s.plans
        /\ [s EXCEPT !.rev = @ + 1, !.unknown = TRUE].model = s.model
    BY DEF StateType
  <2>3. [s EXCEPT !.rev = @ + 1, !.unknown = TRUE] \in States
    BY <1>4, <2>1, <2>2, IsState
  <2> QED
    BY <1>3, <1>4, <2>3 DEF SettledState
<1>5. ASSUME s.plans # <<>>
      PROVE  AuthorizedState(s) \in States /\ AuthorizedState(s).auth \in Effects
  <2>1. Head(s.plans) \in Effects
    BY <1>5, Plans
  <2>2. AuthorizedState(s) \in StateType
    BY <2>1, Zenon DEF AuthorizedState, StateType
  <2>3. /\ AuthorizedState(s).plans = s.plans /\ AuthorizedState(s).model = s.model
        /\ AuthorizedState(s).auth = Head(s.plans)
    BY DEF AuthorizedState, StateType
  <2> QED
    BY <1>5, <2>1, <2>2, <2>3, IsState
<1>6. ASSUME s.plans # <<>>, NEW outcome \in {"completed", "failed", "unknown"}
      PROVE  ReconciledState(s, outcome) \in States
  <2>1. ReconciledState(s, outcome) \in StateType
    BY Zenon DEF ReconciledState, StateType
  <2>2. ReconciledState(s, outcome).plans = s.plans /\ ReconciledState(s, outcome).model = s.model
    BY DEF ReconciledState, StateType
  <2> QED
    BY <1>6, <2>1, <2>2, IsState
<1> QED
  BY <1>1, <1>2, <1>3, <1>4, <1>5, <1>6

-----------------------------------------------------------------------------
(* Types of segments.                                                      *)

SegmentType ==
    [pc : {"off", "step", "act", "waiting", "commit", "executing", "polling"},
     input : {"none", "initial", "model", "approved", "denied", "dispatch", "settled",
              "resolved", "reconcile", "reconciled"},
     s : States, cut : Nat, at : Nat, new : Seq(Effects)]

\* The parts of a segment.
LEMMA SegmentFields ==
    ASSUME NEW c \in Segments
    PROVE  /\ c \in SegmentType
           /\ c.s \in States /\ c.cut \in Nat /\ c.at \in Nat /\ c.new \in Seq(Effects)
           /\ c.pc = "step" => c.input \in {"initial", "model", "denied", "settled", "reconciled"}
           /\ c.pc = "waiting" => c.s.plans # <<>>
           /\ c.input \in {"approved", "denied"} => c.s.plans # <<>>
           /\ c.pc = "commit" /\ c.input \notin {"initial", "model"} => c.s.plans # <<>>
           /\ c.pc = "commit" /\ c.input = "model" => c.s.model
           /\ c.pc \in {"executing", "polling"} => c.input = "settled"
           /\ c.pc = "polling" => c.s.auth \in Effects
BY DEF Segments, SegmentType

LEMMA IsSegment ==
    ASSUME NEW c \in SegmentType,
           c.pc = "step" => c.input \in {"initial", "model", "denied", "settled", "reconciled"},
           c.pc = "waiting" => c.s.plans # <<>>,
           c.input \in {"approved", "denied"} => c.s.plans # <<>>,
           c.pc = "commit" /\ c.input \notin {"initial", "model"} => c.s.plans # <<>>,
           c.pc = "commit" /\ c.input = "model" => c.s.model,
           c.pc \in {"executing", "polling"} => c.input = "settled",
           c.pc = "polling" => c.s.auth \in Effects
    PROVE  c \in Segments
BY DEF Segments, SegmentType

\* A process's segment, and one that takes its place.
LEMMA OwnSegment ==
    ASSUME TypeOK, NEW p \in Procs
    PROVE  co[p] \in Segments
BY DEF TypeOK

LEMMA NewSegment ==
    ASSUME TypeOK, NEW p \in Procs, NEW c \in Segments, co' = [co EXCEPT ![p] = c]
    PROVE  co' \in [Procs -> Segments]
BY DEF TypeOK

\* The head plan of a segment that has one.
LEMMA HeadPlan ==
    ASSUME TypeOK, NEW p \in Procs, co[p].s.plans # <<>>
    PROVE  HeadOf(p) \in Effects
BY OwnSegment, SegmentFields, StateFields, Plans DEF HeadOf

\* A segment that ends, and one that goes on to another stage.
LEMMA EndsType ==
    ASSUME TypeOK, NEW p \in Procs, Ends(p)
    PROVE  co' \in [Procs -> Segments]
BY NewSegment, AdmissionType DEF Ends

LEMMA GotoType ==
    ASSUME TypeOK, NEW p \in Procs, NEW pc \in {"step", "waiting", "commit"}, Goto(p, pc),
           pc = "step" => co[p].input \in {"initial", "model", "denied", "settled", "reconciled"},
           pc = "waiting" => co[p].s.plans # <<>>,
           pc = "commit" /\ co[p].input \notin {"initial", "model"} => co[p].s.plans # <<>>,
           pc = "commit" /\ co[p].input = "model" => co[p].s.model
    PROVE  co' \in [Procs -> Segments]
<1> DEFINE c == [co[p] EXCEPT !.pc = pc]
<1>1. co[p] \in SegmentType /\ (co[p].input \in {"approved", "denied"} => co[p].s.plans # <<>>)
  BY OwnSegment, SegmentFields
<1>2. c \in SegmentType /\ c.pc = pc /\ c.input = co[p].input /\ c.s = co[p].s
  BY <1>1 DEF SegmentType
<1>3. c \in Segments
  BY <1>1, <1>2, IsSegment
<1> QED
  BY <1>3, NewSegment DEF Goto

\* A fresh segment, with a state to start from.
LEMMA FreshSegment ==
    ASSUME NEW pc \in {"step", "act", "waiting", "commit", "executing", "polling"},
           NEW input \in {"none", "initial", "settled", "resolved", "reconcile", "reconciled"},
           NEW s \in States, NEW cut \in Nat,
           pc = "step" => input \in {"initial", "settled", "reconciled"},
           pc \in {"waiting", "commit"} => s.plans # <<>>,
           pc \in {"executing", "polling"} => input = "settled",
           pc = "polling" => s.auth \in Effects
    PROVE  /\ [Off EXCEPT !.pc = pc, !.input = input, !.s = s] \in Segments
           /\ [Off EXCEPT !.pc = pc, !.input = input, !.s = s, !.cut = cut] \in Segments
<1> DEFINE c == [Off EXCEPT !.pc = pc, !.input = input, !.s = s]
           d == [Off EXCEPT !.pc = pc, !.input = input, !.s = s, !.cut = cut]
<1>1. Off \in SegmentType
  BY AdmissionType, SegmentFields
<1>2. c \in SegmentType
  BY <1>1, Zenon DEF SegmentType
<1>3. c.pc = pc /\ c.input = input /\ c.s = s
  BY <1>1 DEF SegmentType
<1>4. d \in SegmentType
  BY <1>1, Zenon DEF SegmentType
<1>5. d.pc = pc /\ d.input = input /\ d.s = s
  BY <1>1 DEF SegmentType
<1>6. c \in Segments
  BY <1>2, <1>3, IsSegment
<1>7. d \in Segments
  BY <1>4, <1>5, IsSegment
<1> QED
  BY <1>6, <1>7

-----------------------------------------------------------------------------
(* Types of units and of what a commit writes.                             *)

LEMMA UnitTypes ==
    ASSUME LedgerTypeOK, TypeOK, NEW p \in Procs, InCommit(p)
    PROVE  UnitOf(p).to \in States /\ UnitOf(p).stamped \in BOOLEAN /\ UnitOf(p).cut \in Nat
<1> DEFINE s == co[p].s
<1>1. /\ co[p] \in SegmentType /\ s \in States /\ co[p].new \in Seq(Effects) /\ co[p].cut \in Nat
      /\ co[p].input \notin {"initial", "model"} => s.plans # <<>>
      /\ co[p].input = "model" => s.model
  BY OwnSegment, SegmentFields DEF InCommit
<1>2. ex[p].res \in Results /\ ex[p].closeout \in BOOLEAN
  BY DEF LedgerTypeOK
<1>3. HeadOf(p) \in Effects => evid[HeadOf(p)].outcome \in {"completed", "failed", "unknown"}
  BY DEF LedgerTypeOK
<1>4. CASE co[p].input = "initial"
  BY <1>1, <1>4, ProposalTypes DEF UnitOf, Unit
<1>5. CASE co[p].input = "model"
  BY <1>1, <1>5, ProposalTypes DEF UnitOf, Unit
<1>6. CASE co[p].input = "denied"
  BY <1>1, <1>6, ProposalTypes DEF UnitOf, Unit
<1>7. CASE co[p].input \in {"approved", "dispatch"}
  BY <1>1, <1>7, ProposalTypes DEF UnitOf, Unit
<1>8. CASE co[p].input = "settled"
  BY <1>1, <1>2, <1>8, ProposalTypes DEF UnitOf, Unit
<1>9. CASE co[p].input = "reconcile"
  BY <1>1, <1>3, <1>9, HeadPlan, ProposalTypes DEF UnitOf, Unit
<1>10. CASE co[p].input \in {"none", "resolved", "reconciled"}
  BY <1>1, <1>10, ProposalTypes DEF UnitOf, Unit
<1> QED
  BY <1>1, <1>4, <1>5, <1>6, <1>7, <1>8, <1>9, <1>10 DEF SegmentType

LEMMA StoreTypes ==
    ASSUME LedgerTypeOK, TypeOK, NEW p \in Procs, InCommit(p), Store(p)
    PROVE  /\ op' \in States
           /\ \A u \in receipts' : u.to \in States /\ u.stamped \in BOOLEAN /\ u.cut \in Nat
<1>1. \A u \in receipts : u.to \in States /\ u.stamped \in BOOLEAN /\ u.cut \in Nat
  BY DEF TypeOK
<1> QED
  BY <1>1, UnitTypes DEF Store

LEMMA AnswerTypes ==
    ASSUME LedgerTypeOK, TypeOK, NEW p \in Procs, InCommit(p), NEW answered \in BOOLEAN,
           NEW pc \in {"step", "act", "executing"},
           NEW input \in {"none", "settled", "resolved", "reconciled"},
           pc = "step" => input = "reconciled",
           pc = "executing" => input = "settled",
           Answer(p, answered, pc, input)
    PROVE  co' \in [Procs -> Segments] /\ faults' \in Nat
<1>1. UnitOf(p).to \in States /\ co[p].cut \in Nat
  BY UnitTypes, OwnSegment, SegmentFields
<1>2. CASE answered
  <2>1. [Off EXCEPT !.pc = pc, !.input = input, !.s = UnitOf(p).to, !.cut = co[p].cut] \in Segments
    BY <1>1, FreshSegment
  <2> QED
    BY <1>2, <2>1, NewSegment DEF Answer, NoFault, TypeOK
<1>3. CASE ~answered
  BY <1>3, EndsType DEF Answer, Fault, TypeOK
<1> QED
  BY <1>2, <1>3

LEMMA TellType ==
    ASSUME TypeOK, NEW e, NEW outcome \in SlotStatus, Tell(e, outcome)
    PROVE  facts' \in [Effects -> Seq(SlotStatus)]
<1>1. facts \in [Effects -> Seq(SlotStatus)]
  BY DEF TypeOK
<1>2. e \in Effects => Append(facts[e], outcome) \in Seq(SlotStatus)
  BY <1>1, AppendProperties
<1> QED
  BY <1>1, <1>2 DEF Tell

-----------------------------------------------------------------------------
(* Every step keeps the types.                                             *)

\* A commit of a segment.
LEMMA CommittingType ==
    ASSUME LedgerTypeOK, TypeOK, NEW p \in Procs, Committing(p)
    PROVE  TypeOK'
<1>1. PICK answered \in BOOLEAN :
        \/ CommitInitial(p, answered) \/ CommitModel(p, answered) \/ CommitDenial(p, answered)
        \/ CommitDispatch(p, answered) \/ CommitSettlement(p, answered)
        \/ CommitReconciliation(p, answered) \/ CommitReconciled(p, answered)
  BY DEF Committing
<1>2. InCommit(p) /\ Store(p)
  BY <1>1 DEF CommitInitial, CommitModel, CommitDenial, CommitDispatch, CommitSettlement,
              CommitReconciliation, CommitReconciled
<1>3. /\ op' \in States
      /\ \A u \in receipts' : u.to \in States /\ u.stamped \in BOOLEAN /\ u.cut \in Nat
  BY <1>2, StoreTypes
<1>4. co' \in [Procs -> Segments] /\ faults' \in Nat
  <2>1. \/ Answer(p, answered, "act", "none") \/ Answer(p, answered, "act", "resolved")
        \/ Answer(p, answered, "executing", "settled") \/ Answer(p, answered, "step", "reconciled")
    BY <1>1 DEF CommitInitial, CommitModel, CommitDenial, CommitDispatch, CommitSettlement,
                CommitReconciliation, CommitReconciled
  <2> QED
    BY <1>2, <2>1, AnswerTypes
<1>5. facts' \in [Effects -> Seq(SlotStatus)]
  <2>1. UNCHANGED facts => facts' \in [Effects -> Seq(SlotStatus)]
    BY DEF TypeOK
  <2>2. CASE CommitDenial(p, answered)
    BY <2>2, TellType DEF CommitDenial, SlotStatus
  <2>3. CASE CommitSettlement(p, answered)
    <3>1. Outcome(ex[p].res) \in SlotStatus
      BY DEF Outcome, SlotStatus
    <3> QED
      BY <2>1, <2>3, <3>1, TellType DEF CommitSettlement
  <2>4. CASE CommitReconciled(p, answered)
    <3>1. co[p].s.recon \in SlotStatus
      BY OwnSegment, SegmentFields, StateFields DEF SlotStatus
    <3> QED
      BY <2>4, <3>1, TellType DEF CommitReconciled
  <2>5. CASE \/ CommitInitial(p, answered) \/ CommitModel(p, answered)
             \/ CommitDispatch(p, answered) \/ CommitReconciliation(p, answered)
    BY <2>1, <2>5 DEF CommitInitial, CommitModel, CommitDispatch, CommitReconciliation
  <2> QED
    BY <1>1, <2>2, <2>3, <2>4, <2>5
<1>6. appr' \in [Effects -> {"none", "approved", "denied", "applied", "rejected"}]
  BY <1>1 DEF CommitInitial, CommitModel, CommitDenial, CommitDispatch, CommitSettlement,
              CommitReconciliation, CommitReconciled, TypeOK
<1>7. gen' \in Nat /\ raised' \in [Procs -> BOOLEAN]
  BY <1>1 DEF CommitInitial, CommitModel, CommitDenial, CommitDispatch, CommitSettlement,
              CommitReconciliation, CommitReconciled, TypeOK
<1> QED
  BY <1>3, <1>4, <1>5, <1>6, <1>7 DEF TypeOK

\* All but co, raised and the counters is as before.
LEMMA RowsKept ==
    ASSUME TypeOK, UNCHANGED <<op, receipts, facts, appr>>,
           gen' \in Nat, faults' \in Nat,
           co' \in [Procs -> Segments], raised' \in [Procs -> BOOLEAN]
    PROVE  TypeOK'
BY DEF TypeOK

LEMMA Counters ==
    ASSUME TypeOK
    PROVE  gen \in Nat /\ faults \in Nat /\ raised \in [Procs -> BOOLEAN] /\ co \in [Procs -> Segments]
           /\ op \in States
BY DEF TypeOK

\* A segment that begins.
LEMMA BeginsType ==
    ASSUME TypeOK, NEW p \in Procs, StartTurn(p) \/ ResumeTurn(p) \/ StartReconcile(p)
    PROVE  TypeOK'
<1> USE Counters
<1>1. CASE StartTurn(p)
  <2>1. [Off EXCEPT !.pc = "step", !.input = "initial", !.s = op] \in Segments
    BY FreshSegment
  <2> QED
    BY <1>1, <2>1, NewSegment, RowsKept DEF StartTurn, Begins
<1>2. CASE ResumeTurn(p)
  <2>1. [Off EXCEPT !.pc = "waiting", !.input = "none", !.s = op] \in Segments
    BY <1>2, FreshSegment DEF ResumeTurn
  <2> QED
    BY <1>2, <2>1, NewSegment, RowsKept DEF ResumeTurn, Begins
<1>3. CASE StartReconcile(p)
  <2>1. op.plans # <<>>
    BY <1>3, StateFields DEF StartReconcile
  <2>2. [Off EXCEPT !.pc = "commit", !.input = "reconcile", !.s = op] \in Segments
    BY <2>1, FreshSegment
  <2> QED
    BY <1>3, <2>2, NewSegment, RowsKept DEF StartReconcile, Begins
<1> QED
  BY <1>1, <1>2, <1>3

\* The steps between commits.
LEMMA ActingType ==
    ASSUME TypeOK, NEW p \in Procs,
           Generate(p) \/ Block(p) \/ Dispatch(p) \/ ResolveApproval(p) \/ StaleCut(p)
    PROVE  TypeOK'
<1> USE Counters
<1>1. co[p] \in Segments /\ co[p] \in SegmentType /\ co[p].s \in States /\ co[p].s.rev \in Nat
      /\ co[p].s.round + 1 \in Nat /\ co[p].s.model \in BOOLEAN
      /\ (co[p].s.model => co[p].s.plans = <<>>)
  BY OwnSegment, SegmentFields, StateFields DEF StateType
<1>2. CASE Generate(p)
  <2>1. PICK n \in 0..Len(Calls[co[p].s.round + 1]) :
          co' = [co EXCEPT ![p] = [co[p] EXCEPT !.pc = "step", !.input = "model", !.at = co[p].s.round + 1,
                                                !.new = SubSeq(Calls[co[p].s.round + 1], 1, n)]]
    BY <1>2 DEF Generate
  <2> DEFINE new == SubSeq(Calls[co[p].s.round + 1], 1, n)
             c == [co[p] EXCEPT !.pc = "step", !.input = "model", !.at = co[p].s.round + 1, !.new = new]
  <2>2. Calls[co[p].s.round + 1] \in Seq(Effects)
    <3>1. co[p].s.round \in Nat
      BY <1>1 DEF States
    <3>2. Calls \in Seq(Seq(Effects)) /\ Len(Calls) \in Nat
      BY CoordinatorAssumption, LenProperties
    <3>3. co[p].s.round < Len(Calls)
      BY <1>2 DEF Generate, MayGenerate, MaxRounds
    <3>4. co[p].s.round + 1 \in 1..Len(Calls)
      BY <3>1, <3>2, <3>3
    <3> QED
      BY <3>2, <3>4, ElementOfSeq
  <2>3. new \in Seq(Effects)
    <3>1. n \in Nat /\ \A i \in 1..n : Calls[co[p].s.round + 1][i] \in Effects
      BY <2>2, ElementOfSeq, LenProperties
    <3> QED
      BY <3>1, SubSeqProperties
  <2>4. c \in SegmentType
    BY <1>1, <2>3, Zenon DEF SegmentType
  <2>5. c.pc = "step" /\ c.input = "model"
    BY <1>1 DEF SegmentType
  <2>6. c \in Segments
    BY <2>4, <2>5, IsSegment
  <2> QED
    BY <1>2, <2>1, <2>6, NewSegment, RowsKept DEF Generate
<1>3. CASE Block(p)
  <2>1. co[p].s.plans # <<>> /\ Goto(p, "waiting")
    BY <1>3 DEF Block, MayWait, HasPlan
  <2>2. co' \in [Procs -> Segments]
    BY <2>1, GotoType
  <2> QED
    BY <1>3, <2>2, RowsKept DEF Block
<1>4. CASE Dispatch(p)
  <2> DEFINE c == [co[p] EXCEPT !.pc = "commit", !.input = IF @ = "approved" THEN @ ELSE "dispatch"]
  <2>1. co[p].s.plans # <<>>
    BY <1>4 DEF Dispatch, MayDispatch, HasPlan
  <2>2. c \in SegmentType
    <3>1. (IF co[p].input = "approved" THEN co[p].input ELSE "dispatch") \in {"approved", "dispatch"}
      OBVIOUS
    <3> QED
      BY <1>1, <3>1 DEF SegmentType
  <2>3. c.pc = "commit" /\ c.input \in {"approved", "dispatch"} /\ c.s = co[p].s
    BY <1>1 DEF SegmentType
  <2>4. c \in Segments
    BY <2>1, <2>2, <2>3, IsSegment
  <2> QED
    BY <1>4, <2>4, NewSegment, RowsKept DEF Dispatch
<1>5. CASE ResolveApproval(p)
  <2> DEFINE pc == IF appr[HeadOf(p)] = "denied" THEN "step" ELSE "act"
             input == appr[HeadOf(p)]
             c == [co[p] EXCEPT !.pc = pc, !.input = input, !.at = co[p].s.rev]
  <2>1. pc \in {"step", "act"} /\ input \in {"approved", "denied"} /\ (pc = "step" => input = "denied")
    BY <1>5 DEF ResolveApproval
  <2>2. co[p].s.plans # <<>>
    BY <1>1, <1>5, SegmentFields DEF ResolveApproval
  <2> HIDE DEF pc, input
  <2>3. c \in SegmentType
    BY <1>1, <2>1, Zenon DEF SegmentType
  <2>4. c.pc = pc /\ c.input = input /\ c.s = co[p].s
    BY <1>1 DEF SegmentType
  <2>5. c \in Segments
    BY <2>1, <2>2, <2>3, <2>4, IsSegment
  <2> QED
    BY <1>5, <2>5, NewSegment, RowsKept DEF ResolveApproval, pc, input
<1>6. CASE StaleCut(p)
  <2> DEFINE c == [co[p] EXCEPT !.cut = gen]
  <2>1. c \in SegmentType /\ c.pc = co[p].pc /\ c.input = co[p].input /\ c.s = co[p].s
    BY <1>1 DEF SegmentType
  <2>2. c \in Segments
    BY <1>1, <2>1, SegmentFields, IsSegment
  <2>3. co' \in [Procs -> Segments]
    BY <1>6, <2>2, NewSegment, EndsType DEF StaleCut
  <2> QED
    BY <1>6, <2>3, RowsKept DEF StaleCut
<1> QED
  BY <1>2, <1>3, <1>4, <1>5, <1>6

\* Every other step of a segment.
LEMMA SegmentStepType ==
    ASSUME LedgerTypeOK, TypeOK, NEW p \in Procs, Segment(p)
    PROVE  TypeOK'
<1> USE Counters
<1>1. CASE Yield(p) \/ Return(p) \/ ApprovalStale(p)
  <2>1. Quits(p)
    BY <1>1 DEF Yield, Return, ApprovalStale
  <2> QED
    BY <2>1, EndsType, RowsKept DEF Quits
<1>2. CASE Generate(p) \/ Block(p) \/ Dispatch(p) \/ ResolveApproval(p) \/ StaleCut(p)
  BY <1>2, ActingType
<1>3. CASE Propose(p)
  <2>1. co[p].s \in States /\ co[p].pc = "step" /\ Bound(p) /\ Goto(p, "commit")
        /\ co[p].input \in {"initial", "model", "denied", "settled", "reconciled"}
    BY <1>3, OwnSegment, SegmentFields DEF Propose
  <2>2. co[p].input = "model" => co[p].s.model
    BY <2>1 DEF Bound
  <2>3. co[p].input \notin {"initial", "model"} => co[p].s.plans # <<>>
    <3>1. co[p].input = "denied" => co[p].s.plans # <<>>
      BY OwnSegment, SegmentFields
    <3>2. co[p].input = "settled" => co[p].s.plans # <<>>
      BY <2>1 DEF Bound
    <3>3. co[p].input = "reconciled" => co[p].s.recon # "none"
      BY <2>1 DEF Bound
    <3> QED
      BY <2>1, <3>1, <3>2, <3>3, StateFields
  <2>4. co' \in [Procs -> Segments]
    BY <2>1, <2>2, <2>3, GotoType
  <2> QED
    BY <1>3, <2>4, RowsKept DEF Propose
<1>4. CASE Committing(p)
  BY <1>4, CommittingType
<1>5. CASE AdoptReplay(p)
  <2> DEFINE pc == IF co[p].input = "reconcile" THEN "step" ELSE "act"
             input == CASE co[p].input = "reconcile" -> "reconciled"
                        [] co[p].input = "settled" -> "resolved" [] OTHER -> "none"
  <2>1. InCommit(p) /\ Answer(p, TRUE, pc, input)
    BY <1>5 DEF AdoptReplay
  <2>2. /\ pc \in {"step", "act", "executing"} /\ input \in {"none", "settled", "resolved", "reconciled"}
        /\ (pc = "step" => input = "reconciled") /\ pc # "executing"
    OBVIOUS
  <2> HIDE DEF pc, input
  <2>3. co' \in [Procs -> Segments] /\ faults' \in Nat
    BY <2>1, <2>2, AnswerTypes
  <2> QED
    BY <1>5, <2>3, RowsKept DEF AdoptReplay
<1>6. CASE FailSegment(p)
  <2>1. faults' \in Nat
    BY <1>6 DEF FailSegment, NoFault, Fault
  <2> QED
    BY <1>6, <2>1, EndsType, RowsKept DEF FailSegment
<1>7. CASE Execute(p)
  BY <1>7, RowsKept DEF Execute, runVars
<1>8. CASE Executed(p)
  <2>1. Goto(p, "step") /\ co[p].input = "settled"
    BY <1>8, OwnSegment, SegmentFields DEF Executed
  <2>2. co' \in [Procs -> Segments]
    BY <2>1, GotoType
  <2> QED
    BY <1>8, <2>2, RowsKept DEF Executed
<1>9. CASE ReplayDispatch(p)
  <2> DEFINE s == IF op.auth = HeadOf(p) THEN op ELSE UnitOf(p).to
  <2>1. InCommit(p) /\ IsDispatch(p) /\ co[p].s \in States /\ co[p].s.plans # <<>>
    BY <1>9, OwnSegment, SegmentFields DEF ReplayDispatch, IsDispatch, InCommit
  <2>2. HeadOf(p) \in Effects
    BY <2>1, HeadPlan
  <2>3. UnitOf(p).to = AuthorizedState(co[p].s)
    BY <2>1 DEF UnitOf, Unit, IsDispatch
  <2>4. s \in States /\ s.auth \in Effects
    BY <2>1, <2>2, <2>3, ProposalTypes
  <2> HIDE DEF s
  <2>5. [Off EXCEPT !.pc = "polling", !.input = "settled", !.s = s] \in Segments
    BY <2>4, FreshSegment
  <2> QED
    BY <1>9, <2>5, NewSegment, RowsKept DEF ReplayDispatch, s
<1>10. CASE RecoverReplay(p)
  <2>1. Goto(p, "step") /\ co[p].input = "settled"
    BY <1>10, OwnSegment, SegmentFields DEF RecoverReplay
  <2>2. co' \in [Procs -> Segments]
    BY <2>1, GotoType
  <2> QED
    BY <1>10, <2>2, RowsKept DEF RecoverReplay
<1> QED
  BY <1>1, <1>2, <1>3, <1>4, <1>5, <1>6, <1>7, <1>8, <1>9, <1>10 DEF Segment

LEMMA RunTypeStep == LedgerTypeOK /\ TypeOK /\ [Next]_vars => TypeOK'
<1> SUFFICES ASSUME LedgerTypeOK, TypeOK, [Next]_vars PROVE TypeOK'
  OBVIOUS
<1> USE Counters
<1>1. CASE UNCHANGED vars
  BY <1>1, RowsKept DEF vars, runVars
<1>2. CASE LapseLease
  BY <1>2, RowsKept DEF LapseLease, Fault
<1>3. ASSUME NEW e \in Effects, ExpireReservation(e) PROVE TypeOK'
  BY <1>3, RowsKept DEF ExpireReservation, runVars
<1>4. ASSUME NEW p \in Procs, RunNext(p) PROVE TypeOK'
  <2>1. CASE StartTurn(p) \/ ResumeTurn(p) \/ StartReconcile(p)
    BY <2>1, BeginsType
  <2>2. CASE Segment(p)
    BY <2>2, SegmentStepType
  <2>3. ASSUME NEW decision \in {"approved", "denied"}, Decide(p, decision) PROVE TypeOK'
    <3>1. appr' \in [Effects -> {"none", "approved", "denied", "applied", "rejected"}]
      <4>1. appr \in [Effects -> {"none", "approved", "denied", "applied", "rejected"}]
        BY DEF TypeOK
      <4>2. appr' = [appr EXCEPT ![HeadOf(p)] = decision]
        BY <2>3 DEF Decide
      <4> QED
        BY <4>1, <4>2
    <3>2. gen' \in Nat
      BY <2>3 DEF Decide
    <3> QED
      BY <2>3, <3>1, <3>2 DEF Decide, TypeOK
  <2>4. CASE Interrupt(p)
    BY <2>4, RowsKept DEF Interrupt
  <2>5. CASE RaiseControl(p)
    BY <2>5, RowsKept DEF RaiseControl
  <2>6. CASE GrantSegment(p)
    BY <2>6, RowsKept DEF GrantSegment, runVars
  <2>7. CASE CrashSegment(p)
    BY <2>7, EndsType, RowsKept DEF CrashSegment, Fault
  <2>8. ASSUME NEW e \in Effects, Repair(p, e) PROVE TypeOK'
    BY <2>8, RowsKept DEF Repair, runVars
  <2> QED
    BY <1>4, <2>1, <2>2, <2>3, <2>4, <2>5, <2>6, <2>7, <2>8 DEF RunNext
<1> QED
  BY <1>1, <1>2, <1>3, <1>4 DEF Next

LEMMA RunTypeInit == Init => TypeOK
<1> SUFFICES ASSUME Init PROVE TypeOK
  OBVIOUS
<1>1. <<>> \in Seq(SlotStatus)
  BY EmptySeq
<1> QED
  BY <1>1, AdmissionType DEF Init, RunInit, TypeOK

-----------------------------------------------------------------------------
(* The run implements the ledger.                                          *)

\* A step of the ledger by one process is a step of the ledger.
LEMMA ProcStep ==
    ASSUME NEW p \in Procs, LedgerProcNext(p)
    PROVE  [LedgerNext]_ledgerVars
BY DEF LedgerNext

\* The commits of a segment.
LEMMA CommittingStep ==
    ASSUME TypeOK, NEW p \in Procs, Committing(p)
    PROVE  [LedgerNext]_ledgerVars
<1>1. PICK answered \in BOOLEAN :
        \/ CommitInitial(p, answered) \/ CommitModel(p, answered) \/ CommitDenial(p, answered)
        \/ CommitDispatch(p, answered) \/ CommitSettlement(p, answered)
        \/ CommitReconciliation(p, answered) \/ CommitReconciled(p, answered)
  BY DEF Committing
<1>2. co[p].input \notin {"initial", "model"} => HeadOf(p) \in Effects
  <2>1. InCommit(p)
    BY <1>1 DEF CommitInitial, CommitModel, CommitDenial, CommitDispatch, CommitSettlement,
                CommitReconciliation, CommitReconciled
  <2> QED
    BY <2>1, OwnSegment, SegmentFields, HeadPlan DEF InCommit
<1>3. CASE CommitInitial(p, answered) \/ CommitReconciled(p, answered)
  BY <1>3 DEF CommitInitial, CommitReconciled
<1>4. CASE CommitModel(p, answered)
  <2>1. co[p].new \in Seq(Effects)
    BY OwnSegment, SegmentFields
  <2>2. \A i \in DOMAIN co[p].new : co[p].new[i] \in Effects
    BY <2>1, LenProperties, ElementOfSeq
  <2>3. {co[p].new[i] : i \in DOMAIN co[p].new} \in SUBSET Effects
    BY <2>2
  <2>4. Prepare(p, {co[p].new[i] : i \in DOMAIN co[p].new})
    BY <1>4 DEF CommitModel
  <2> QED
    BY <2>3, <2>4, ProcStep DEF LedgerProcNext
<1>5. CASE CommitDenial(p, answered)
  <2>1. Reject(p, HeadOf(p)) /\ HeadOf(p) \in Effects
    BY <1>2, <1>5 DEF CommitDenial
  <2> QED
    BY <2>1, ProcStep DEF LedgerProcNext
<1>6. CASE CommitDispatch(p, answered)
  <2>1. Authorize(p, HeadOf(p), answered) /\ HeadOf(p) \in Effects
    BY <1>2, <1>6 DEF CommitDispatch, IsDispatch
  <2> QED
    BY <2>1, ProcStep DEF LedgerProcNext
<1>7. CASE CommitSettlement(p, answered)
  BY <1>7, ProcStep DEF CommitSettlement, LedgerProcNext
<1>8. CASE CommitReconciliation(p, answered)
  <2>1. Reconcile(p, HeadOf(p)) /\ HeadOf(p) \in Effects
    BY <1>2, <1>8 DEF CommitReconciliation
  <2> QED
    BY <2>1, ProcStep DEF LedgerProcNext
<1> QED
  BY <1>1, <1>3, <1>4, <1>5, <1>6, <1>7, <1>8

\* The steps of a segment.
LEMMA SegmentStep ==
    ASSUME TypeOK, NEW p \in Procs, Segment(p)
    PROVE  [LedgerNext]_ledgerVars
<1>1. CASE Yield(p) \/ Return(p) \/ ApprovalStale(p)
  BY <1>1 DEF Yield, Return, ApprovalStale, Quits
<1>2. CASE Generate(p) \/ Block(p) \/ Dispatch(p) \/ ResolveApproval(p) \/ StaleCut(p)
  BY <1>2 DEF Generate, Block, Dispatch, ResolveApproval, StaleCut
<1>3. CASE Propose(p)
  BY <1>3, ProcStep DEF Propose, LedgerProcNext
<1>4. CASE Committing(p)
  BY <1>4, CommittingStep
<1>5. CASE AdoptReplay(p)
  BY <1>5, ProcStep DEF AdoptReplay, LedgerProcNext
<1>6. CASE FailSegment(p)
  BY <1>6, ProcStep DEF FailSegment, LedgerProcNext
<1>7. CASE Execute(p)
  BY <1>7, ProcStep DEF Execute, LedgerProcNext
<1>8. CASE Executed(p) \/ ReplayDispatch(p)
  BY <1>8 DEF Executed, ReplayDispatch
<1>9. CASE RecoverReplay(p)
  <2>1. co[p].s.auth \in Effects /\ \E res \in Results : Recover(p, co[p].s.auth, res)
    BY <1>9, OwnSegment, SegmentFields DEF RecoverReplay
  <2> QED
    BY <2>1, ProcStep DEF LedgerProcNext
<1> QED
  BY <1>1, <1>2, <1>3, <1>4, <1>5, <1>6, <1>7, <1>8, <1>9 DEF Segment

LEMMA RunStep == TypeOK /\ [Next]_vars => [LedgerNext]_ledgerVars
<1> SUFFICES ASSUME TypeOK, [Next]_vars PROVE [LedgerNext]_ledgerVars
  OBVIOUS
<1>1. CASE UNCHANGED vars
  BY <1>1 DEF vars
<1>2. CASE LapseLease
  BY <1>2 DEF LapseLease, LedgerNext
<1>3. ASSUME NEW e \in Effects, ExpireReservation(e) PROVE [LedgerNext]_ledgerVars
  BY <1>3 DEF ExpireReservation, LedgerNext
<1>4. ASSUME NEW p \in Procs, RunNext(p) PROVE [LedgerNext]_ledgerVars
  <2>1. CASE StartTurn(p) \/ ResumeTurn(p) \/ StartReconcile(p)
    BY <2>1 DEF StartTurn, ResumeTurn, StartReconcile, Begins
  <2>2. CASE Segment(p)
    BY <2>2, SegmentStep
  <2>3. ASSUME NEW decision \in {"approved", "denied"}, Decide(p, decision)
        PROVE  [LedgerNext]_ledgerVars
    BY <2>3 DEF Decide
  <2>4. CASE Interrupt(p) \/ RaiseControl(p)
    BY <2>4 DEF Interrupt, RaiseControl
  <2>5. CASE GrantSegment(p)
    BY <2>5, ProcStep DEF GrantSegment, LedgerProcNext
  <2>6. CASE CrashSegment(p)
    BY <2>6, ProcStep DEF CrashSegment, LedgerProcNext
  <2>7. ASSUME NEW e \in Effects, Repair(p, e) PROVE [LedgerNext]_ledgerVars
    BY <2>7, ProcStep DEF Repair, LedgerProcNext
  <2> QED
    BY <1>4, <2>1, <2>2, <2>3, <2>4, <2>5, <2>6, <2>7 DEF RunNext
<1> QED
  BY <1>1, <1>2, <1>3, <1>4 DEF Next

\* Every state and segment of a run stays well formed: TypeOK, for any number
\* of processes, effects and model rounds.
THEOREM RunTypeCorrect == Spec => []TypeOK
<1>1. Init => LedgerTypeOK /\ TypeOK
  BY RunTypeInit, TypeInit DEF Init
<1>2. LedgerTypeOK /\ TypeOK /\ [Next]_vars => (LedgerTypeOK /\ TypeOK)'
  BY RunTypeStep, RunStep, TypeStep
<1> QED
  BY <1>1, <1>2, PTL DEF Spec

\* The coordinator implements the effect ledger: every step of a run is one
\* ledger operation, with an effect of the ledger, or leaves it alone.
THEOREM RunsTheLedger == Spec => LedgerSpec
<1>1. Init => LedgerInit
  BY DEF Init
<1> QED
  BY <1>1, RunTypeCorrect, RunStep, PTL DEF Spec, LedgerSpec

\* So no run starts a tool twice, whatever races, crashes, replays, takeovers
\* and reconciliations its segments go through.
THEOREM RunsToolsAtMostOnce == Spec => []AtMostOnce
BY RunsTheLedger, NoSecondRun, PTL

\* And where owner ids are not shared, an effect that a segment has settled,
\* told or reconciled is no longer being executed.
THEOREM RunsSettleQuietly == Spec => []SettledIsQuiet
BY RunsTheLedger, SettledMeansQuiet, PTL
=============================================================================
