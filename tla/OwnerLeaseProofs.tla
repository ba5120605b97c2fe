--------------------------- MODULE OwnerLeaseProofs ---------------------------
(***************************************************************************)
(* Proofs about OwnerLease for any set of processes, any assignment of     *)
(* owner ids to them and any bound on the tenures.                         *)
(***************************************************************************)
EXTENDS OwnerLease, TLAPS

\* The null authority, the authority a check uses and the activities the
\* actions write have their types.
LEMMA NullTypes ==
    /\ NoAuth \in Authorities /\ NoAuth.tenure = 0
    /\ \A pcs : Idle \in Activities(pcs)
    /\ Idle.auth = NoAuth /\ Idle.pc = "idle"
    /\ NoRow \in [owner : OwnerIds \cup {NoOwner}, epoch : Nat, live : BOOLEAN]
BY DEF NoAuth, Authorities, NoRow, Idle, Activities

\* The activities a turn, a sweep and a release write have their types.
LEMMA ActivityTypes ==
    ASSUME NEW pcs
    PROVE  /\ \A c \in pcs, a \in Authorities : [pc |-> c, auth |-> a] \in Activities(pcs)
           /\ \A x \in Activities(pcs) : x.auth \in Authorities
BY DEF Activities

\* The authority of a check, cached or configured, is an authority.
LEMMA ClaimedType ==
    ASSUME TypeOK, NEW p \in Procs
    PROVE  /\ Claimed(p) \in Authorities
           /\ Claimed(p) = held[p] \/ Claimed(p).tenure = 0
BY OwnerAssumption DEF Claimed, TypeOK, Authorities

\* Extending the lease keeps every sweep well typed.
LEMMA ExtendedType ==
    ASSUME TypeOK
    PROVE  /\ Extended \in [Procs -> Activities({"begun", "late", "owned", "losing"})]
           /\ \A q \in Procs : Extended[q].auth = sweep[q].auth
BY DEF Extended, TypeOK, Activities

\* Cancelling a turn keeps every turn well typed, and its authority.
LEMMA CancelledType ==
    ASSUME TypeOK, NEW p \in Procs
    PROVE  /\ Cancelled(p) \in [Procs -> Activities({"running", "cancelling"})]
           /\ \A q \in Procs : Cancelled(p)[q].auth = turn[q].auth
BY DEF Cancelled, TypeOK, Activities

\* Every action of OwnerLease keeps the variables in their types.
THEOREM TypeCorrect == Spec => []TypeOK
<1>1. Init => TypeOK
  BY NullTypes DEF Init, TypeOK
<1>2. TypeOK /\ [Next]_vars => TypeOK'
  <2> SUFFICES ASSUME TypeOK, [Next]_vars PROVE TypeOK'
    OBVIOUS
  <2> USE OwnerAssumption DEF TypeOK
  <2>1. CASE Expire
    BY <2>1 DEF Expire
  <2>2. ASSUME NEW p \in Procs, ProcNext(p) PROVE TypeOK'
    <3>1. CASE AcquireAuthority(p)
      <4>1. row' \in [owner : OwnerIds \cup {NoOwner}, epoch : Nat, live : BOOLEAN]
        BY <3>1 DEF AcquireAuthority
      <4>2. held' \in [Procs -> Authorities] /\ tenure' \in Nat
        BY <3>1 DEF AcquireAuthority, Authorities
      <4> QED
        BY <3>1, <4>1, <4>2, ExtendedType DEF AcquireAuthority
    <3>2. CASE RenewBegin(p)
      BY <3>2, NullTypes, ActivityTypes DEF RenewBegin
    <3>3. CASE RenewCheck(p)
      <4>1. \A c \in {"owned", "losing"} :
                [pc |-> c, auth |-> Claimed(p)] \in Activities({"begun", "late", "owned", "losing"})
        BY ClaimedType, ActivityTypes
      <4> QED
        BY <3>3, <4>1 DEF RenewCheck
    <3>4. CASE RenewCommit(p)
      BY <3>4, NullTypes, ActivityTypes, ExtendedType DEF RenewCommit
    <3>5. CASE RenewFail(p)
      BY <3>5, NullTypes, ActivityTypes DEF RenewFail
    <3>6. CASE ReleaseCheck(p)
      BY <3>6, ActivityTypes, ClaimedType DEF ReleaseCheck
    <3>7. CASE ReleaseCommit(p)
      BY <3>7, NullTypes, ExtendedType DEF ReleaseCommit
    <3>8. CASE ReleaseFail(p)
      BY <3>8, NullTypes DEF ReleaseFail
    <3>9. CASE StartTurn(p)
      BY <3>9, ActivityTypes DEF StartTurn
    <3>10. CASE Write(p)
      BY <3>10 DEF Write, Activities, Authorities
    <3>11. CASE WriteRejected(p) \/ EndTurn(p)
      BY <3>11, NullTypes DEF WriteRejected, EndTurn
    <3>12. CASE Restart(p)
      BY <3>12, NullTypes DEF Restart
    <3>13. CASE CancelTurn(p)
      <4>1. held[p].tenure \in Nat
        BY DEF Authorities
      <4> QED
        BY <3>13, <4>1, NullTypes, CancelledType DEF CancelTurn
    <3>14. CASE SweepAborts(p)
      BY <3>14, NullTypes DEF SweepAborts
    <3> QED
      BY <2>2, <3>1, <3>2, <3>3, <3>4, <3>5, <3>6, <3>7, <3>8, <3>9, <3>10, <3>11, <3>12,
         <3>13, <3>14
         DEF ProcNext, Acquire, Backfill
  <2>3. CASE UNCHANGED vars
    BY <2>3 DEF vars
  <2> QED
    BY <2>1, <2>2, <2>3 DEF Next
<1> QED
  BY <1>1, <1>2, PTL DEF Spec

-----------------------------------------------------------------------------
(* The inductive invariant: between two deletions of the row, an epoch is   *)
(* the number of tenures granted since the first of them.                   *)

Counts(a) == a.tenure <= tenure /\ (a.tenure > released => a.epoch = a.tenure - released)

\* Whatever a process remembers is an authority.
LEMMA RememberedType ==
    ASSUME TypeOK, NEW p \in Procs, NEW a \in Remembered(p)
    PROVE  a \in Authorities /\ a.tenure \in Nat /\ a.epoch \in Nat
BY DEF TypeOK, Remembered, Activities, Authorities

\* A step that leaves tenure and released alone, and after which a process
\* remembers only what some process remembered before or a token without
\* tenure, keeps every remembered authority counted.
LEMMA RememberedKept ==
    ASSUME TypeOK, EpochCountsTenures, NEW p \in Procs,
           UNCHANGED <<tenure, released>>,
           \A q \in Procs : \A a \in Remembered(q)' :
              a \in Remembered(q) \/ a.tenure = 0
    PROVE  \A q \in Procs : \A a \in Remembered(q)' : Counts(a)'
BY DEF EpochCountsTenures, Counts, TypeOK

\* Epochs count tenures: acquire_authority hands out epoch n in the n-th
\* tenure since the row was last deleted, and no renewal, release, restart or
\* expiry breaks the count for an authority some process still remembers.
THEOREM EpochsCountTenures == Spec => []EpochCountsTenures
<1>1. Init => EpochCountsTenures
  BY DEF Init, EpochCountsTenures, Remembered, NoAuth, Idle
<1>2. TypeOK /\ TypeOK' /\ EpochCountsTenures /\ [Next]_vars => EpochCountsTenures'
  <2> SUFFICES ASSUME TypeOK, TypeOK', EpochCountsTenures, [Next]_vars
               PROVE  EpochCountsTenures'
    OBVIOUS
  <2> USE OwnerAssumption
  <2>1. CASE Expire
    <3>1. \A q \in Procs : Remembered(q)' = Remembered(q)
      BY <2>1 DEF Expire, Remembered
    <3> QED
      BY <2>1, <3>1 DEF Expire, EpochCountsTenures, TypeOK, NoRow
  <2>2. ASSUME NEW p \in Procs, ProcNext(p) PROVE EpochCountsTenures'
    <3>0. \A q \in Procs : Extended[q].auth = sweep[q].auth
      BY ExtendedType
    <3>1. CASE AcquireAuthority(p)
      <4>0. \A q \in Procs : \A a \in Remembered(q) : a.tenure \in Nat /\ a.epoch \in Nat
        BY RememberedType
      <4>1. \A q \in Procs : \A a \in Remembered(q)' :
                a \in Remembered(q) \/ (q = p /\ a = held'[p])
        BY <3>0, <3>1 DEF AcquireAuthority, Remembered, TypeOK
      <4>2. held'[p].epoch = row'.epoch /\ held'[p].tenure = tenure'
        BY <3>1 DEF AcquireAuthority, TypeOK
      <4>3. CASE row.live
        <5>1. row # NoRow
          BY <4>3 DEF NoRow
        <5>2. row'.epoch = row.epoch /\ row'.owner = OwnerOf[p] /\ UNCHANGED <<tenure, released, wrote>>
          BY <3>1, <4>3, <5>1 DEF AcquireAuthority
        <5> QED
          BY <4>1, <4>2, <5>1, <5>2 DEF EpochCountsTenures, TypeOK
      <4>4. CASE ~row.live
        <5>1. tenure' = tenure + 1 /\ UNCHANGED <<released, wrote>> /\ row'.owner = OwnerOf[p]
          BY <3>1, <4>4 DEF AcquireAuthority
        <5>2. row'.epoch = (tenure + 1) - released
          <6>1. CASE row = NoRow
            BY <3>1, <4>4, <6>1 DEF AcquireAuthority, EpochCountsTenures, TypeOK, NoRow
          <6>2. CASE row # NoRow
            BY <3>1, <4>4, <6>2 DEF AcquireAuthority, EpochCountsTenures, TypeOK
          <6> QED
            BY <6>1, <6>2
        <5> QED
          BY <4>0, <4>1, <4>2, <5>1, <5>2 DEF EpochCountsTenures, TypeOK
      <4> QED
        BY <4>3, <4>4
    <3>2. CASE ReleaseCommit(p)
      <4>1. \A q \in Procs : \A a \in Remembered(q)' : a \in Remembered(q) \/ a = NoAuth
        BY <3>0, <3>2 DEF ReleaseCommit, Remembered, TypeOK, Idle
      <4> QED
        BY <3>2, <4>1, RememberedType DEF ReleaseCommit, EpochCountsTenures, TypeOK, NoAuth
    <3>3. CASE Write(p)
      <4>1. \A q \in Procs : Remembered(q)' = Remembered(q)
        BY <3>3 DEF Write, Remembered
      <4>2. turn[p].auth \in Remembered(p)
        BY DEF Remembered
      <4> QED
        BY <3>3, <4>1, <4>2 DEF Write, EpochCountsTenures, TypeOK
    <3>5. CASE CancelTurn(p) /\ wrote' = held[p].tenure
      <4>1. \A q \in Procs : \A a \in Remembered(q)' : a \in Remembered(q) \/ a.tenure = 0
        BY <3>5, CancelledType DEF CancelTurn, Remembered, TypeOK, Idle, NoAuth
      <4>2. held[p] \in Remembered(p)
        BY DEF Remembered
      <4>3. \A q \in Procs : \A a \in Remembered(q)' : Counts(a)'
        BY <3>5, <4>1, RememberedKept DEF CancelTurn
      <4> QED
        BY <3>5, <4>2, <4>3 DEF CancelTurn, EpochCountsTenures, Counts
    <3>6. CASE CancelTurn(p) /\ wrote' # held[p].tenure
      <4>1. \A q \in Procs : \A a \in Remembered(q)' : a \in Remembered(q) \/ a.tenure = 0
        BY <3>6 DEF CancelTurn, Remembered, TypeOK, Idle, NoAuth
      <4>2. \A q \in Procs : \A a \in Remembered(q)' : Counts(a)'
        BY <3>6, <4>1, RememberedKept DEF CancelTurn
      <4> QED
        BY <3>6, <4>2 DEF CancelTurn, EpochCountsTenures, Counts
    <3>4. CASE \/ RenewBegin(p) \/ RenewCheck(p) \/ RenewCommit(p) \/ RenewFail(p) \/ SweepAborts(p)
               \/ ReleaseCheck(p) \/ ReleaseFail(p) \/ StartTurn(p)
               \/ WriteRejected(p) \/ EndTurn(p) \/ Restart(p)
      <4>1. UNCHANGED <<row, tenure, released, wrote>>
        BY <3>4 DEF RenewBegin, RenewCheck, RenewCommit, RenewFail, SweepAborts, ReleaseCheck,
                    ReleaseFail, StartTurn, WriteRejected, EndTurn, Restart
      <4>2. \A q \in Procs : \A a \in Remembered(q)' :
                a \in Remembered(q) \/ a.tenure = 0
        <5> USE DEF Remembered, TypeOK, Idle, NoAuth
        <5>1. CASE RenewBegin(p)
          BY <5>1 DEF RenewBegin
        <5>2. CASE RenewCheck(p)
          BY <5>2 DEF RenewCheck, Claimed
        <5>3. CASE RenewCommit(p)
          BY <3>0, <5>3 DEF RenewCommit
        <5>4. CASE RenewFail(p)
          BY <5>4 DEF RenewFail
        <5>5. CASE ReleaseCheck(p)
          BY <5>5 DEF ReleaseCheck, Claimed
        <5>6. CASE ReleaseFail(p)
          BY <5>6 DEF ReleaseFail
        <5>7. CASE StartTurn(p)
          BY <5>7 DEF StartTurn
        <5>9. CASE WriteRejected(p) \/ EndTurn(p)
          BY <5>9 DEF WriteRejected, EndTurn
        <5>8. CASE Restart(p)
          BY <5>8 DEF Restart
        <5>10. CASE SweepAborts(p)
          BY <5>10 DEF SweepAborts
        <5> QED
          BY <3>4, <5>10, <5>1, <5>2, <5>3, <5>4, <5>5, <5>6, <5>7, <5>8, <5>9
      <4>3. \A q \in Procs : \A a \in Remembered(q)' : Counts(a)'
        BY <4>1, <4>2, RememberedKept
      <4> QED
        BY <4>1, <4>3 DEF EpochCountsTenures, Counts
    <3> QED
      BY <2>2, <3>1, <3>2, <3>3, <3>4, <3>5, <3>6 DEF ProcNext, Acquire, Backfill
  <2>3. CASE UNCHANGED vars
    BY <2>3 DEF vars, EpochCountsTenures, Remembered
  <2> QED
    BY <2>1, <2>2, <2>3 DEF Next
<1> QED
  BY <1>1, <1>2, TypeCorrect, PTL DEF Spec

\* What the count gives: a fence that holds names the tenure in force.
LEMMA FenceNamesTenure ==
    ASSUME TypeOK, EpochCountsTenures, NEW p \in Procs, NEW a \in Remembered(p),
           Names(p, a)
    PROVE  a.tenure <= released \/ a.tenure = tenure
<1>1. a.tenure \in Nat /\ a.epoch \in Nat
  BY RememberedType
<1>2. row.owner # NoOwner /\ row # NoRow
  BY OwnerAssumption DEF Names, NoRow
<1>3. row.epoch = tenure - released /\ row.epoch = a.epoch
  BY <1>2 DEF Names, EpochCountsTenures
<1>4. a.tenure <= tenure /\ (a.tenure > released => a.epoch = a.tenure - released)
  BY DEF EpochCountsTenures
<1> QED
  BY <1>1, <1>3, <1>4 DEF TypeOK

\* Fencing (the row's check against stale owners): see FencedByTenure.
THEOREM Fencing == Spec => []FencedByTenure
<1>1. TypeOK /\ EpochCountsTenures => FencedByTenure
  <2> SUFFICES ASSUME TypeOK, EpochCountsTenures, NEW p \in Procs, NEW a \in Remembered(p),
                      a.tenure > released, Fence(p, a)
               PROVE  a.tenure = tenure
    BY DEF FencedByTenure
  <2> QED
    BY FenceNamesTenure, RememberedType DEF Fence, TypeOK
<1> QED
  BY <1>1, TypeCorrect, EpochsCountTenures, PTL

\* Accepted writes follow the tenures: see WritesFollowTenures.
THEOREM WriteOrder == Spec => WritesFollowTenures
<1>1. TypeOK /\ EpochCountsTenures /\ [Next]_vars => wrote' >= wrote \/ wrote' <= released
  <2> SUFFICES ASSUME TypeOK, EpochCountsTenures, [Next]_vars
               PROVE  wrote' >= wrote \/ wrote' <= released
    OBVIOUS
  <2>1. ASSUME NEW p \in Procs, Write(p) PROVE wrote' >= wrote \/ wrote' <= released
    <3>1. turn[p].auth \in Remembered(p) /\ Names(p, turn[p].auth) /\ wrote' = turn[p].auth.tenure
      BY <2>1 DEF Write, Fence, Remembered
    <3> QED
      BY <3>1, FenceNamesTenure DEF EpochCountsTenures, TypeOK
  <2>2. ASSUME NEW p \in Procs, CancelTurn(p) PROVE wrote' >= wrote \/ wrote' <= released
    <3>1. CASE turn[p].pc # "idle" /\ SessionSaved(p)
      <4>1. held[p] \in Remembered(p) /\ Names(p, held[p]) /\ wrote' = held[p].tenure
        BY <2>2, <3>1 DEF CancelTurn, SessionSaved, Fence, Remembered
      <4> QED
        BY <4>1, FenceNamesTenure DEF EpochCountsTenures, TypeOK
    <3> QED
      BY <2>2, <3>1 DEF CancelTurn, TypeOK
  <2>3. CASE ~\E p \in Procs : Write(p) \/ CancelTurn(p)
    BY <2>3 DEF Next, vars, Expire, ProcNext, Acquire, Backfill, AcquireAuthority, RenewBegin,
                RenewCheck, RenewCommit, RenewFail, SweepAborts, ReleaseCheck, ReleaseCommit,
                ReleaseFail, StartTurn, WriteRejected, EndTurn, Restart, TypeOK
  <2> QED
    BY <2>1, <2>2, <2>3
<1> QED
  BY <1>1, TypeCorrect, EpochsCountTenures, PTL DEF Spec, WritesFollowTenures

\* A release deletes no later tenure's row: see ReleaseDeletesOwnTenure.
THEOREM ReleaseOwn == Spec => ReleaseDeletesOwnTenure
<1> DEFINE Own == row # NoRow /\ row' = NoRow =>
                    \E p \in Procs : /\ leaving[p].pc = "checked" /\ leaving'[p] = Idle
                                     /\ leaving[p].auth.tenure \in {tenure} \cup 0..released
<1>1. TypeOK /\ EpochCountsTenures /\ [Next]_vars => Own
  <2> SUFFICES ASSUME TypeOK, EpochCountsTenures, [Next]_vars, row # NoRow, row' = NoRow
               PROVE  \E p \in Procs : /\ leaving[p].pc = "checked" /\ leaving'[p] = Idle
                                       /\ leaving[p].auth.tenure \in {tenure} \cup 0..released
    OBVIOUS
  <2>1. PICK p \in Procs : ReleaseCommit(p)
    <3>1. ~Expire
      BY DEF Expire, EpochCountsTenures, NoRow, TypeOK
    <3>2. ~\E p \in Procs : AcquireAuthority(p)
      BY OwnerAssumption DEF AcquireAuthority, NoRow
    <3> QED
      BY <3>1, <3>2 DEF Next, vars, ProcNext, Acquire, Backfill, RenewBegin,
                RenewCheck, RenewCommit, RenewFail, CancelTurn, SweepAborts, ReleaseCheck,
                ReleaseFail, StartTurn, Write, WriteRejected, EndTurn, Restart
  <2>2. leaving[p].auth \in Remembered(p) /\ Names(p, leaving[p].auth)
    BY <2>1 DEF ReleaseCommit, Remembered
  <2>3. leaving[p].auth.tenure \in {tenure} \cup 0..released
    BY <2>2, FenceNamesTenure, RememberedType DEF TypeOK
  <2> QED
    BY <2>1, <2>3 DEF ReleaseCommit, TypeOK
<1> QED
  BY <1>1, TypeCorrect, EpochsCountTenures, PTL DEF Spec, ReleaseDeletesOwnTenure

-----------------------------------------------------------------------------
(* What the heartbeat has judged lost stays lost.                           *)

\* A clock read before the lease ran out meets no live row, and an authority
\* about to be cancelled for names no live row (up to the last deletion).
LostStaysLost ==
    \A p \in Procs :
        /\ sweep[p].pc = "late" => ~row.live
        /\ sweep[p].pc = "losing" /\ sweep[p].auth.tenure > released => ~Fence(p, sweep[p].auth)

\* No grant, renewal or release makes valid again what renew_owner_leases has
\* judged lost: a new grant has a later epoch, and a late clock is late until
\* the row is written again.
LEMMA JudgedLost == Spec => []LostStaysLost
<1>1. Init => LostStaysLost
  BY NullTypes DEF Init, LostStaysLost
<1>2. TypeOK /\ EpochCountsTenures /\ LostStaysLost /\ [Next]_vars => LostStaysLost'
  <2> SUFFICES ASSUME TypeOK, EpochCountsTenures, LostStaysLost, [Next]_vars
               PROVE  LostStaysLost'
    OBVIOUS
  <2> USE OwnerAssumption DEF LostStaysLost
  <2>0. \A q \in Procs : /\ Extended[q].auth = sweep[q].auth
                         /\ Extended[q].pc # "late"
                         /\ Extended[q].pc = "losing" => sweep[q].pc = "losing"
    BY DEF Extended, TypeOK, Activities
  <2>1. CASE Expire
    BY <2>1 DEF Expire, Fence, TypeOK
  <2>2. ASSUME NEW p \in Procs, AcquireAuthority(p) PROVE LostStaysLost'
    <3> SUFFICES ASSUME NEW q \in Procs,
                        sweep[q].pc = "losing", sweep[q].auth.tenure > released
                 PROVE  ~Fence(q, sweep[q].auth)'
      BY <2>0, <2>2 DEF AcquireAuthority, Fence, Names
    <3>1. ~Fence(q, sweep[q].auth)
      OBVIOUS
    <3>2. CASE row.live
      <4>1. row'.owner = row.owner /\ row'.epoch = row.epoch
        BY <2>2, <3>2 DEF AcquireAuthority, NoRow
      <4> QED
        BY <2>0, <2>2, <3>1, <3>2, <4>1 DEF AcquireAuthority, Fence, Names
    <3>3. CASE ~row.live
      <4>1. sweep[q].auth \in Remembered(q)
        BY DEF Remembered
      <4>2. sweep[q].auth.tenure <= tenure /\ sweep[q].auth.epoch = sweep[q].auth.tenure - released
        BY <4>1 DEF EpochCountsTenures
      <4>3. row'.epoch = (tenure + 1) - released
        BY <2>2, <3>3 DEF AcquireAuthority, EpochCountsTenures, TypeOK, NoRow
      <4>4. sweep[q].auth.tenure \in Nat
        BY <4>1, RememberedType
      <4>5. row'.epoch # sweep[q].auth.epoch
        BY <4>2, <4>3, <4>4 DEF TypeOK
      <4> QED
        BY <2>0, <2>2, <4>5 DEF AcquireAuthority, Fence, Names
    <3> QED
      BY <3>2, <3>3
  <2>3. ASSUME NEW p \in Procs, ReleaseCommit(p) PROVE LostStaysLost'
    <3>1. \A q \in Procs : sweep[q].auth.tenure <= tenure /\ sweep[q].auth.tenure \in Nat
      BY RememberedType DEF EpochCountsTenures, Remembered
    <3> QED
      BY <2>0, <2>3, <3>1 DEF ReleaseCommit, NoRow, TypeOK
  <2>4. ASSUME NEW p \in Procs, RenewBegin(p) PROVE LostStaysLost'
    BY <2>4 DEF RenewBegin, TypeOK, Fence, Names
  <2>5. ASSUME NEW p \in Procs, RenewCheck(p) PROVE LostStaysLost'
    <3>1. Fence(p, Claimed(p)) => Names(p, Claimed(p)) /\ sweep[p].pc = "begun"
      BY <2>5 DEF RenewCheck, Fence
    <3> QED
      BY <2>5, <3>1 DEF RenewCheck, TypeOK, Fence, Names
  <2>6. ASSUME NEW p \in Procs, RenewCommit(p) PROVE LostStaysLost'
    BY <2>0, <2>6 DEF RenewCommit, TypeOK, Fence, Names, Idle
  <2>7. ASSUME NEW p \in Procs, RenewFail(p) PROVE LostStaysLost'
    BY <2>7 DEF RenewFail, TypeOK, Fence, Names, Idle
  <2>8. ASSUME NEW p \in Procs, CancelTurn(p) \/ SweepAborts(p) \/ Restart(p) PROVE LostStaysLost'
    BY <2>8 DEF CancelTurn, SweepAborts, Restart, TypeOK, Fence, Names, Idle
  <2>9. ASSUME NEW p \in Procs,
               \/ ReleaseCheck(p) \/ ReleaseFail(p) \/ StartTurn(p) \/ Write(p)
               \/ WriteRejected(p) \/ EndTurn(p)
        PROVE  LostStaysLost'
    <3>1. UNCHANGED <<row, sweep, released>>
      BY <2>9 DEF ReleaseCheck, ReleaseFail, StartTurn, Write, WriteRejected, EndTurn
    <3> QED
      BY <3>1 DEF Fence, Names
  <2>10. CASE UNCHANGED vars
    BY <2>10 DEF vars, Fence, Names
  <2> QED
    BY <2>1, <2>2, <2>3, <2>4, <2>5, <2>6, <2>7, <2>8, <2>9, <2>10
       DEF Next, ProcNext, Acquire, Backfill
<1> QED
  BY <1>1, <1>2, TypeCorrect, EpochsCountTenures, PTL DEF Spec

\* The heartbeat stops no turn of the tenure in force that was there when it
\* looked: see OnlyLostTurnsStopped.
THEOREM StopsOnlyLost == Spec => OnlyLostTurnsStopped
<1> DEFINE Stopped(p) == /\ turn[p].pc = "running" /\ turn'[p].pc = "cancelling"
                         /\ Fence(p, turn[p].auth) /\ turn[p].auth.tenure > released
           Judged == \A p \in Procs : Stopped(p) => turn[p].auth.tenure > sweep[p].auth.tenure
<1>1. TypeOK /\ EpochCountsTenures /\ LostStaysLost /\ [Next]_vars => Judged
  <2> SUFFICES ASSUME TypeOK, EpochCountsTenures, LostStaysLost, [Next]_vars,
                      NEW p \in Procs, Stopped(p),
                      ~(turn[p].auth.tenure > sweep[p].auth.tenure)
               PROVE  FALSE
    OBVIOUS
  <2>1. sweep[p].pc = "losing"
    <3>1. PICK q \in Procs : StartTurn(q) \/ WriteRejected(q) \/ EndTurn(q) \/ Restart(q) \/ CancelTurn(q)
      BY DEF Next, vars, Expire, ProcNext, Acquire, Backfill, AcquireAuthority, RenewBegin,
             RenewCheck, RenewCommit, RenewFail, SweepAborts, ReleaseCheck, ReleaseCommit,
             ReleaseFail, Write
    <3>2. CancelTurn(q)
      BY <3>1 DEF StartTurn, WriteRejected, EndTurn, Restart, TypeOK, Idle
    <3> QED
      BY <3>2 DEF CancelTurn, Cancelled, TypeOK
  <2>2. turn[p].auth \in Remembered(p) /\ sweep[p].auth \in Remembered(p)
    BY DEF Remembered
  <2>3. turn[p].auth.tenure = tenure
    BY <2>2, FenceNamesTenure, RememberedType DEF Fence, TypeOK
  <2>4. sweep[p].auth.tenure = tenure
    BY <2>2, <2>3, RememberedType DEF EpochCountsTenures, TypeOK
  <2>5. sweep[p].auth.epoch = turn[p].auth.epoch
    BY <2>2, <2>3, <2>4 DEF EpochCountsTenures
  <2> QED
    BY <2>1, <2>3, <2>4, <2>5 DEF LostStaysLost, Fence, Names
<1> QED
  BY <1>1, TypeCorrect, EpochsCountTenures, JudgedLost, PTL DEF Spec, OnlyLostTurnsStopped

\* OwnerLease implements SessionLease: see ImplementsLease.  A step of a
\* process begins a tenure, ends one, is a write of the tenure in force (or
\* of one from before a deletion), or is invisible to the session's users.
THEOREM Implementation == Spec => ImplementsLease
<1> DEFINE seen == IF row.live THEN row.owner ELSE NoOwner
           mapped == <<seen, tenure, released, wrote>>
<1>1. Init => Lease!LeaseInit
  BY DEF Init, NoRow, Lease!LeaseInit
<1>2. TypeOK /\ EpochCountsTenures /\ [Next]_vars
        => [Lease!Begin \/ Lease!End \/ Lease!Write]_(Lease!leaseVars)
  <2> SUFFICES ASSUME TypeOK, EpochCountsTenures, [Next]_vars
               PROVE  Lease!Begin \/ Lease!End \/ Lease!Write \/ UNCHANGED mapped
    BY DEF Lease!leaseVars
  <2>1. CASE Expire
    BY <2>1 DEF Expire, Lease!End, TypeOK
  <2>2. ASSUME NEW p \in Procs, AcquireAuthority(p)
        PROVE  Lease!Begin \/ UNCHANGED mapped
    BY <2>2, OwnerAssumption DEF AcquireAuthority, Lease!Begin, TypeOK
  <2>3. ASSUME NEW p \in Procs, ReleaseCommit(p)
        PROVE  Lease!End
    BY <2>3 DEF ReleaseCommit, NoRow, Lease!End
  <2>4. ASSUME NEW p \in Procs, Write(p)
        PROVE  Lease!Write
    <3>1. turn[p].auth \in Remembered(p) /\ Names(p, turn[p].auth) /\ wrote' = turn[p].auth.tenure
      BY <2>4 DEF Write, Fence, Remembered
    <3>2. wrote' = tenure \/ wrote' \in 0..released
      BY <3>1, FenceNamesTenure, RememberedType DEF TypeOK
    <3>3. row.live /\ row.owner # NoOwner
      BY <2>4, <3>1, OwnerAssumption DEF Write, Fence, Names
    <3> QED
      BY <2>4, <3>2, <3>3 DEF Write, Lease!Write
  <2>5. ASSUME NEW p \in Procs,
               \/ RenewBegin(p) \/ RenewCheck(p) \/ RenewCommit(p) \/ RenewFail(p)
               \/ SweepAborts(p) \/ ReleaseCheck(p) \/ ReleaseFail(p) \/ StartTurn(p)
               \/ WriteRejected(p) \/ EndTurn(p) \/ Restart(p)
        PROVE  UNCHANGED mapped
    BY <2>5 DEF RenewBegin, RenewCheck, RenewCommit, RenewFail, SweepAborts, ReleaseCheck,
                ReleaseFail, StartTurn, WriteRejected, EndTurn, Restart
  <2>6. ASSUME NEW p \in Procs, CancelTurn(p)
        PROVE  Lease!Write \/ UNCHANGED mapped
    <3>1. CASE turn[p].pc # "idle" /\ SessionSaved(p)
      <4>1. held[p] \in Remembered(p) /\ Names(p, held[p]) /\ wrote' = held[p].tenure
        BY <2>6, <3>1 DEF CancelTurn, SessionSaved, Fence, Remembered
      <4>2. wrote' = tenure \/ wrote' \in 0..released
        BY <4>1, FenceNamesTenure, RememberedType DEF TypeOK
      <4>3. row.live /\ row.owner # NoOwner
        BY <3>1, <4>1, OwnerAssumption DEF SessionSaved, Fence, Names
      <4> QED
        BY <2>6, <4>2, <4>3 DEF CancelTurn, Lease!Write
    <3> QED
      BY <2>6, <3>1 DEF CancelTurn
  <2>7. CASE UNCHANGED vars
    BY <2>7 DEF vars
  <2> QED
    BY <2>1, <2>2, <2>3, <2>4, <2>5, <2>6, <2>7 DEF Next, ProcNext, Acquire, Backfill
<1> QED
  BY <1>1, <1>2, TypeCorrect, EpochsCountTenures, PTL DEF Spec, ImplementsLease, Lease!LeaseSpec
=============================================================================
