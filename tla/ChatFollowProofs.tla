--------------------------- MODULE ChatFollowProofs ---------------------------
(***************************************************************************)
(* Proofs about ChatFollow for any queue size, any number of facts and any *)
(* number of epochs: the follower implements ChatReader.                   *)
(***************************************************************************)
EXTENDS ChatFollow, TLAPS, SequenceTheorems

FolType(n) == [pc : Stages, start : Nat, epoch : Nat, safe : Nat, high : Nat,
               item : 0..n, batch : SUBSET (1..n)]

\* What is known of a follower before and after a step, stage by stage.
LEMMA StageNames ==
    Stages = {"register", "verify", "capture", "replay", "off", "told", "follow", "check", "gap"}
BY DEF Stages, Opening

\* The follower at rest is one.
LEMMA OffType == ASSUME NEW n \in Nat PROVE Off \in FolType(n)
<1>1. {} \in SUBSET (1..n) /\ 0 \in 0..n /\ 0 \in Nat /\ "off" \in Stages
  BY StageNames
<1>. QED
  BY <1>1 DEF Off, FolType

\* The empty queue is a queue.
LEMMA EmptyQueue == <<>> \in Seq(1..Len(log)) /\ Len(<<>>) <= QueueSize
BY EmptySeq, FollowAssumption

\* A sequence of facts with other marks is one of the same length.
LEMMA Remarked ==
    ASSUME NEW n \in Nat, NEW s \in [1..n -> Facts]
    PROVE  s \in Seq(Facts) /\ Len(s) = n
<1>1. s \in Seq(Facts)
  BY SeqDef, Zenon
<1>. QED
  BY <1>1, LenProperties

-----------------------------------------------------------------------------
(* Type correctness.                                                       *)

\* Ending a stream leaves everything typed.
LEMMA TellType ==
    ASSUME TypeOK, Tell, UNCHANGED store
    PROVE  TypeOK'
<1>1. fol' \in FolType(Len(log))
  <2>1. Len(log) \in Nat /\ fol \in FolType(Len(log))
    BY DEF TypeOK, FolType
  <2>2. {} \in SUBSET (1..Len(log)) /\ 0 \in 0..Len(log) /\ "told" \in Stages
    BY <2>1, StageNames
  <2>3. fol' = [fol EXCEPT !.pc = "told", !.item = 0, !.batch = {}]
    BY DEF Tell
  <2>. QED
    BY <2>1, <2>2, <2>3, Zenon DEF FolType
<1>2. queue' \in Seq(1..Len(log)) /\ Len(queue') <= QueueSize /\ over' \in BOOLEAN
  BY EmptyQueue DEF Tell
<1>. QED
  BY <1>1, <1>2 DEF TypeOK, Tell, store, FolType

\* So does a change of the follower alone.
LEMMA FolStepType ==
    ASSUME TypeOK, fol' \in FolType(Len(log)), UNCHANGED <<log, epoch, owned, pending, lost, queue, over>>,
           emitted' \subseteq 1..Len(log)
    PROVE  TypeOK'
BY DEF TypeOK, FolType

\* Every action preserves the type invariant.
LEMMA TypeStep == TypeOK /\ [Next]_vars => TypeOK'
<1>. SUFFICES ASSUME TypeOK, [Next]_vars PROVE TypeOK'
  OBVIOUS
<1>0. /\ fol \in FolType(Len(log)) /\ queue \in Seq(1..Len(log)) /\ Len(log) \in Nat
      /\ fol.safe \in Nat /\ fol.high \in Nat /\ fol.item \in 0..Len(log) /\ fol.batch \in SUBSET (1..Len(log))
      /\ fol.start \in Nat /\ fol.epoch \in Nat
  BY DEF TypeOK, FolType
<1>1. ASSUME NEW kind \in Kinds, Commit(kind) PROVE TypeOK'
  <2>1. [kind |-> kind, until |-> 0] \in Facts
    BY DEF Facts
  <2>2. log' \in Seq(Facts) /\ Len(log') = Len(log) + 1
    BY <1>1, <2>1 DEF Commit, TypeOK
  <2>3. 1..Len(log) \subseteq 1..Len(log') /\ Len(log) + 1 \in 1..Len(log')
    BY <2>2, <1>0
  <2>4. queue' \in Seq(1..Len(log'))
    BY <1>0, <1>1, <2>3, SeqMonotonic DEF Commit
  <2>5. fol' \in FolType(Len(log'))
    BY <1>0, <1>1, <2>2 DEF Commit, FolType
  <2>. QED
    BY <1>1, <2>2, <2>3, <2>4, <2>5 DEF Commit, TypeOK, FolType
<1>2. ASSUME NEW i \in pending, Publish(i) PROVE TypeOK'
  <2>1. queue' \in Seq(1..Len(log)) /\ Len(queue') <= QueueSize /\ over' \in BOOLEAN
    <3>1. CASE Registered /\ Shown(i)
      <4>1. i \in 1..Len(log) /\ Len(queue) \in Nat
        BY <1>0 DEF TypeOK
      <4>2. CASE Len(queue) < QueueSize
        <5>1. queue' = Append(queue, i)
          BY <1>2, <3>1, <4>2 DEF Publish, Offer
        <5>2. queue' \in Seq(1..Len(log)) /\ Len(queue') = Len(queue) + 1
          BY <1>0, <4>1, <5>1
        <5>. QED
          BY <1>2, <3>1, <4>1, <4>2, <5>2, FollowAssumption DEF Publish, Offer, TypeOK
      <4>3. CASE ~(Len(queue) < QueueSize)
        BY <1>2, <3>1, <4>3 DEF Publish, Offer, TypeOK
      <4>. QED
        BY <4>2, <4>3
    <3>2. CASE ~(Registered /\ Shown(i))
      BY <1>2, <3>2 DEF Publish, TypeOK
    <3>. QED
      BY <3>1, <3>2
  <2>. QED
    BY <1>2, <2>1 DEF Publish, TypeOK
<1>3. ASSUME NEW i \in pending, Lose(i) PROVE TypeOK'
  BY <1>3 DEF Lose, TypeOK
<1>4. ASSUME NEW n \in 0..Len(log), Restore(n) PROVE TypeOK'
  <2>1. \A i \in 1..Len(log) : log[i] \in Facts
    BY <1>0 DEF TypeOK
  <2>2. \A i \in 1..Len(log) : [log[i] EXCEPT !.until = epoch + 1] \in Facts
    <3>1. epoch + 1 \in Nat
      BY DEF TypeOK
    <3>. QED
      BY <2>1, <3>1, Zenon DEF Facts
  <2>3. log' \in [1..Len(log) -> Facts]
    BY <1>4, <2>1, <2>2, Zenon DEF Restore
  <2>4. log' \in Seq(Facts) /\ Len(log') = Len(log)
    BY <1>0, <2>3, Remarked
  <2>5. epoch' \in Nat
    BY <1>4 DEF Restore, TypeOK
  <2>. QED
    BY <1>4, <2>4, <2>5 DEF Restore, TypeOK
<1>5. CASE Handover
  BY <1>5 DEF Handover, TypeOK
<1>6. ASSUME NEW start \in 0..Len(log), Open(start) PROVE TypeOK'
  <2>1. fol' \in FolType(Len(log))
    <3>1. start \in Nat /\ epoch \in Nat /\ {} \in SUBSET (1..Len(log)) /\ 0 \in 0..Len(log)
      BY <1>0 DEF TypeOK
    <3>. QED
      BY <1>6, <3>1, StageNames DEF Open, Off, FolType
  <2>. QED
    BY <1>6, <2>1 DEF Open, store, TypeOK, FolType
<1>7. CASE Resume
  <2>1. fol' \in FolType(Len(log))
    BY <1>0, <1>7, OffType, StageNames DEF Resume, FolType
  <2>. QED
    BY <1>7, <2>1 DEF Resume, store, TypeOK, FolType
<1>8. CASE Disconnect
  <2>1. Off \in FolType(Len(log))
    BY <1>0, OffType
  <2>. QED
    BY <1>8, <2>1, EmptyQueue DEF Disconnect, store, TypeOK, FolType
<1>9. CASE Register \/ Verify
  <2>1. CASE Tell
    BY <1>9, <2>1, TellType DEF Register, Verify
  <2>2. ASSUME NEW pc \in Stages, Goto(pc) PROVE TypeOK'
    <3>1. fol' \in FolType(Len(log))
      BY <1>0, <2>2 DEF Goto, FolType
    <3>. QED
      BY <1>9, <2>2, <3>1 DEF Goto, Register, Verify, store, TypeOK, FolType
  <2>. QED
    BY <1>9, <2>1, <2>2, StageNames DEF Register, Verify
<1>10. CASE Capture
  <2>1. fol' \in FolType(Len(log))
    BY <1>0, <1>10, StageNames DEF Capture, FolType
  <2>. QED
    BY <1>10, <2>1 DEF Capture, store, TypeOK, FolType
<1>11. \A last : Replayed(last) \subseteq 1..Len(log)
  BY DEF Replayed
<1>12. CASE Replay
  <2>1. CASE epoch = fol.epoch
    <3>1. Replayed(fol.high) \in SUBSET (1..Len(log)) /\ "follow" \in Stages
      BY <1>11, StageNames
    <3>2. fol' = [fol EXCEPT !.pc = "follow", !.batch = Replayed(fol.high)]
      BY <1>12, <2>1 DEF Replay
    <3>3. fol' \in FolType(Len(log))
      BY <1>0, <3>1, <3>2, Zenon DEF FolType
    <3>. QED
      BY <1>12, <2>1, <3>3 DEF Replay, store, TypeOK, FolType
  <2>2. CASE epoch # fol.epoch
    BY <1>12, <2>2, TellType DEF Replay
  <2>. QED
    BY <2>1, <2>2
<1>13. ASSUME NEW i \in 1..Len(log), NEW b \in SUBSET (1..Len(log)), Send(i, b), UNCHANGED store,
              UNCHANGED <<queue, over>>
       PROVE  TypeOK'
  <2>1. fol' \in FolType(Len(log))
    <3>1. i \in Nat /\ (IF i > fol.high THEN i ELSE fol.high) \in Nat /\ 0 \in 0..Len(log)
      BY <1>0
    <3>2. "follow" \in Stages
      BY StageNames
    <3>. QED
      BY <1>0, <1>13, <3>1, <3>2, Zenon DEF Send, FolType
  <2>2. emitted' \subseteq 1..Len(log)
    BY <1>13 DEF Send, TypeOK
  <2>. QED
    BY <1>13, <2>1, <2>2, FolStepType DEF store
<1>14. CASE Emit
  <2>1. PICK i \in fol.batch : Send(i, fol.batch \ {i})
    BY <1>14 DEF Emit
  <2>. QED
    BY <1>0, <1>14, <2>1, <1>13 DEF Emit
<1>15. CASE Overflow \/ Tick
  BY <1>15, TellType DEF Overflow, Tick
<1>16. CASE Take
  <2>1. Head(queue) \in 1..Len(log) /\ Tail(queue) \in Seq(1..Len(log))
        /\ Len(Tail(queue)) = Len(queue) - 1
    BY <1>0, <1>16, HeadTailProperties DEF Take
  <2>2. fol' \in FolType(Len(log))
    <3>1. Head(queue) \in 0..Len(log) /\ "check" \in Stages
      BY <2>1, StageNames
    <3>2. [fol EXCEPT !.pc = "check", !.item = Head(queue)] \in FolType(Len(log))
      BY <1>0, <3>1, Zenon DEF FolType
    <3>. QED
      BY <1>0, <1>16, <3>2 DEF Take
  <2>3. Len(queue') <= QueueSize
    BY <1>0, <1>16, <2>1, FollowAssumption DEF Take, TypeOK
  <2>. QED
    BY <1>16, <2>1, <2>2, <2>3 DEF Take, store, TypeOK, FolType
<1>17. CASE Check
  <2>1. CASE Tell
    BY <1>17, <2>1, TellType DEF Check
  <2>2. CASE fol.item = fol.safe + 1 /\ Send(fol.item, {}) /\ UNCHANGED <<queue, over>>
    <3>1. fol.item \in 1..Len(log)
      BY <1>0, <2>2
    <3>. QED
      BY <1>17, <2>2, <3>1, <1>13 DEF Check
  <2>3. CASE Goto("gap")
    <3>1. fol' \in FolType(Len(log))
      BY <1>0, <2>3, StageNames DEF Goto, FolType
    <3>. QED
      BY <1>17, <2>3, <3>1 DEF Check, Goto, store, TypeOK, FolType
  <2>. QED
    BY <1>17, <2>1, <2>2, <2>3 DEF Check
<1>18. CASE Gap
  <2>1. CASE Tell
    BY <1>18, <2>1, TellType DEF Gap
  <2>2. CASE ~Tell
    <3>1. Replayed(fol.item) \in SUBSET (1..Len(log)) /\ "follow" \in Stages /\ 0 \in 0..Len(log)
      BY <1>0, <1>11, StageNames
    <3>2. fol' = [fol EXCEPT !.pc = "follow", !.item = 0, !.batch = Replayed(fol.item)]
      BY <1>18, <2>2 DEF Gap
    <3>3. fol' \in FolType(Len(log))
      BY <1>0, <3>1, <3>2, Zenon DEF FolType
    <3>. QED
      BY <1>18, <2>2, <3>3 DEF Gap, store, TypeOK, FolType
  <2>. QED
    BY <2>1, <2>2
<1>19. CASE UNCHANGED vars
  BY <1>19 DEF vars, TypeOK
<1>. QED
  BY <1>1, <1>2, <1>3, <1>4, <1>5, <1>6, <1>7, <1>8, <1>9, <1>10, <1>12, <1>14, <1>15, <1>16,
     <1>17, <1>18, <1>19 DEF Next, Environment, Client, Bridge

\* Everything is typed initially.
LEMMA InitType == Init => TypeOK
<1>1. ASSUME Init PROVE TypeOK
  <2>0. log = <<>> /\ Len(log) = 0 /\ Len(queue) = 0
    BY <1>1, EmptySeq DEF Init
  <2>1. <<>> \in Seq(Facts) /\ Len(<<>>) = 0
    BY EmptySeq
  <2>2. Off \in FolType(0)
    BY OffType
  <2>3. <<>> \in Seq(1..0)
    BY EmptySeq
  <2>4. fol \in FolType(Len(log))
    BY <1>1, <2>0, <2>2, Zenon DEF Init
  <2>5. log \in Seq(Facts) /\ queue \in Seq(1..Len(log))
    BY <1>1, <2>0, <2>1, <2>3, Zenon DEF Init
  <2>6. Len(queue) <= QueueSize
    BY <2>0, FollowAssumption
  <2>. QED
    BY <1>1, <2>4, <2>5, <2>6 DEF Init, TypeOK, FolType
<1>. QED
  BY <1>1

\* Positions, queue and history stay typed in every execution.
THEOREM TypeCorrect == Spec => []TypeOK
BY InitType, TypeStep, PTL DEF Spec

-----------------------------------------------------------------------------
(* The follower reads everything.                                          *)

\* The positions are in order, and the follower is bound to no later epoch.
PosOK ==
    /\ fol.start <= fol.safe /\ fol.safe <= fol.high /\ fol.high <= Len(log)
    /\ fol.epoch <= epoch
    /\ \A i \in 1..Len(log) : log[i].until <= epoch

\* What is queued, or was taken, belongs to the view of the follower.
QueueOK ==
    /\ ~Registered => queue = <<>>
    /\ \A k \in 1..Len(queue) : queue[k] \in View
    /\ fol.pc \in {"check", "gap"} => fol.item \in View /\ fol.item > fol.high

\* What is to be sent comes after the position, with nothing missing below it.
BatchOK ==
    \A i \in fol.batch :
        /\ i \in View /\ fol.safe < i
        /\ \A j \in View : fol.safe < j /\ j < i => j \in fol.batch

Inv == PosOK /\ QueueOK /\ BatchOK /\ Reader!ToldAll

\* A step that leaves the log and the epoch of the follower leaves its view.
LEMMA SameView == log' = log /\ fol'.epoch = fol.epoch => View' = View
BY DEF View, Sees

\* What a replay in the follower's own epoch returns is the view there.
LEMMA ReplayedView ==
    ASSUME TypeOK, Inv, NEW last
    PROVE  /\ \A i \in Replayed(last) : i \in View /\ fol.safe < i /\ i <= last
           /\ epoch = fol.epoch =>
                  \A j \in View : fol.safe < j /\ j <= last => j \in Replayed(last)
<1>1. \A i \in 1..Len(log) : log[i].until \in Nat /\ log[i].until <= epoch
  <2>1. \A i \in 1..Len(log) : log[i] \in Facts
    BY DEF TypeOK
  <2>. QED
    BY <2>1 DEF Inv, PosOK, Facts
<1>2. epoch \in Nat
  BY DEF TypeOK
<1>. QED
  BY <1>1, <1>2 DEF View, Sees, Shown, Replayed

\* Sending the least of a batch, or the one next to the position, tells.
LEMMA SendTells ==
    ASSUME TypeOK, Inv, NEW i \in View, NEW b \in SUBSET Nat, Send(i, b), UNCHANGED log,
           fol.safe < i, \A j \in View : fol.safe < j => i <= j
    PROVE  Reader!Tell /\ Reader!ToldAll'
<1>0. /\ fol.safe \in Nat /\ fol.start \in Nat /\ fol.start <= fol.safe
      /\ View \subseteq Nat /\ Reader!ToldAll
  BY DEF TypeOK, Inv, PosOK, View
<1>1. fol'.safe = i /\ fol'.start = fol.start /\ fol'.epoch = fol.epoch
  BY DEF Send, TypeOK
<1>2. View' = View
  BY <1>1, SameView
<1>3. emitted' = emitted \cup {i}
  BY DEF Send
<1>4. Reader!Tell
  BY <1>0, <1>1, <1>2, <1>3 DEF Reader!Tell
<1>5. emitted' = {k \in View : fol.start < k /\ k <= i}
  <2>1. i \in Nat /\ \A k \in View : k \in Nat /\ (k <= fol.safe \/ i <= k)
    BY <1>0
  <2>2. emitted = {k \in View : fol.start < k /\ k <= fol.safe}
    BY <1>0 DEF Reader!ToldAll
  <2>3. \A k \in View : (fol.start < k /\ k <= i) <=> ((fol.start < k /\ k <= fol.safe) \/ k = i)
    BY <1>0, <2>1
  <2>. QED
    BY <1>3, <2>2, <2>3
<1>. QED
  BY <1>1, <1>2, <1>4, <1>5 DEF Reader!ToldAll

\* Every step is one of a chat reader, or none at all.
ReaderStep == Reader!Grow \/ Reader!Tell \/ Reader!Begin \/ UNCHANGED Reader!readerVars

\* A step that leaves view, start, position and history is none of the reader's.
LEMMA Stutter ==
    ASSUME Inv, UNCHANGED <<log, emitted>>, fol'.start = fol.start, fol'.safe = fol.safe,
           fol'.epoch = fol.epoch
    PROVE  ReaderStep /\ Reader!ToldAll'
BY SameView DEF Inv, ReaderStep, Reader!readerVars, Reader!ToldAll

\* Ending a stream keeps the invariant.
LEMMA TellInv ==
    ASSUME TypeOK, Inv, Tell, UNCHANGED store
    PROVE  Inv' /\ ReaderStep
<1>1. /\ fol'.start = fol.start /\ fol'.safe = fol.safe /\ fol'.high = fol.high
      /\ fol'.epoch = fol.epoch /\ fol'.pc = "told" /\ fol'.batch = {}
  BY DEF Tell, TypeOK
<1>2. Reader!ToldAll' /\ ReaderStep
  BY <1>1, Stutter DEF Tell, store
<1>3. PosOK'
  BY <1>1 DEF Inv, PosOK, store
<1>4. QueueOK' /\ BatchOK'
  BY <1>1, EmptySeq DEF QueueOK, BatchOK, Registered, Tell
<1>. QED
  BY <1>2, <1>3, <1>4 DEF Inv

\* A step of the follower that only moves it between stages keeps it too.
LEMMA MoveInv ==
    ASSUME TypeOK, Inv, UNCHANGED <<log, epoch, queue, emitted>>,
           fol'.start = fol.start, fol'.safe = fol.safe, fol'.high = fol.high,
           fol'.epoch = fol.epoch, fol'.batch = fol.batch, fol'.item = fol.item,
           fol'.pc \in {"check", "gap"} => fol.pc \in {"check", "gap"},
           Registered => Registered'
    PROVE  Inv' /\ ReaderStep
<1>1. Reader!ToldAll' /\ ReaderStep
  BY Stutter
<1>2. View' = View
  BY SameView
<1>. QED
  BY <1>1, <1>2 DEF Inv, PosOK, QueueOK, BatchOK

\* Every step keeps the invariant, and is one of the reader's.
LEMMA InvStep == TypeOK /\ TypeOK' /\ Inv /\ [Next]_vars => Inv' /\ ReaderStep
<1>. SUFFICES ASSUME TypeOK, TypeOK', Inv, [Next]_vars PROVE Inv' /\ ReaderStep
  OBVIOUS
<1>0. /\ Len(log) \in Nat /\ epoch \in Nat
      /\ fol.safe \in Nat /\ fol.high \in Nat /\ fol.start \in Nat /\ fol.epoch \in Nat
      /\ fol.item \in Nat /\ fol.batch \subseteq 1..Len(log)
      /\ View \subseteq 1..Len(log) /\ emitted = {i \in View : fol.start < i /\ i <= fol.safe}
      /\ PosOK /\ QueueOK /\ BatchOK
      /\ queue \in Seq(1..Len(log))
  BY DEF TypeOK, Inv, View, Reader!ToldAll
<1>a. \A i \in 1..Len(log) : log[i] \in Facts
  BY DEF TypeOK
<1>1. ASSUME NEW kind \in Kinds, Commit(kind) PROVE Inv' /\ ReaderStep
  <2>1. /\ Len(log') = Len(log) + 1
        /\ \A i \in 1..Len(log) : log'[i] = log[i]
        /\ log'[Len(log) + 1].until = 0
    BY <1>0, <1>1 DEF Commit, TypeOK
  <2>2. View \subseteq View' /\ \A i \in View' \ View : i = Len(log) + 1
    BY <1>0, <1>1, <2>1 DEF View, Sees, Commit
  <2>3. View' \subseteq Nat
    BY <1>0, <2>1 DEF View
  <2>4. PosOK'
    BY <1>0, <1>1, <2>1 DEF PosOK, Commit
  <2>5. QueueOK' /\ BatchOK'
    BY <1>0, <1>1, <2>2 DEF QueueOK, BatchOK, PosOK, Registered, Commit
  <2>6. Reader!Grow
    BY <1>0, <1>1, <2>2, <2>3 DEF Reader!Grow, PosOK, Commit
  <2>7. Reader!ToldAll'
    <3>1. fol' = fol /\ emitted' = emitted
      BY <1>1 DEF Commit
    <3>2. ~(Len(log) + 1 <= fol.safe)
      BY <1>0 DEF PosOK
    <3>. QED
      BY <1>0, <2>2, <3>1, <3>2, Zenon DEF Reader!ToldAll
  <2>. QED
    BY <2>4, <2>5, <2>6, <2>7 DEF Inv, ReaderStep
<1>2. ASSUME NEW i \in pending, Publish(i) PROVE Inv' /\ ReaderStep
  <2>0. fol' = fol /\ UNCHANGED <<log, epoch, emitted>>
    BY <1>2 DEF Publish
  <2>1. Reader!ToldAll' /\ ReaderStep /\ View' = View
    BY <2>0, Stutter, SameView
  <2>2. i \in 1..Len(log) /\ (Shown(i) => i \in View)
    BY DEF TypeOK, Shown, View, Sees
  <2>3. QueueOK'
    <3>1. CASE queue' = queue
      BY <1>0, <2>0, <2>1, <3>1 DEF QueueOK, Registered
    <3>2. CASE queue' # queue
      <4>1. Shown(i) /\ queue' = Append(queue, i)
        BY <1>2, <3>2 DEF Publish, Offer
      <4>2. Len(queue') = Len(queue) + 1 /\ \A k \in 1..Len(queue') :
                queue'[k] = IF k <= Len(queue) THEN queue[k] ELSE i
        BY <1>0, <2>2, <4>1
      <4>3. Len(queue) \in Nat /\ Registered
        BY <1>0, <1>2, <3>2 DEF Publish
      <4>. QED
        BY <1>0, <2>0, <2>1, <2>2, <4>1, <4>2, <4>3 DEF QueueOK, Registered
    <3>. QED
      BY <3>1, <3>2
  <2>. QED
    BY <1>0, <2>0, <2>1, <2>3 DEF Inv, PosOK, BatchOK
<1>3. ASSUME NEW i \in pending, Lose(i) PROVE Inv' /\ ReaderStep
  BY <1>3, MoveInv DEF Lose, Registered
<1>4. ASSUME NEW n \in 0..Len(log), Restore(n) PROVE Inv' /\ ReaderStep
  <2>1. Len(log') = Len(log)
    <3>1. DOMAIN log' = 1..Len(log) /\ log' \in Seq(Facts)
      BY <1>4 DEF Restore, TypeOK
    <3>. QED
      BY <1>0, <3>1, LenProperties
  <2>2. \A i \in 1..Len(log) :
            /\ log'[i].kind = log[i].kind
            /\ log'[i].until = log[i].until \/ (log[i].until = 0 /\ log'[i].until = epoch + 1)
    <3>1. \A i \in 1..Len(log) : log'[i] =
              IF i > n /\ log[i].until = 0 THEN [log[i] EXCEPT !.until = epoch + 1] ELSE log[i]
      BY <1>4, Zenon DEF Restore
    <3>. QED
      <4>1. ASSUME NEW i \in 1..Len(log)
            PROVE  /\ log'[i].kind = log[i].kind
                   /\ log'[i].until = log[i].until \/ (log[i].until = 0 /\ log'[i].until = epoch + 1)
        <5>1. log[i] \in Facts
          BY <1>a
        <5>2. CASE i > n /\ log[i].until = 0
          BY <3>1, <5>1, <5>2 DEF Facts
        <5>3. CASE ~(i > n /\ log[i].until = 0)
          BY <3>1, <5>3, Zenon
        <5>. QED
          BY <5>2, <5>3
      <4>. QED
        BY <4>1, Zenon
  <2>3. fol' = fol /\ epoch' = epoch + 1 /\ emitted' = emitted /\ queue' = queue
    BY <1>4 DEF Restore
  <2>4. View' = View
    <3>1. epoch + 1 > fol.epoch /\ epoch + 1 # 0
      BY <1>0 DEF PosOK
    <3>. QED
      BY <2>1, <2>2, <2>3, <3>1 DEF View, Sees
  <2>5. PosOK'
    <3>1. \A i \in 1..Len(log) : log[i].until \in Nat /\ log[i].until <= epoch
      BY <1>0, <1>a DEF PosOK, Facts
    <3>2. \A i \in 1..Len(log) : log'[i].until <= epoch + 1
      <4>1. ASSUME NEW i \in 1..Len(log) PROVE log'[i].until <= epoch + 1
        <5>1. log[i].until \in Nat /\ log[i].until <= epoch /\ epoch \in Nat
          BY <1>0, <3>1
        <5>2. log'[i].until = log[i].until \/ log'[i].until = epoch + 1
          BY <2>2
        <5>. QED
          BY <5>1, <5>2
      <4>. QED
        BY <4>1
    <3>. QED
      BY <1>0, <2>1, <2>3, <3>2 DEF PosOK
  <2>. QED
    BY <1>0, <2>3, <2>4, <2>5
      DEF Inv, QueueOK, BatchOK, Registered, Reader!ToldAll, ReaderStep, Reader!readerVars
<1>5. CASE Handover
  BY <1>5, MoveInv DEF Handover, Registered
<1>6. ASSUME NEW start \in 0..Len(log), Open(start) PROVE Inv' /\ ReaderStep
  <2>1. /\ fol'.pc = "register" /\ fol'.start = start /\ fol'.epoch = epoch
        /\ fol'.safe = start /\ fol'.high = start /\ fol'.batch = {}
        /\ emitted' = {} /\ UNCHANGED <<log, epoch, queue>>
    BY <1>6 DEF Open, Off, store
  <2>2. queue = <<>>
    BY <1>0, <1>6 DEF Open, QueueOK, Registered
  <2>3. PosOK' /\ QueueOK' /\ BatchOK'
    BY <1>0, <2>1, <2>2, EmptySeq DEF PosOK, QueueOK, BatchOK, Registered
  <2>4. View' \subseteq Nat /\ start \in Nat
    BY <1>0, <2>1 DEF View
  <2>5. Reader!Begin /\ Reader!ToldAll'
    <3>1. \A i \in View' : ~(start < i /\ i <= start)
      BY <2>4
    <3>. QED
      BY <2>1, <2>4, <3>1, Zenon DEF Reader!Begin, Reader!ToldAll
  <2>. QED
    BY <2>3, <2>5 DEF Inv, ReaderStep
<1>7. ASSUME fol' = Off, emitted' = {}, queue' = <<>>, UNCHANGED <<log, epoch>>
      PROVE  Inv' /\ ReaderStep
  <2>1. /\ fol'.pc = "off" /\ fol'.start = 0 /\ fol'.epoch = 0
        /\ fol'.safe = 0 /\ fol'.high = 0 /\ fol'.batch = {}
    BY <1>7 DEF Off
  <2>2. PosOK' /\ QueueOK' /\ BatchOK'
    BY <1>0, <1>7, <2>1, EmptySeq DEF PosOK, QueueOK, BatchOK, Registered
  <2>3. View' \subseteq Nat
    BY <1>0, <1>7 DEF View
  <2>4. Reader!Begin /\ Reader!ToldAll'
    <3>1. \A i \in View' : ~(0 < i /\ i <= 0)
      BY <2>3
    <3>2. 0 \in Nat
      OBVIOUS
    <3>. QED
      BY <1>7, <2>1, <2>3, <3>1, <3>2, Zenon DEF Reader!Begin, Reader!ToldAll
  <2>. QED
    BY <2>2, <2>4 DEF Inv, ReaderStep
<1>8. CASE Disconnect
  BY <1>7, <1>8 DEF Disconnect, store
<1>9. CASE Resume
  <2>1. queue = <<>> /\ UNCHANGED <<log, epoch, queue>>
    BY <1>0, <1>9 DEF Resume, QueueOK, Registered, store
  <2>2. CASE fol.epoch = epoch
    <3>1. /\ fol'.pc = "register" /\ fol'.start = fol.start /\ fol'.epoch = fol.epoch
          /\ fol'.safe = fol.safe /\ fol'.high = fol.safe /\ fol'.batch = fol.batch
          /\ emitted' = emitted
      BY <1>9, <2>2 DEF Resume, TypeOK
    <3>2. Reader!ToldAll' /\ ReaderStep /\ View' = View
      BY <2>1, <3>1, Stutter, SameView
    <3>3. PosOK' /\ QueueOK' /\ BatchOK'
      BY <1>0, <2>1, <3>1, <3>2, EmptySeq DEF PosOK, QueueOK, BatchOK, Registered
    <3>. QED
      BY <3>2, <3>3 DEF Inv
  <2>3. CASE fol.epoch # epoch
    BY <1>7, <1>9, <2>1, <2>3 DEF Resume
  <2>. QED
    BY <2>2, <2>3
<1>10. CASE Register \/ Verify
  <2>1. CASE Tell
    BY <1>10, <2>1, TellInv DEF Register, Verify
  <2>2. ASSUME NEW pc \in {"verify", "capture"}, Goto(pc), UNCHANGED store PROVE Inv' /\ ReaderStep
    <3>1. /\ fol'.start = fol.start /\ fol'.safe = fol.safe /\ fol'.high = fol.high
          /\ fol'.epoch = fol.epoch /\ fol'.batch = fol.batch /\ fol'.item = fol.item
          /\ fol'.pc = pc /\ UNCHANGED <<log, epoch, queue, emitted>>
      BY <2>2 DEF Goto, TypeOK, store
    <3>. QED
      BY <3>1, MoveInv DEF Registered
  <2>. QED
    BY <1>10, <2>1, <2>2 DEF Register, Verify
<1>11. CASE Capture
  <2>1. /\ fol'.start = fol.start /\ fol'.safe = fol.safe /\ fol'.high = Len(log)
        /\ fol'.epoch = fol.epoch /\ fol'.batch = fol.batch /\ fol'.pc = "replay"
        /\ UNCHANGED <<log, epoch, queue, emitted>> /\ Registered
    BY <1>11 DEF Capture, TypeOK, store, Registered
  <2>2. Reader!ToldAll' /\ ReaderStep /\ View' = View
    BY <2>1, Stutter, SameView
  <2>3. PosOK'
    BY <1>0, <2>1 DEF PosOK
  <2>4. QueueOK' /\ BatchOK'
    BY <1>0, <2>1, <2>2 DEF QueueOK, BatchOK, Registered
  <2>. QED
    BY <2>2, <2>3, <2>4 DEF Inv
<1>12. ASSUME NEW last \in Nat, epoch = fol.epoch, Registered, fol'.pc = "follow",
              fol'.batch = Replayed(last), fol'.start = fol.start, fol'.safe = fol.safe,
              fol'.high = fol.high, fol'.epoch = fol.epoch, UNCHANGED <<log, epoch, queue, emitted>>
       PROVE  Inv' /\ ReaderStep
  <2>1. Reader!ToldAll' /\ ReaderStep /\ View' = View
    BY <1>12, Stutter, SameView
  <2>2. BatchOK'
    <3>1. SUFFICES ASSUME NEW i \in Replayed(last), NEW j \in View, fol.safe < j, j < i
                   PROVE  j \in Replayed(last)
      BY <1>12, <2>1, ReplayedView DEF BatchOK
    <3>2. i \in View /\ i <= last
      BY ReplayedView
    <3>3. j <= last
      BY <1>0, <3>1, <3>2
    <3>. QED
      BY <1>12, <3>1, <3>3, ReplayedView
  <2>. QED
    BY <1>0, <1>12, <2>1, <2>2 DEF Inv, PosOK, QueueOK, Registered
<1>13. CASE Replay
  <2>1. CASE epoch = fol.epoch
    <3>1. fol' = [fol EXCEPT !.pc = "follow", !.batch = Replayed(fol.high)]
      BY <1>13, <2>1 DEF Replay
    <3>2. /\ fol'.pc = "follow" /\ fol'.batch = Replayed(fol.high) /\ fol'.start = fol.start
          /\ fol'.safe = fol.safe /\ fol'.high = fol.high /\ fol'.epoch = fol.epoch
      BY <3>1 DEF TypeOK
    <3>. QED
      BY <1>0, <1>12, <1>13, <2>1, <3>2 DEF Replay, Registered, store
  <2>2. CASE epoch # fol.epoch
    BY <1>13, <2>2, TellInv DEF Replay
  <2>. QED
    BY <2>1, <2>2
<1>14. ASSUME NEW i \in View, NEW b \in SUBSET Nat, Send(i, b), UNCHANGED store,
              UNCHANGED queue, Registered, fol.safe < i, BatchOK',
              \A j \in View : fol.safe < j => i <= j
       PROVE  Inv' /\ ReaderStep
  <2>1. Reader!Tell /\ Reader!ToldAll'
    BY <1>14, SendTells DEF store
  <2>2. /\ fol'.pc = "follow" /\ fol'.safe = i /\ fol'.start = fol.start
        /\ fol'.epoch = fol.epoch /\ fol'.high = IF i > fol.high THEN i ELSE fol.high
    BY <1>14 DEF Send, TypeOK
  <2>3. View' = View
    BY <1>14, <2>2, SameView DEF store
  <2>4. PosOK'
    <3>1. i \in Nat /\ i <= Len(log)
      BY <1>0, <1>14
    <3>. QED
      BY <1>0, <1>14, <2>2, <3>1 DEF PosOK, store
  <2>5. QueueOK'
    BY <1>0, <1>14, <2>2, <2>3 DEF QueueOK, Registered
  <2>. QED
    BY <1>14, <2>1, <2>4, <2>5 DEF Inv, ReaderStep
<1>15. CASE Emit
  <2>1. PICK i \in fol.batch : (\A j \in fol.batch : i <= j) /\ Send(i, fol.batch \ {i})
    BY <1>15 DEF Emit
  <2>2. i \in View /\ fol.safe < i /\ \A j \in View : fol.safe < j => i <= j
    <3>1. \A j \in View : fol.safe < j /\ j < i => j \in fol.batch
      BY <1>0 DEF BatchOK
    <3>2. i \in View /\ fol.safe < i /\ i \in Nat /\ \A j \in View : j \in Nat
      BY <1>0 DEF BatchOK
    <3>. QED
      BY <2>1, <3>1, <3>2
  <2>3. fol'.safe = i /\ fol'.batch = fol.batch \ {i} /\ fol'.epoch = fol.epoch
    BY <2>1 DEF Send, TypeOK
  <2>4. View' = View
    BY <1>15, <2>3, SameView DEF Emit, store
  <2>5. BatchOK'
    BY <1>0, <2>1, <2>2, <2>3, <2>4 DEF BatchOK
  <2>6. fol.batch \ {i} \in SUBSET Nat
    BY <1>0
  <2>. QED
    BY <1>14, <1>15, <2>1, <2>2, <2>5, <2>6 DEF Emit, Registered
<1>16. CASE Overflow \/ Tick
  BY <1>16, TellInv DEF Overflow, Tick
<1>17. CASE Take
  <2>1. /\ Head(queue) = queue[1] /\ Len(queue) \in Nat \ {0} /\ Len(queue') = Len(queue) - 1
        /\ \A k \in 1..Len(queue') : queue'[k] = queue[k + 1]
    BY <1>0, <1>17, HeadTailProperties, EmptySeq DEF Take
  <2>2. Head(queue) \in View /\ \A k \in 1..Len(queue') : queue'[k] \in View
    <3>1. \A k \in 1..Len(queue) : queue[k] \in View
      BY <1>0 DEF QueueOK
    <3>2. 1 \in 1..Len(queue) /\ \A k \in 1..Len(queue') : k + 1 \in 1..Len(queue)
      BY <2>1
    <3>. QED
      BY <2>1, <3>1, <3>2, Zenon
  <2>3. UNCHANGED <<log, epoch, emitted>> /\ Registered
    BY <1>17 DEF Take, store, Waiting, Registered
  <2>4. /\ fol'.start = fol.start /\ fol'.safe = fol.safe /\ fol'.high = fol.high
        /\ fol'.epoch = fol.epoch /\ fol'.batch = fol.batch /\ fol'.pc \in {"follow", "check"}
        /\ fol'.pc = "check" => fol'.item = Head(queue) /\ ~(Head(queue) <= fol.high)
    BY <1>17 DEF Take, Waiting, TypeOK
  <2>5. Reader!ToldAll' /\ ReaderStep /\ View' = View
    BY <2>3, <2>4, Stutter, SameView
  <2>6. PosOK' /\ BatchOK'
    BY <1>0, <2>3, <2>4, <2>5 DEF PosOK, BatchOK
  <2>7. QueueOK'
    <3>1. Head(queue) \in Nat
      <4>1. View \subseteq Nat
        BY DEF View
      <4>. QED
        BY <2>2, <4>1
    <3>. QED
      BY <1>0, <2>2, <2>4, <2>5, <3>1 DEF QueueOK, Registered
  <2>. QED
    BY <2>5, <2>6, <2>7 DEF Inv
<1>18. CASE Check
  <2>1. CASE Tell
    BY <1>18, <2>1, TellInv DEF Check
  <2>2. CASE fol.item = fol.safe + 1 /\ Send(fol.item, {}) /\ UNCHANGED <<queue, over>>
    <3>1. fol.item \in View /\ fol.safe < fol.item /\ \A j \in View : fol.safe < j => fol.item <= j
      BY <1>0, <1>18, <2>2 DEF Check, QueueOK
    <3>2. fol'.batch = {}
      BY <2>2 DEF Send, TypeOK
    <3>3. BatchOK'
      BY <3>2 DEF BatchOK
    <3>. QED
      BY <1>14, <1>18, <2>2, <3>1, <3>3 DEF Check, Registered
  <2>3. CASE Goto("gap")
    <3>1. /\ fol'.start = fol.start /\ fol'.safe = fol.safe /\ fol'.high = fol.high
          /\ fol'.epoch = fol.epoch /\ fol'.batch = fol.batch /\ fol'.item = fol.item
          /\ fol'.pc = "gap" /\ UNCHANGED <<log, epoch, queue, emitted>>
      BY <1>18, <2>3 DEF Check, Goto, TypeOK, store
    <3>. QED
      BY <1>18, <3>1, MoveInv DEF Check, Registered
  <2>. QED
    BY <1>18, <2>1, <2>2, <2>3 DEF Check
<1>19. CASE Gap
  <2>1. CASE epoch = fol.epoch /\ fol.item \in Replayed(fol.item)
    <3>1. fol' = [fol EXCEPT !.pc = "follow", !.item = 0, !.batch = Replayed(fol.item)]
          /\ UNCHANGED <<queue, over, emitted>>
      BY <1>19, <2>1 DEF Gap
    <3>2. /\ fol'.pc = "follow" /\ fol'.batch = Replayed(fol.item) /\ fol'.start = fol.start
          /\ fol'.safe = fol.safe /\ fol'.high = fol.high /\ fol'.epoch = fol.epoch
      BY <3>1 DEF TypeOK
    <3>. QED
      BY <1>0, <1>12, <1>19, <2>1, <3>1, <3>2 DEF Gap, Registered, store
  <2>2. CASE ~(epoch = fol.epoch /\ fol.item \in Replayed(fol.item))
    BY <1>19, <2>2, TellInv DEF Gap
  <2>. QED
    BY <2>1, <2>2
<1>20. CASE UNCHANGED vars
  BY <1>20, MoveInv DEF vars, Registered
<1>. QED
  BY <1>1, <1>2, <1>3, <1>4, <1>5, <1>6, <1>8, <1>9, <1>10, <1>11, <1>13, <1>15, <1>16, <1>17,
     <1>18, <1>19, <1>20 DEF Next, Environment, Client, Bridge

\* The invariant holds initially, and the reader starts where it should.
LEMMA InitInv == Init => Inv /\ Reader!ReaderInit
<1>. SUFFICES ASSUME Init PROVE Inv /\ Reader!ReaderInit
  OBVIOUS
<1>1. /\ log = <<>> /\ Len(log) = 0 /\ Len(queue) = 0 /\ queue = <<>> /\ emitted = {} /\ epoch = 0
      /\ fol.pc = "off" /\ fol.start = 0 /\ fol.safe = 0 /\ fol.high = 0 /\ fol.epoch = 0
      /\ fol.batch = {}
  BY EmptySeq DEF Init, Off
<1>2. View = {} /\ 1..Len(log) = {} /\ 1..Len(queue) = {}
  BY <1>1 DEF View
<1>3. PosOK /\ QueueOK /\ BatchOK
  BY <1>1, <1>2 DEF PosOK, QueueOK, BatchOK
<1>4. Reader!ToldAll /\ Reader!ReaderInit
  BY <1>1, <1>2 DEF Reader!ToldAll, Reader!ReaderInit
<1>. QED
  BY <1>3, <1>4 DEF Inv

\* The invariant holds in every execution.
LEMMA InvHolds == Spec => [](TypeOK /\ Inv)
<1>1. Init => TypeOK /\ Inv
  BY InitType, InitInv
<1>2. (TypeOK /\ Inv) /\ [Next]_vars => (TypeOK /\ Inv)'
  BY TypeStep, InvStep
<1>. QED
  BY <1>1, <1>2, PTL DEF Spec

\* Every execution of the follower is one of a chat reader: it tells every
\* fact of its view once and in order, and skips none.
THEOREM Implementation == Spec => TellsAll
<1>1. Init => Reader!ReaderInit
  BY InitInv
<1>2. (TypeOK /\ Inv) /\ (TypeOK /\ Inv)' /\ [Next]_vars =>
          [Reader!Grow \/ Reader!Tell \/ Reader!Begin]_(Reader!readerVars)
  BY InvStep DEF ReaderStep
<1>. QED
  BY <1>1, <1>2, InvHolds, PTL DEF Spec, TellsAll, Reader!ReaderSpec

\* At every moment the client was told exactly the facts of its view from
\* where it began to where the stream is, so the cursor of a control resumes
\* with nothing lost.
THEOREM NothingSkipped == Spec => []Reader!ToldAll
<1>1. TypeOK /\ Inv => Reader!ToldAll
  BY DEF Inv
<1>. QED
  BY <1>1, InvHolds, PTL
=============================================================================
