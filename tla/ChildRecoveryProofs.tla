------------------------- MODULE ChildRecoveryProofs -------------------------
(***************************************************************************)
(* Proofs about ChildRecovery for any number of workers, lease ids, owner  *)
(* epochs and commands: pending control is heeded, and the settlement of   *)
(* the parent is found again.                                              *)
(***************************************************************************)
EXTENDS ChildRecovery, TLAPS, FiniteSetTheorems, SequenceTheorems

\* A lease whose cut is the present generation was cut when nothing that is
\* pending now was: the cut stands for the absence of control.
LeaseGood(l, gen, pend) == l # NoLease => l.cut <= gen /\ (l.cut = gen => ~pend)

\* What is known of a port at each stage.
PortGood(wk, ch, gen, pend) ==
    /\ wk.fresh => wk.pc \in Authorizing \cup {"broken"} /\ ch \in {"waiting", "prepared"}
    /\ wk.pc \notin {"idle", "settling"} => wk.lease # NoLease
    /\ wk.pc = "commit" => wk.req = wk.lease.cut
    /\ LeaseGood(wk.lease, gen, pend)

PortsGood == \A w \in Workers : PortGood(worker[w], child, Generation, PendingControl)

\* A recovery settles the parent only after the child has ended, and then no
\* lease changes any more.
SettledGood ==
    /\ ReceiptFound
    /\ \A r \in receipts : r # Live => child = "terminal"

Inv ==
    /\ TypeOK
    /\ LeaseGood(active, Generation, PendingControl)
    /\ PortsGood
    /\ SettledGood

-----------------------------------------------------------------------------
(* The mailbox and its generation.                                         *)

\* The generation is a number, and no larger than the mailbox.
LEMMA GenerationBound ==
    ASSUME mail \in Seq(Commands)
    PROVE  /\ Generation \in Nat /\ Generation <= Len(mail)
           /\ IsFiniteSet({i \in DOMAIN mail : Invalidates(mail[i])})
<1>. DEFINE S == {i \in DOMAIN mail : Invalidates(mail[i])}
<1>1. Len(mail) \in Nat /\ DOMAIN mail = 1..Len(mail)
  OBVIOUS
<1>2. IsFiniteSet(1..Len(mail)) /\ Cardinality(1..Len(mail)) = Len(mail)
  BY <1>1, FS_Interval
<1>3. S \subseteq 1..Len(mail)
  BY <1>1
<1>4. IsFiniteSet(S) /\ Cardinality(S) <= Cardinality(1..Len(mail))
  BY <1>2, <1>3, FS_Subset
<1>5. Cardinality(S) \in Nat
  BY <1>4, FS_CardinalityType
<1>. QED
  BY <1>2, <1>4, <1>5 DEF Generation

\* A command admitted never lowers the generation, and one that leaves it
\* unchanged is no control.
LEMMA AdmitGeneration ==
    ASSUME mail \in Seq(Commands), NEW c \in Commands, mail' = Append(mail, c)
    PROVE  /\ mail' \in Seq(Commands) /\ Len(mail') = Len(mail) + 1
           /\ Generation <= Generation' /\ Generation' \in Nat
           /\ Generation' = Generation /\ PendingControl' => PendingControl
<1>. DEFINE S == {i \in DOMAIN mail : Invalidates(mail[i])}
            n == Len(mail)
<1>1. n \in Nat /\ DOMAIN mail = 1..n
  OBVIOUS
<1>2. mail' \in Seq(Commands) /\ Len(mail') = n + 1 /\ DOMAIN mail' = 1..(n + 1)
  OBVIOUS
<1>3. mail'[n + 1] = c /\ \A i \in 1..n : mail'[i] = mail[i]
  OBVIOUS
<1>4. Generation \in Nat /\ IsFiniteSet(S)
  BY GenerationBound
<1>5. CASE Invalidates(c)
  <2>1. {i \in DOMAIN mail' : Invalidates(mail'[i])} = S \cup {n + 1}
    BY <1>1, <1>2, <1>3, <1>5
  <2>2. n + 1 \notin S
    BY <1>1
  <2>3. Cardinality(S \cup {n + 1}) = Cardinality(S) + 1
    BY <1>4, <2>2, FS_AddElement
  <2>4. Generation' = Generation + 1
    BY <2>1, <2>3 DEF Generation
  <2>. QED
    BY <1>2, <1>4, <2>4
<1>6. CASE ~Invalidates(c)
  <2>1. {i \in DOMAIN mail' : Invalidates(mail'[i])} = S
    BY <1>1, <1>2, <1>3, <1>6
  <2>2. Generation' = Generation
    BY <2>1 DEF Generation
  <2>3. PendingControl' => PendingControl
    BY <1>1, <1>2, <1>3, <1>6 DEF PendingControl, Matched
  <2>. QED
    BY <1>2, <1>4, <2>2, <2>3
<1>. QED
  BY <1>5, <1>6

\* Closing a command changes neither, except that it is no longer pending.
LEMMA CloseGeneration ==
    ASSUME mail \in Seq(Commands), NEW i \in DOMAIN mail, mail' = [mail EXCEPT ![i].open = FALSE]
    PROVE  /\ mail' \in Seq(Commands) /\ Len(mail') = Len(mail)
           /\ Generation' = Generation
           /\ PendingControl' => PendingControl
<1>1. Len(mail) \in Nat /\ DOMAIN mail = 1..Len(mail) /\ \A j \in DOMAIN mail : mail[j] \in Commands
  OBVIOUS
<1>2. \A j \in DOMAIN mail : [mail[j] EXCEPT !.open = FALSE] \in Commands
  BY <1>1, Zenon DEF Commands
<1>3. DOMAIN mail' = DOMAIN mail /\ mail' \in [1..Len(mail) -> Commands]
  BY <1>1, <1>2, Zenon
<1>4. mail' \in Seq(Commands) /\ Len(mail') = Len(mail)
  <2>1. ASSUME NEW n \in Nat, NEW s \in [1..n -> Commands]
        PROVE  s \in Seq(Commands) /\ Len(s) = n
    <3>1. s \in Seq(Commands)
      BY SeqDef, Zenon
    <3>. QED
      BY <3>1, LenProperties
  <2>. QED
    BY <1>1, <1>3, <2>1
<1>6. \A j \in DOMAIN mail : /\ mail'[j].kind = mail[j].kind /\ mail'[j].target = mail[j].target
                             /\ mail'[j].open => mail[j].open
  <2>. TAKE j \in DOMAIN mail
  <2>1. CASE j = i
    BY <1>1, <2>1, Zenon DEF Commands
  <2>2. CASE j # i
    BY <2>2
  <2>. QED
    BY <2>1, <2>2
<1>7. {j \in DOMAIN mail' : Invalidates(mail'[j])} = {j \in DOMAIN mail : Invalidates(mail[j])}
  BY <1>3, <1>6 DEF Invalidates
<1>8. PendingControl' => PendingControl
  BY <1>3, <1>6 DEF PendingControl, Matched, Invalidates
<1>. QED
  BY <1>4, <1>7, <1>8 DEF Generation

-----------------------------------------------------------------------------
(* Leases, views and ports.                                                *)

\* The stages, one by one.
LEMMA StageNames ==
    Stages = {"auth", "refresh", "refreshed", "rebase", "rebased", "raced", "commit", "stale",
              "idle", "held", "broken", "settling"}
BY DEF Stages, Authorizing

\* No lease is not a lease.
LEMMA NoLeaseIsNone == NoLease \notin Leases
BY RecoveryAssumption DEF NoLease, Leases

\* What is read from the store is typed, and truthful.
LEMMA StoreTypes ==
    ASSUME TypeOK
    PROVE  /\ Generation \in 0..MaxMail /\ Len(mail) \in 0..MaxMail /\ View \in Views
           /\ Matched \in SUBSET (1..Len(mail)) /\ Matched \in SUBSET (1..MaxMail)
<1>1. mail \in Seq(Commands) /\ Len(mail) <= MaxMail /\ Len(mail) \in Nat /\ MaxMail \in Nat
  BY RecoveryAssumption DEF TypeOK
<1>2. Generation \in 0..MaxMail /\ Len(mail) \in 0..MaxMail
  BY <1>1, GenerationBound
<1>3. Matched \in SUBSET (1..Len(mail)) /\ 1..Len(mail) \subseteq 1..MaxMail
  BY <1>1 DEF Matched
<1>4. PendingControl \in BOOLEAN
  BY DEF PendingControl
<1>5. View \in Views
  BY <1>2, <1>4, Zenon DEF View, Views
<1>. QED
  BY <1>2, <1>3, <1>5

\* A lease issued while no control is pending is a good one.
LEMMA NewLeaseGood ==
    ASSUME TypeOK, ~PendingControl, NEW id \in LeaseIds, NEW rgen \in Nat \ {0}
    PROVE  LET l == NewLease(id, rgen)
           IN  /\ l \in Leases /\ l # NoLease /\ LeaseGood(l, Generation, PendingControl)
               /\ l.seq <= Len(mail) /\ l.cut <= Generation /\ l.snap \subseteq 1..l.seq
               /\ l.cut = Generation
<1>. DEFINE l == NewLease(id, rgen)
<1>1. /\ l.id = id /\ l.rgen = rgen /\ l.cut = Generation /\ l.epoch = epoch
      /\ l.seq = Len(mail) /\ l.snap = Matched
  BY DEF NewLease
<1>2. l \in Leases
  <2>1. epoch \in 1..MaxEpoch
    BY DEF TypeOK
  <2>. QED
    BY <2>1, StoreTypes, Zenon DEF NewLease, Leases
<1>3. l # NoLease
  BY <1>2, NoLeaseIsNone
<1>4. Generation <= Generation /\ Len(mail) <= Len(mail)
  BY StoreTypes
<1>. QED
  BY <1>1, <1>2, <1>3, <1>4, StoreTypes DEF LeaseGood

\* So is one that is issued anew.
LEMMA RefreshedGood ==
    ASSUME TypeOK, ~PendingControl, active # NoLease
    PROVE  LET l == Refreshed(active)
           IN  /\ l \in Leases /\ l # NoLease /\ LeaseGood(l, Generation, PendingControl)
               /\ l.seq <= Len(mail) /\ l.cut <= Generation /\ l.snap \subseteq 1..l.seq
               /\ l.cut = Generation
<1>1. active \in Leases
  BY DEF TypeOK
<1>2. active.id \in LeaseIds /\ active.rgen + 1 \in Nat \ {0}
  BY <1>1 DEF Leases
<1>3. CASE active.cut = Generation /\ active.seq = Len(mail) /\ active.snap = Matched
  <2>1. Refreshed(active) = active
    BY <1>3 DEF Refreshed
  <2>. QED
    BY <1>1, <1>3, <2>1 DEF TypeOK, LeaseGood
<1>4. CASE ~(active.cut = Generation /\ active.seq = Len(mail) /\ active.snap = Matched)
  <2>1. Refreshed(active) = NewLease(active.id, active.rgen + 1)
    BY <1>4 DEF Refreshed
  <2>. QED
    BY <1>2, <2>1, NewLeaseGood
<1>. QED
  BY <1>3, <1>4

\* The idle port is a good one.
LEMMA IdleGood == Idle \in Ports /\ \A ch, gen, pend : PortGood(Idle, ch, gen, pend)
<1>1. "idle" \in Stages /\ NoView \in Views /\ 0 \in 0..MaxMail
  BY StageNames, RecoveryAssumption DEF NoView, Views
<1>2. Idle \in Ports
  BY <1>1, Zenon DEF Idle, Ports
<1>. QED
  BY <1>2 DEF PortGood, LeaseGood, Idle, Authorizing

\* A port that moves on without reaching the commit stays good.
LEMMA MoveGood ==
    ASSUME NEW wk \in Ports, NEW ch, NEW gen, NEW pend, PortGood(wk, ch, gen, pend),
           wk.pc \notin {"idle", "settling"}, NEW pc \in Stages \ {"commit"},
           pc \in Authorizing \cup {"broken"} \/ ~wk.fresh
    PROVE  /\ [wk EXCEPT !.pc = pc] \in Ports
           /\ PortGood([wk EXCEPT !.pc = pc], ch, gen, pend)
<1>1. [wk EXCEPT !.pc = pc] \in Ports
  BY Zenon DEF Ports
<1>. QED
  BY <1>1 DEF PortGood, Ports

\* Loading the store's state changes nothing else of the port.
LEMMA LoadGood ==
    ASSUME TypeOK, NEW wk \in Ports, NEW ch, NEW gen, NEW pend, PortGood(wk, ch, gen, pend)
    PROVE  /\ Loaded(wk) \in Ports /\ PortGood(Loaded(wk), ch, gen, pend)
           /\ Loaded(wk).pc = wk.pc /\ Loaded(wk).fresh = wk.fresh /\ Loaded(wk).lease = wk.lease
<1>1. View \in Views /\ TRUE \in BOOLEAN
  BY StoreTypes
<1>2. Loaded(wk) \in Ports
  BY <1>1, Zenon DEF Loaded, Ports
<1>3. /\ Loaded(wk).pc = wk.pc /\ Loaded(wk).fresh = wk.fresh /\ Loaded(wk).lease = wk.lease
      /\ Loaded(wk).req = wk.req
  BY DEF Loaded, Ports
<1>. QED
  BY <1>2, <1>3 DEF PortGood

\* Neither does the coordinator's retry.
LEMMA RetryGood ==
    ASSUME NEW wk \in Ports, NEW ch, NEW gen, NEW pend, PortGood(wk, ch, gen, pend),
           wk.pc \notin {"idle", "settling"}, NEW cut \in 0..MaxMail
    PROVE  Retried(wk, cut) \in Ports /\ PortGood(Retried(wk, cut), ch, gen, pend)
<1>1. CASE wk.view.raised
  BY <1>1, IdleGood DEF Retried
<1>2. CASE ~wk.view.raised
  <2>. DEFINE r == Max2(cut, wk.view.gen)
  <2>1. Retried(wk, cut) = [wk EXCEPT !.pc = "auth", !.req = r]
    BY <1>2 DEF Retried
  <2>2. r \in 0..MaxMail
    BY DEF Max2, Ports, Views
  <2>3. [wk EXCEPT !.pc = "auth", !.req = r] \in Ports
    BY <2>2, StageNames, Zenon DEF Ports
  <2>. QED
    BY <2>1, <2>3 DEF PortGood, Ports, Authorizing
<1>. QED
  BY <1>1, <1>2

\* The port goes on to commit only at the cut of its lease.
LEMMA RouteGood ==
    ASSUME NEW wk \in Ports, NEW ch, NEW gen, NEW pend, PortGood(wk, ch, gen, pend),
           wk.pc \notin {"idle", "settling"}
    PROVE  Routed(wk) \in Ports /\ PortGood(Routed(wk), ch, gen, pend)
<1>1. CASE Routed(wk) = [wk EXCEPT !.pc = "broken"]
  BY <1>1, MoveGood, StageNames
<1>2. CASE Routed(wk) = [wk EXCEPT !.pc = "rebase"]
  BY <1>2, MoveGood, StageNames DEF Authorizing
<1>3. CASE Routed(wk) = [wk EXCEPT !.pc = "commit"] /\ wk.req = wk.lease.cut
  <2>1. [wk EXCEPT !.pc = "commit"] \in Ports
    BY StageNames, Zenon DEF Ports
  <2>. QED
    BY <1>3, <2>1 DEF PortGood, Ports, Authorizing
<1>4. CASE Routed(wk) = Idle
  BY <1>4, IdleGood
<1>. QED
  BY <1>1, <1>2, <1>3, <1>4 DEF Routed

-----------------------------------------------------------------------------
(* Steps.                                                                  *)

\* A step that only moves the port of one worker.
LEMMA ReadStep ==
    ASSUME Inv, NEW w \in Workers, NEW wk \in Ports,
           PortGood(wk, child, Generation, PendingControl), Reads(w, wk)
    PROVE  Inv'
<1>1. worker \in [Workers -> Ports] /\ worker' = [worker EXCEPT ![w] = wk]
  BY DEF Inv, TypeOK, Reads
<1>2. UNCHANGED <<epoch, mail, active, issued, quiet, parent, receipts, child>>
  BY DEF Reads
<1>3. Generation' = Generation /\ PendingControl' = PendingControl
  BY <1>2 DEF Generation, PendingControl, Matched
<1>4. TypeOK'
  BY <1>1, <1>2, <1>3 DEF Inv, TypeOK
<1>5. PortsGood'
  BY <1>1, <1>2, <1>3 DEF Inv, PortsGood
<1>6. LeaseGood(active, Generation, PendingControl)' /\ SettledGood'
  BY <1>2, <1>3 DEF Inv, SettledGood, ReceiptFound
<1>. QED
  BY <1>4, <1>5, <1>6 DEF Inv

\* A step that issues a lease to the port of one worker, while no receipt of a
\* recovery exists.
LEMMA LeaseStep ==
    ASSUME Inv, NEW w \in Workers, NEW l \in Leases, NEW wk \in Ports,
           LeaseGood(l, Generation, PendingControl),
           l.seq <= Len(mail), l.cut <= Generation, l.snap \subseteq 1..l.seq,
           PortGood(wk, child, Generation, PendingControl),
           active' = l, worker' = [worker EXCEPT ![w] = wk], issued' \subseteq LeaseIds,
           UNCHANGED <<epoch, mail, quiet, parent, receipts, child>>,
           \A r \in receipts : r = Live
    PROVE  Inv'
<1>1. worker \in [Workers -> Ports]
  BY DEF Inv, TypeOK
<1>3. Generation' = Generation /\ PendingControl' = PendingControl
  BY DEF Generation, PendingControl, Matched
<1>4. TypeOK'
  BY <1>1, <1>3 DEF Inv, TypeOK
<1>5. PortsGood'
  BY <1>1, <1>3 DEF Inv, PortsGood
<1>6. LeaseGood(active, Generation, PendingControl)'
  BY <1>3
<1>7. SettledGood'
  BY DEF Inv, SettledGood, ReceiptFound
<1>. QED
  BY <1>4, <1>5, <1>6, <1>7 DEF Inv

\* A transition of the child, by one worker; it may close a command.
LEMMA CommitStep ==
    ASSUME Inv, NEW w \in Workers, NEW wk \in Ports, NEW st \in ChildStates,
           ~wk.fresh, wk.pc = "held", wk.lease = worker[w].lease, worker[w].pc # "idle",
           worker[w].pc # "settling",
           Commits(w, wk, st), child # "terminal",
           UNCHANGED <<epoch, active, issued, quiet, parent, receipts>>,
           mail' \in Seq(Commands), Len(mail') = Len(mail),
           Generation' = Generation, PendingControl' => PendingControl
    PROVE  Inv'
<1>1. worker \in [Workers -> Ports] /\ worker[w] \in Ports
  BY DEF Inv, TypeOK
<1>2. \A v \in Workers : worker'[v] = IF v = w THEN wk ELSE [worker[v] EXCEPT !.fresh = FALSE]
  BY DEF Commits
<1>3. \A v \in Workers : [worker[v] EXCEPT !.fresh = FALSE] \in Ports
  BY <1>1, Zenon DEF Ports
<1>4. worker' \in [Workers -> Ports]
  <2>1. \A v \in Workers : worker'[v] \in Ports
    BY <1>2, <1>3
  <2>2. worker' = [v \in Workers |-> IF v = w THEN wk ELSE [worker[v] EXCEPT !.fresh = FALSE]]
    BY DEF Commits
  <2>. QED
    BY <2>1, <2>2
<1>5. LeaseGood(active, Generation, PendingControl)'
  BY DEF Inv, LeaseGood
<1>6. TypeOK'
  BY <1>4 DEF Inv, TypeOK, Commits
<1>7. PortsGood'
  <2>. SUFFICES ASSUME NEW v \in Workers
                PROVE  PortGood(worker'[v], child', Generation', PendingControl')
    BY DEF PortsGood
  <2>1. PortGood(worker[v], child, Generation, PendingControl) /\ PortGood(worker[w], child, Generation, PendingControl)
    BY DEF Inv, PortsGood
  <2>2. CASE v = w
    BY <1>1, <1>2, <2>1, <2>2 DEF PortGood, LeaseGood
  <2>3. CASE v # w
    <3>1. /\ worker'[v].fresh = FALSE /\ worker'[v].pc = worker[v].pc /\ worker'[v].req = worker[v].req
          /\ worker'[v].lease = worker[v].lease
      BY <1>1, <1>2, <2>3 DEF Ports
    <3>. QED
      BY <2>1, <3>1 DEF PortGood, LeaseGood
  <2>. QED
    BY <2>2, <2>3
<1>8. SettledGood'
  BY DEF Inv, SettledGood, ReceiptFound
<1>. QED
  BY <1>5, <1>6, <1>7, <1>8 DEF Inv

\* A command admitted takes nothing away: leases only fall behind.
LEMMA AdmitStep ==
    ASSUME Inv, NEW kind \in Kinds, NEW target \in Targets, Admit(kind, target)
    PROVE  Inv'
<1>. DEFINE c == [kind |-> kind, target |-> target, open |-> TRUE]
<1>1. mail \in Seq(Commands) /\ c \in Commands /\ mail' = Append(mail, c)
  BY DEF Inv, TypeOK, Admit, Commands
<1>2. /\ mail' \in Seq(Commands) /\ Len(mail') = Len(mail) + 1
      /\ Generation <= Generation' /\ Generation' \in Nat
      /\ Generation' = Generation /\ PendingControl' => PendingControl
  BY <1>1, AdmitGeneration
<1>3. Generation \in Nat /\ Generation' \in Nat /\ Len(mail) \in Nat /\ MaxMail \in Nat
  BY <1>1, <1>2, GenerationBound, RecoveryAssumption
<1>4. UNCHANGED <<epoch, active, issued, quiet, parent, receipts, child, worker>>
  BY DEF Admit
<1>5. ASSUME NEW l \in Leases \cup {NoLease}, LeaseGood(l, Generation, PendingControl)
      PROVE  LeaseGood(l, Generation', PendingControl')
  <2>1. l.cut \in Nat
    BY RecoveryAssumption DEF Leases, NoLease
  <2>. QED
    BY <1>2, <1>3, <1>5, <2>1 DEF LeaseGood
<1>6. Len(mail) < MaxMail
  BY DEF Admit
<1>7. active.seq \in Nat /\ active.cut \in Nat
  BY RecoveryAssumption DEF Inv, TypeOK, Leases, NoLease
<1>8. Len(mail') <= MaxMail
  BY <1>2, <1>3, <1>6
<1>9. active.seq <= Len(mail') /\ active.cut <= Generation'
  BY <1>2, <1>3, <1>7 DEF Inv, TypeOK
<1>10. TypeOK'
  BY <1>2, <1>4, <1>8, <1>9 DEF Inv, TypeOK
<1>11. LeaseGood(active, Generation, PendingControl)'
  BY <1>4, <1>5 DEF Inv, TypeOK
<1>12. PortsGood'
  <2>. SUFFICES ASSUME NEW v \in Workers
                PROVE  PortGood(worker[v], child, Generation', PendingControl')
    BY <1>4 DEF PortsGood
  <2>1. PortGood(worker[v], child, Generation, PendingControl) /\ worker[v].lease \in Leases \cup {NoLease}
    BY DEF Inv, PortsGood, TypeOK, Ports
  <2>. QED
    BY <1>5, <2>1 DEF PortGood
<1>13. SettledGood'
  BY <1>4 DEF Inv, SettledGood, ReceiptFound
<1>. QED
  BY <1>10, <1>11, <1>12, <1>13 DEF Inv

\* The executor stops, the session changes hands, or a worker is lost.
LEMMA SessionStep ==
    ASSUME Inv, Quiesce \/ Takeover \/ \E w \in Workers : Crash(w)
    PROVE  Inv'
<1>1. UNCHANGED <<mail, active, issued, parent, receipts, child>>
  BY DEF Quiesce, Takeover, Crash
<1>2. Generation' = Generation /\ PendingControl' = PendingControl
  BY <1>1 DEF Generation, PendingControl, Matched
<1>3. \A v \in Workers : worker'[v] \in Ports /\ PortGood(worker'[v], child, Generation, PendingControl)
  <2>. SUFFICES ASSUME NEW v \in Workers
                PROVE  worker'[v] \in Ports /\ PortGood(worker'[v], child, Generation, PendingControl)
    OBVIOUS
  <2>1. worker'[v] = worker[v] \/ worker'[v] = Idle
    BY DEF Quiesce, Takeover, Crash, Inv, TypeOK
  <2>. QED
    BY <2>1, IdleGood DEF Inv, TypeOK, PortsGood
<1>4. worker' \in [Workers -> Ports]
  BY IdleGood DEF Inv, TypeOK, Quiesce, Takeover, Crash
<1>5. epoch' \in 1..MaxEpoch /\ quiet' \in BOOLEAN
  <2>1. epoch \in 1..MaxEpoch /\ quiet \in BOOLEAN /\ MaxEpoch \in Nat
    BY RecoveryAssumption DEF Inv, TypeOK
  <2>2. epoch' = epoch \/ (epoch < MaxEpoch /\ epoch' = epoch + 1)
    BY Zenon DEF Quiesce, Takeover, Crash
  <2>3. quiet' = quiet \/ quiet' = TRUE
    BY DEF Quiesce, Takeover, Crash
  <2>4. epoch' \in 1..MaxEpoch
    BY <2>1, <2>2
  <2>. QED
    BY <2>1, <2>3, <2>4
<1>6. TypeOK'
  BY <1>1, <1>2, <1>4, <1>5 DEF Inv, TypeOK
<1>7. PortsGood'
  BY <1>1, <1>2, <1>3 DEF PortsGood
<1>8. LeaseGood(active, Generation, PendingControl)' /\ SettledGood'
  BY <1>1, <1>2 DEF Inv, SettledGood, ReceiptFound
<1>. QED
  BY <1>6, <1>7, <1>8 DEF Inv

\* No lease is acquired while a recovery may still settle under an older one.
LEMMA AcquireStep ==
    ASSUME Inv, NEW w \in Workers, NEW id \in LeaseIds, Reacquire(w, id) \/ Acquire(w, id)
    PROVE  Inv'
<1>. DEFINE Held(l) == [Idle EXCEPT !.pc = "held", !.lease = l]
<1>1. ASSUME NEW l \in Leases, l # NoLease, LeaseGood(l, Generation, PendingControl)
      PROVE  Held(l) \in Ports /\ PortGood(Held(l), child, Generation, PendingControl)
  <2>1. Held(l) \in Ports
    BY IdleGood, StageNames, Zenon DEF Ports
  <2>2. Held(l).pc = "held" /\ Held(l).fresh = FALSE /\ Held(l).lease = l
    BY IdleGood DEF Ports, Idle
  <2>. QED
    BY <1>1, <2>1, <2>2 DEF PortGood
<1>2. CASE Reacquire(w, id)
  <2>1. active # NoLease
    BY <1>2, RecoveryAssumption DEF Reacquire, NoLease
  <2>2. active \in Leases /\ LeaseGood(active, Generation, PendingControl)
    BY <2>1 DEF Inv, TypeOK
  <2>. QED
    BY <1>1, <1>2, <2>1, <2>2, ReadStep DEF Reacquire
<1>3. CASE Acquire(w, id)
  <2>. DEFINE l == NewLease(id, active.rgen + 1)
  <2>1. active.rgen + 1 \in Nat \ {0}
    BY DEF Inv, TypeOK, Leases, NoLease
  <2>2. TypeOK /\ ~PendingControl /\ parent = "dispatched" /\ active' = l
    BY <1>3 DEF Inv, Acquire, MayAcquire
  <2>3. /\ l \in Leases /\ l # NoLease /\ LeaseGood(l, Generation, PendingControl)
        /\ l.seq <= Len(mail) /\ l.cut <= Generation /\ l.snap \subseteq 1..l.seq
    BY <2>1, <2>2, NewLeaseGood
  <2>4. Held(l) \in Ports /\ PortGood(Held(l), child, Generation, PendingControl)
    BY <1>1, <2>3
  <2>5. worker' = [worker EXCEPT ![w] = Held(l)] /\ issued' \subseteq LeaseIds
    BY <1>3, <2>2 DEF Acquire, Inv, TypeOK
  <2>6. \A r \in receipts : r = Live
    BY <2>2 DEF Inv, SettledGood, ReceiptFound
  <2>7. UNCHANGED <<epoch, mail, quiet, parent, receipts, child>>
    BY <1>3 DEF Acquire
  <2>. HIDE DEF l, Held
  <2>. QED
    BY <2>2, <2>3, <2>4, <2>5, <2>6, <2>7, LeaseStep
<1>. QED
  BY <1>2, <1>3

\* While the child waits, or the parent is dispatched, only the live path can
\* have settled the parent; so a lease may be issued anew.
LEMMA RenewStep ==
    ASSUME Inv, NEW w \in Workers, Refresh(w) \/ Rebase(w)
    PROVE  Inv'
<1>. DEFINE wk == worker[w]
            l == Refreshed(active)
            Next1(pc) == [wk EXCEPT !.lease = l, !.pc = pc]
<1>1. wk \in Ports /\ PortGood(wk, child, Generation, PendingControl) /\ TypeOK
  BY DEF Inv, TypeOK, PortsGood
<1>2. wk.pc \in {"refresh", "rebase"} /\ active = wk.lease /\ ~PendingControl
  BY DEF Refresh, Rebase, MayRefresh, MayRebase
<1>3. active # NoLease
  BY <1>1, <1>2 DEF PortGood
<1>4. /\ l \in Leases /\ l # NoLease /\ LeaseGood(l, Generation, PendingControl)
      /\ l.seq <= Len(mail) /\ l.cut <= Generation /\ l.snap \subseteq 1..l.seq
  BY <1>1, <1>2, <1>3, RefreshedGood
<1>5. \A r \in receipts : r = Live
  <2>1. parent = "dispatched" \/ child = "waiting"
    BY DEF Refresh, Rebase, MayRefresh, MayRebase
  <2>. QED
    BY <2>1 DEF Inv, SettledGood, ReceiptFound
<1>6. PICK pc \in {"refreshed", "rebased"} : Renew(w, pc)
  BY DEF Refresh, Rebase
<1>7. active' = l /\ UNCHANGED <<epoch, mail, issued, quiet, parent, receipts, child>>
  BY <1>2, <1>6 DEF Renew
<1>8. worker' = [worker EXCEPT ![w] = Next1(pc)]
  BY <1>1, <1>6, <1>7, Zenon DEF Renew, Inv, TypeOK
<1>9. Next1(pc) \in Ports
  <2>1. pc \in Stages
    BY StageNames
  <2>. QED
    BY <1>1, <1>4, <2>1, Zenon DEF Ports
<1>10. PortGood(Next1(pc), child, Generation, PendingControl)
  <2>1. /\ Next1(pc).pc = pc /\ Next1(pc).lease = l /\ Next1(pc).fresh = wk.fresh
    BY <1>1 DEF Ports
  <2>. HIDE DEF l, Next1
  <2>2. pc \notin {"idle", "settling", "commit"} /\ pc \in Authorizing
    BY DEF Authorizing
  <2>. QED
    BY <1>1, <1>4, <2>1, <2>2 DEF PortGood
<1>11. issued' \subseteq LeaseIds
  BY <1>7 DEF Inv, TypeOK
<1>. HIDE DEF l, Next1
<1>. QED
  BY <1>4, <1>5, <1>7, <1>8, <1>9, <1>10, <1>11, LeaseStep

\* The steps of an authorization that only read.
LEMMA PortStep ==
    ASSUME Inv, NEW w \in Workers,
           \/ EnterPlain(w) \/ EnterGated(w) \/ RenewRefused(w)
           \/ Reload(w) \/ AuthorizeRefused(w)
    PROVE  Inv'
<1>. DEFINE wk == worker[w]
            Good(p) == p \in Ports /\ PortGood(p, child, Generation, PendingControl)
<1>1. Good(wk) /\ TypeOK /\ \A p : Good(p) /\ Reads(w, p) => Inv'
  BY ReadStep DEF Inv, TypeOK, PortsGood
<1>2. Good(Loaded(wk)) /\ Loaded(wk).pc = wk.pc
  BY <1>1, LoadGood
<1>3. Good(Idle)
  BY IdleGood
<1>4. Generation \in 0..MaxMail /\ wk.lease \in Leases \cup {NoLease}
  BY <1>1, StoreTypes DEF Ports
<1>5. wk.lease.cut \in 0..MaxMail
  BY <1>4, RecoveryAssumption DEF Leases, NoLease
<1>6. wk.pc \notin {"idle", "settling"}
  BY DEF EnterPlain, EnterGated, RenewRefused, Reload, AuthorizeRefused
<1>7. Good(Routed(wk)) /\ Good(Routed(Loaded(wk)))
  BY <1>1, <1>2, <1>6, RouteGood
<1>8. Good(Retried(Loaded(wk), Generation)) /\ Good(Retried(Loaded(wk), wk.lease.cut))
  BY <1>2, <1>4, <1>5, <1>6, RetryGood
<1>9. ASSUME NEW pc \in {"refresh", "raced", "stale"}
      PROVE  Good([wk EXCEPT !.pc = pc]) /\ Good([Loaded(wk) EXCEPT !.pc = pc])
  <2>1. pc \in Stages \ {"commit"} /\ pc \in Authorizing
    BY StageNames DEF Authorizing
  <2>. QED
    BY <1>1, <1>2, <1>6, <2>1, MoveGood
<1>. HIDE DEF Good
<1>10. CASE EnterPlain(w)
  BY <1>1, <1>7, <1>10 DEF EnterPlain
<1>11. CASE EnterGated(w)
  <2>1. \/ Reads(w, Idle) \/ Reads(w, Retried(Loaded(wk), Generation))
        \/ Reads(w, [Loaded(wk) EXCEPT !.pc = "refresh"]) \/ Reads(w, Routed(Loaded(wk)))
    BY <1>11 DEF EnterGated
  <2>. QED
    BY <1>1, <1>3, <1>7, <1>8, <1>9, <2>1
<1>12. CASE RenewRefused(w)
  BY <1>1, <1>3, <1>9, <1>12 DEF RenewRefused
<1>13. CASE Reload(w)
  <2>1. \/ Reads(w, Idle) \/ Reads(w, Routed(Loaded(wk)))
        \/ Reads(w, Retried(Loaded(wk), wk.lease.cut)) \/ Reads(w, Retried(Loaded(wk), Generation))
    BY <1>13 DEF Reload
  <2>. QED
    BY <1>1, <1>3, <1>7, <1>8, <2>1
<1>14. CASE AuthorizeRefused(w)
  BY <1>1, <1>3, <1>9, <1>14 DEF AuthorizeRefused
<1>. QED
  BY <1>10, <1>11, <1>12, <1>13, <1>14

\* A segment asks with what it has just read.
LEMMA AskStep ==
    ASSUME Inv, NEW w \in Workers, NEW i \in 0..MaxMail, Ask(w, i)
    PROVE  Inv'
<1>. DEFINE wk == worker[w]
            asks == [wk EXCEPT !.pc = "auth", !.req = wk.lease.cut, !.approval = i, !.fresh = TRUE]
<1>1. wk \in Ports /\ PortGood(wk, child, Generation, PendingControl)
  BY DEF Inv, TypeOK, PortsGood
<1>2. wk.pc = "held" /\ child \in {"waiting", "prepared"} /\ Reads(w, asks)
  BY DEF Ask
<1>3. wk.lease.cut \in 0..MaxMail
  BY <1>1, RecoveryAssumption DEF Ports, Leases, NoLease
<1>4. asks \in Ports
  <2>1. "auth" \in Stages /\ TRUE \in BOOLEAN
    BY StageNames
  <2>. QED
    BY <1>1, <1>3, <2>1, Zenon DEF Ports
<1>5. asks.pc = "auth" /\ asks.lease = wk.lease
  BY <1>1 DEF Ports
<1>6. PortGood(asks, child, Generation, PendingControl)
  BY <1>1, <1>2, <1>5 DEF PortGood, Authorizing
<1>. QED
  BY <1>2, <1>4, <1>6, ReadStep

\* The transitions of the child.
LEMMA ChildStep ==
    ASSUME Inv, NEW w \in Workers,
           \/ Authorize(w) \/ EndChild(w)
           \/ \E i \in 0..MaxMail : Deny(w, i)
           \/ \E st \in {"waiting", "prepared", "ready"} : Advance(w, st)
    PROVE  Inv'
<1>. DEFINE wk == worker[w]
            held == [wk EXCEPT !.pc = "held", !.fresh = FALSE, !.approval = 0, !.req = 0]
<1>1. wk \in Ports /\ PortGood(wk, child, Generation, PendingControl) /\ mail \in Seq(Commands)
  BY DEF Inv, TypeOK, PortsGood
<1>2. UNCHANGED <<epoch, active, issued, quiet, parent, receipts>>
  BY DEF Authorize, EndChild, Deny, Advance
<1>3. mail' = mail \/ \E i \in DOMAIN mail : mail' = [mail EXCEPT ![i].open = FALSE]
  <2>1. CASE Authorize(w)
    <3>1. CASE wk.approval \in DOMAIN mail
      BY <2>1, <3>1 DEF Authorize
    <3>2. CASE wk.approval \notin DOMAIN mail
      <4>1. [mail EXCEPT ![wk.approval].open = FALSE] = mail
        BY <1>1, <3>2
      <4>. QED
        BY <2>1, <4>1 DEF Authorize
    <3>. QED
      BY <3>1, <3>2
  <2>2. CASE ~Authorize(w)
    BY <2>2 DEF EndChild, Deny, Advance
  <2>. QED
    BY <2>1, <2>2
<1>4. /\ mail' \in Seq(Commands) /\ Len(mail') = Len(mail)
      /\ Generation' = Generation
      /\ PendingControl' => PendingControl
  <2>1. CASE mail' = mail
    BY <1>1, <2>1 DEF Generation, PendingControl, Matched
  <2>2. CASE mail' # mail
    BY <1>1, <1>3, <2>2, CloseGeneration
  <2>. QED
    BY <2>1, <2>2
<1>5. CASE Authorize(w)
  <2>1. held \in Ports /\ held.pc = "held" /\ held.fresh = FALSE /\ held.lease = wk.lease
    <3>1. "held" \in Stages /\ 0 \in 0..MaxMail /\ FALSE \in BOOLEAN
      BY StageNames, RecoveryAssumption
    <3>2. held \in Ports
      BY <1>1, <3>1, Zenon DEF Ports
    <3>. QED
      BY <1>1, <3>2 DEF Ports
  <2>2. Commits(w, held, "dispatched") /\ wk.pc = "commit" /\ child # "terminal"
    BY <1>1, <1>5 DEF Authorize, PortGood
  <2>3. "dispatched" \in ChildStates
    BY DEF ChildStates
  <2>. HIDE DEF held
  <2>. QED
    BY <1>2, <1>4, <2>1, <2>2, <2>3, CommitStep
<1>6. CASE ~Authorize(w)
  <2>1. PICK st \in ChildStates : Commits(w, wk, st)
    BY <1>6 DEF EndChild, Deny, Advance, ChildStates
  <2>2. wk.pc = "held" /\ child # "terminal"
    BY <1>6 DEF EndChild, Deny, Advance
  <2>3. ~wk.fresh
    BY <1>1, <2>2 DEF PortGood, Authorizing
  <2>. QED
    BY <1>1, <1>2, <1>4, <2>1, <2>2, <2>3, CommitStep
<1>. QED
  BY <1>5, <1>6

\* The settlements of the parent.
LEMMA SettleStep ==
    ASSUME Inv, NEW w \in Workers, SettleRecovered(w) \/ BeginSettle(w) \/ SettleLive(w)
    PROVE  Inv'
<1>1. worker \in [Workers -> Ports] /\ active \in Leases \cup {NoLease}
  BY DEF Inv, TypeOK
<1>2. ASSUME NEW id \in {Live, Receipt(active)}, Settle(w, id), parent = "dispatched",
             id = Live \/ child = "terminal"
      PROVE  Inv'
  <2>1. UNCHANGED <<epoch, mail, active, issued, quiet, child>>
    BY <1>2 DEF Settle
  <2>2. Generation' = Generation /\ PendingControl' = PendingControl
    BY <2>1 DEF Generation, PendingControl, Matched
  <2>3. worker' = [worker EXCEPT ![w] = Idle] /\ worker' \in [Workers -> Ports]
    BY <1>1, <1>2, IdleGood DEF Settle
  <2>4. receipts' = {id} /\ parent' = "settled"
    BY <1>2 DEF Settle, Inv, SettledGood, ReceiptFound
  <2>5. id \in [id : LeaseIds \cup {NoId}, rgen : Nat, cut : Nat]
    BY <1>1, RecoveryAssumption DEF Live, Receipt, Leases, NoLease
  <2>6. TypeOK'
    BY <2>1, <2>2, <2>3, <2>4, <2>5 DEF Inv, TypeOK
  <2>7. PortsGood'
    <3>1. \A v \in Workers : worker'[v] = worker[v] \/ worker'[v] = Idle
      BY <1>1, <2>3
    <3>. QED
      BY <2>1, <2>2, <3>1, IdleGood DEF Inv, PortsGood
  <2>8. LeaseGood(active, Generation, PendingControl)'
    BY <2>1, <2>2 DEF Inv
  <2>9. SettledGood'
    BY <1>2, <2>1, <2>4 DEF SettledGood, ReceiptFound, Receipt
  <2>. QED
    BY <2>6, <2>7, <2>8, <2>9 DEF Inv
<1>3. ASSUME Reads(w, Idle) PROVE Inv'
  BY <1>3, IdleGood, ReadStep
<1>4. CASE SettleRecovered(w)
  BY <1>2, <1>3, <1>4 DEF SettleRecovered, MaySettle, Guarded
<1>5. CASE BeginSettle(w)
  <2>. DEFINE p == [Idle EXCEPT !.pc = "settling", !.lease = active]
  <2>1. p \in Ports
    BY <1>1, IdleGood, StageNames, Zenon DEF Ports
  <2>2. p.pc = "settling" /\ p.lease = active /\ p.fresh = FALSE
    BY IdleGood DEF Idle
  <2>3. PortGood(p, child, Generation, PendingControl)
    BY <2>2 DEF PortGood, Inv
  <2>. QED
    BY <1>5, <2>1, <2>3, ReadStep DEF BeginSettle
<1>6. CASE SettleLive(w)
  BY <1>2, <1>3, <1>6 DEF SettleLive, MaySettle
<1>. QED
  BY <1>4, <1>5, <1>6

-----------------------------------------------------------------------------
(* The theorems.                                                           *)

\* No command has been sent and no lease issued.
LEMMA InitInv == Init => Inv
<1>. SUFFICES ASSUME Init PROVE Inv
  OBVIOUS
<1>1. mail = <<>> /\ active = NoLease /\ receipts = {} /\ parent = "dispatched"
  BY DEF Init
<1>2. Generation = 0
  <2>1. {i \in DOMAIN mail : Invalidates(mail[i])} = {}
    BY <1>1
  <2>. QED
    BY <2>1, FS_EmptySet DEF Generation
<1>3. worker \in [Workers -> Ports] /\ \A w \in Workers : worker[w] = Idle
  BY IdleGood DEF Init
<1>4. TypeOK
  <2>1. mail \in Seq(Commands) /\ Len(mail) = 0
    BY <1>1
  <2>2. active \in Leases \cup {NoLease} /\ active.seq = 0 /\ active.cut = 0 /\ active.snap = {}
    BY <1>1 DEF NoLease
  <2>3. 0 <= MaxMail /\ 1 \in 1..MaxEpoch
    BY RecoveryAssumption
  <2>4. {} \subseteq 1..0 /\ 0 <= 0
    OBVIOUS
  <2>5. active.seq <= Len(mail) /\ active.cut <= Generation /\ active.snap \subseteq 1..active.seq
    BY <1>2, <2>1, <2>2, <2>4
  <2>. QED
    BY <1>1, <1>3, <2>1, <2>2, <2>3, <2>5 DEF Init, TypeOK
<1>5. LeaseGood(active, Generation, PendingControl)
  BY <1>1 DEF LeaseGood
<1>6. PortsGood
  BY <1>3, IdleGood DEF PortsGood
<1>7. SettledGood
  BY <1>1 DEF SettledGood, ReceiptFound
<1>. QED
  BY <1>4, <1>5, <1>6, <1>7 DEF Inv

\* Every step keeps the invariant.
LEMMA NextInv == Inv /\ [Next]_vars => Inv'
<1>. SUFFICES ASSUME Inv, [Next]_vars PROVE Inv'
  OBVIOUS
<1>1. CASE UNCHANGED vars
  BY <1>1 DEF vars, Inv, TypeOK, PortsGood, SettledGood, ReceiptFound, Generation, PendingControl, Matched
<1>2. ASSUME NEW c \in Sent, Admit(c[1], c[2])
      PROVE  Inv'
  <2>1. c[1] \in Kinds /\ c[2] \in Targets
    BY RecoveryAssumption
  <2>. QED
    BY <1>2, <2>1, AdmitStep
<1>3. ASSUME NEW w \in Workers, NEW id \in LeaseIds, Reacquire(w, id) \/ Acquire(w, id)
      PROVE  Inv'
  BY <1>3, AcquireStep
<1>4. ASSUME NEW w \in Workers, NEW i \in 0..MaxMail, Ask(w, i) \/ Deny(w, i)
      PROVE  Inv'
  BY <1>4, AskStep, ChildStep
<1>5. ASSUME NEW w \in Workers, NEW st \in {"waiting", "prepared", "ready"}, Advance(w, st)
      PROVE  Inv'
  BY <1>5, ChildStep
<1>6. ASSUME NEW w \in Workers, Step(w)
      PROVE  Inv'
  BY <1>6, PortStep, RenewStep, ChildStep DEF Step
<1>7. ASSUME NEW w \in Workers, EndChild(w) \/ SettleRecovered(w) \/ BeginSettle(w) \/ SettleLive(w)
      PROVE  Inv'
  BY <1>7, ChildStep, SettleStep
<1>8. CASE Quiesce \/ Takeover \/ \E w \in Workers : Crash(w)
  BY <1>8, SessionStep
<1>. QED
  BY <1>1, <1>2, <1>3, <1>4, <1>5, <1>6, <1>7, <1>8 DEF Next

\* Inv holds throughout.
THEOREM Invariance == Spec => []Inv
BY InitInv, NextInv, PTL DEF Spec

\* Types, and no lease is ever ahead of the mailbox it was cut from.
THEOREM TypeCorrect == Spec => []TypeOK
<1>1. Inv => TypeOK
  BY DEF Inv
<1>. QED
  BY <1>1, Invariance, PTL

\* Whoever asks after a settled parent finds exactly one receipt.
THEOREM SettlementFound == Spec => []ReceiptFound
<1>1. Inv => ReceiptFound
  BY DEF Inv, SettledGood
<1>. QED
  BY <1>1, Invariance, PTL

\* A recovery never dispatches, ends the child or settles the parent while
\* control for either is pending: equal cuts imply there is none.
THEOREM ControlIsHeeded == Spec => ControlHeeded
<1>. DEFINE Overtakes ==
              \/ epoch > 1 /\ child' # child /\ child' \in {"dispatched", "terminal"}
              \/ \E r \in receipts' \ receipts : r # Live
<1>1. ASSUME Inv, [Next]_vars, Overtakes PROVE ~PendingControl
  <2>1. ASSUME NEW w \in Workers, Authorize(w) PROVE ~PendingControl
    <3>1. PortGood(worker[w], child, Generation, PendingControl)
      BY <1>1 DEF Inv, PortsGood
    <3>. QED
      BY <2>1, <3>1 DEF Authorize, PortGood, LeaseGood
  <2>2. ASSUME NEW w \in Workers, worker[w].pc = "held", Guarded(worker[w].lease)
        PROVE  ~PendingControl
    <3>1. PortGood(worker[w], child, Generation, PendingControl)
      BY <1>1 DEF Inv, PortsGood
    <3>. QED
      BY <2>2, <3>1 DEF Guarded, PortGood, LeaseGood
  <2>3. ASSUME child' # child, child' \in {"dispatched", "terminal"} PROVE ~PendingControl
    <3>1. \E w \in Workers : Authorize(w) \/ EndChild(w)
      BY <1>1, <2>3 DEF Next, vars, Step, Admit, Quiesce, Takeover, Reacquire, Acquire, Ask, Deny, Advance,
         EnterPlain, EnterGated, Refresh, Rebase, Renew, RenewRefused, Reload, AuthorizeRefused, Reads,
         SettleRecovered, BeginSettle, SettleLive, Settle, Crash, Commits
    <3>. QED
      BY <2>1, <2>2, <3>1 DEF EndChild
  <2>4. ASSUME NEW r \in receipts' \ receipts, r # Live PROVE ~PendingControl
    <3>1. \E w \in Workers : SettleRecovered(w) \/ SettleLive(w)
      BY <1>1, <2>4 DEF Next, vars, Step, Admit, Quiesce, Takeover, Reacquire, Acquire, Ask, Deny, Advance,
         EnterPlain, EnterGated, Refresh, Rebase, Renew, RenewRefused, Reload, Authorize, AuthorizeRefused,
         Reads, BeginSettle, EndChild, Crash
    <3>2. \E w \in Workers : worker[w].pc = "held" /\ Guarded(worker[w].lease)
      BY <2>4, <3>1 DEF SettleRecovered, SettleLive, Settle, Reads
    <3>. QED
      BY <2>2, <3>2
  <2>. QED
    BY <1>1, <2>3, <2>4
<1>2. Inv /\ [Next]_vars => [Overtakes => ~PendingControl]_vars
  BY <1>1
<1>. QED
  BY <1>2, Invariance, PTL DEF Spec, ControlHeeded
=============================================================================
