--------------------------- MODULE ChatTurnsProofs ---------------------------
(***************************************************************************)
(* Proofs about ChatTurns for any number of commands, requests, facts and  *)
(* disturbances: what the process remembers of a run is a run that was     *)
(* admitted, its prompt and its root_terminal are recorded once, and the   *)
(* outcome that is told is the outcome of the row.                         *)
(***************************************************************************)
EXTENDS ChatTurns, TLAPS

Asked == {c \in Commands : row[c] # "none"}

MemType == [cur : Commands \cup {NoCmd}, busy : BOOLEAN,
            task : Commands \cup {NoCmd}, watch : Commands \cup {NoCmd}]
PostType == [st : {"idle", "admitted", "first", "again", "open", "settled", "joining", "over"},
             c : Commands \cup {NoCmd}]
TaskType == [pc : Live \cup {"none", "ended"}, cancelled : BOOLEAN, turn : Commands \cup {NoCmd}]

CancelType == [st : {"none", "requested", "other"}, c : Commands \cup {NoCmd}]

\* Requests, tasks, the cached session and a cancellation under way name runs
\* that were admitted; a turn that runs was called.
PostGood(p, asked) == p \in PostType /\ (p.st \in {"idle", "over"} \/ p.c \in asked)
TaskGood(t, c, asked, called) ==
    /\ t \in TaskType
    /\ t.pc \in Live => c \in asked
    /\ t.turn \in asked \cup {NoCmd}
    /\ t.pc = "running" => called > 0

RowsGood ==
    /\ row \in [Commands -> Active \cup Finals \cup {"none"}] /\ log \in Seq(Facts)
    /\ marks \subseteq {"started", "settled"} \X Commands
    /\ turnid \in Asked \cup {NoCmd}
MemGood == mem \in MemType /\ mem.cur \in Asked \cup {NoCmd}
PostsGood == post \in [Posts -> PostType] /\ \A r \in Posts : PostGood(post[r], Asked)
TasksGood ==
    /\ task \in [Commands -> TaskType] /\ calls \in [Commands -> Nat]
    /\ \A c \in Commands : TaskGood(task[c], c, Asked, calls[c])
CancelGood == cx \in CancelType /\ (cx = NoCancel \/ cx.c \in Asked)
FaultsGood == up \in BOOLEAN /\ faults \in [seen : SUBSET Disturbances, left : Nat]

Good == RowsGood /\ MemGood /\ PostsGood /\ TasksGood /\ CancelGood /\ FaultsGood

\* What can be done to row and log at a time: a run is admitted, ...
Admits(c) == row[c] = "none" /\ row' = [row EXCEPT ![c] = "requested"] /\ log' = Append(log, Fact("prompt", c))

\* ... settled with its root_terminal, ...
Settles(c, o) ==
    /\ c \in Asked /\ ~Settled(c) /\ (o = "completed" => calls[c] > 0)
    /\ row' = [row EXCEPT ![c] = o] /\ log' = Append(log, Terminal(c, o))

\* ... told about while its row is not final, ...
Tells(c) == c \in Asked /\ MayRecord(c) /\ row' = row /\ log' = Append(log, Fact("fact", c))

\* ... or has its row written.
Rewrites(c, v) ==
    /\ c \in Asked /\ v \in (Active \cup Finals) \ {"requested", "completed", "failed"}
    /\ row' = [row EXCEPT ![c] = v] /\ log' = log

RunStep ==
    \/ \E c \in Commands :
          \/ Admits(c) \/ Tells(c)
          \/ \E o \in Finals : Settles(c, o)
          \/ \E v \in Active \cup Finals : Rewrites(c, v)
    \/ row' = row /\ log' = log

-----------------------------------------------------------------------------
(* What the actions have in common.                                        *)

\* The invariant implies the types.
LEMMA GoodTypes == Good => TypeOK
BY DEF Good, RowsGood, MemGood, PostsGood, TasksGood, CancelGood, FaultsGood, TypeOK, Asked,
       MemType, PostType, TaskType, CancelType

\* A run that was admitted stays so, and facts are facts.
LEMMA RunStepTypes ==
    ASSUME RowsGood, RunStep
    PROVE  /\ row' \in [Commands -> Active \cup Finals \cup {"none"}] /\ log' \in Seq(Facts)
           /\ Asked \subseteq Asked'
<1>1. ASSUME NEW c \in Commands, Admits(c)
      PROVE  row' \in [Commands -> Active \cup Finals \cup {"none"}] /\ log' \in Seq(Facts) /\ Asked \subseteq Asked'
  BY <1>1 DEF RowsGood, Admits, Asked, Facts, Fact, Active
<1>2. ASSUME NEW c \in Commands, Tells(c)
      PROVE  row' \in [Commands -> Active \cup Finals \cup {"none"}] /\ log' \in Seq(Facts) /\ Asked \subseteq Asked'
  BY <1>2 DEF RowsGood, Tells, Asked, Facts, Fact
<1>3. ASSUME NEW c \in Commands, NEW o \in Finals, Settles(c, o)
      PROVE  row' \in [Commands -> Active \cup Finals \cup {"none"}] /\ log' \in Seq(Facts) /\ Asked \subseteq Asked'
  BY <1>3 DEF RowsGood, Settles, Asked, Facts, Terminal, Finals
<1>4. ASSUME NEW c \in Commands, NEW v \in Active \cup Finals, Rewrites(c, v)
      PROVE  row' \in [Commands -> Active \cup Finals \cup {"none"}] /\ log' \in Seq(Facts) /\ Asked \subseteq Asked'
  BY <1>4 DEF RowsGood, Rewrites, Asked, Finals, Active
<1>. QED
  BY <1>1, <1>2, <1>3, <1>4 DEF RunStep, RowsGood, Asked

\* A step of the runs that keeps the session's turn or names an admitted one.
LEMMA RowsKept ==
    ASSUME RowsGood, RunStep, marks' \subseteq {"started", "settled"} \X Commands,
           turnid' \in Asked' \cup {NoCmd, turnid}
    PROVE  RowsGood' /\ Asked \subseteq Asked'
BY RunStepTypes DEF RowsGood

\* Settling a run that was admitted.
LEMMA SettleStep ==
    ASSUME RowsGood, NEW c \in Asked, NEW o \in Finals, SettleRun(c, o), o = "completed" => calls[c] > 0
    PROVE  RunStep /\ RowsGood' /\ Asked \subseteq Asked'
<1>1. CASE Final(c) \/ Settled(c)
  <2>1. UNCHANGED <<row, log, turnid, marks>>
    BY <1>1 DEF SettleRun, durable
  <2>. QED
    BY <2>1 DEF RunStep, RowsGood, Asked
<1>2. CASE ~(Final(c) \/ Settled(c))
  <2>1. Settles(c, o)
    BY <1>2 DEF SettleRun, Settles
  <2>2. c \in Commands
    BY DEF Asked
  <2>3. RunStep
    BY <2>1, <2>2 DEF RunStep
  <2>. QED
    BY <1>2, <2>3, RunStepTypes DEF SettleRun, RowsGood
<1>. QED
  BY <1>1, <1>2

\* What a settlement makes of the cached session.
LEMMA AfterSettleType ==
    ASSUME NEW m \in MemType, NEW c, NEW o
    PROVE  AfterSettle(c, o, m) \in MemType /\ AfterSettle(c, o, m).cur = m.cur
BY DEF AfterSettle, MemType

\* One request moves on.
LEMMA PostMoves ==
    ASSUME PostsGood, Asked \subseteq Asked', NEW r \in Posts, NEW p, PostGood(p, Asked'),
           post' = [post EXCEPT ![r] = p]
    PROVE  PostsGood'
BY DEF PostsGood, PostGood

\* One task moves on, and perhaps its turn is called.
LEMMA TaskMoves ==
    ASSUME TasksGood, Asked \subseteq Asked', NEW c \in Commands, NEW t, NEW n \in Nat,
           TaskGood(t, c, Asked', n), n >= calls[c], task' = [task EXCEPT ![c] = t],
           calls' = [calls EXCEPT ![c] = n]
    PROVE  TasksGood'
BY DEF TasksGood, TaskGood

\* A task is cancelled.
LEMMA TaskCancelled ==
    ASSUME TasksGood, Asked \subseteq Asked', NEW c \in Commands, UNCHANGED calls,
           task' = [task EXCEPT ![c].cancelled = TRUE]
    PROVE  TasksGood'
<1>. DEFINE t == [task[c] EXCEPT !.cancelled = TRUE]
<1>1. /\ t \in TaskType /\ t.pc = task[c].pc /\ t.turn = task[c].turn
      /\ TaskGood(task[c], c, Asked, calls[c]) /\ calls[c] \in Nat
  BY DEF TasksGood, TaskType
<1>2. TaskGood(t, c, Asked', calls[c])
  BY <1>1 DEF TaskGood
<1>3. /\ task' = [task EXCEPT ![c] = t] /\ calls' = [calls EXCEPT ![c] = calls[c]]
      /\ calls[c] >= calls[c]
  BY <1>1 DEF TasksGood
<1>. HIDE DEF t
<1>. QED
  BY <1>1, <1>2, <1>3, TaskMoves

\* What does not change stays good.
LEMMA Kept ==
    ASSUME Good, Asked \subseteq Asked'
    PROVE  /\ UNCHANGED mem => MemGood'
           /\ UNCHANGED post => PostsGood'
           /\ UNCHANGED <<task, calls>> => TasksGood'
           /\ UNCHANGED cx => CancelGood'
           /\ UNCHANGED <<up, faults>> => FaultsGood'
           /\ \A kind : Fault(kind) /\ up' \in BOOLEAN => FaultsGood'
<1>1. UNCHANGED mem => MemGood'
  BY DEF Good, MemGood
<1>2. UNCHANGED post => PostsGood'
  BY DEF Good, PostsGood, PostGood
<1>3. UNCHANGED <<task, calls>> => TasksGood'
  BY DEF Good, TasksGood, TaskGood
<1>4. UNCHANGED cx => CancelGood'
  BY DEF Good, CancelGood, NoCancel
<1>5. UNCHANGED <<up, faults>> => FaultsGood'
  BY DEF Good, FaultsGood
<1>6. ASSUME NEW kind, Fault(kind), up' \in BOOLEAN PROVE FaultsGood'
  BY <1>6, ChatAssumption DEF Good, FaultsGood, Fault, ChatAssumption
<1>. QED
  BY <1>1, <1>2, <1>3, <1>4, <1>5, <1>6

\* Nothing happens to a run.
LEMMA RunsRest ==
    ASSUME RowsGood, UNCHANGED <<row, log>>, marks' \subseteq {"started", "settled"} \X Commands,
           turnid' \in Asked \cup {NoCmd, turnid}
    PROVE  RunStep /\ RowsGood' /\ Asked' = Asked
BY DEF RunStep, RowsGood, Asked

StepGood == RunStep /\ Good' /\ \A c \in Commands : calls'[c] >= calls[c]

\* Calls that stay have not become fewer.
LEMMA CallsKept == ASSUME Good, UNCHANGED calls PROVE \A c \in Commands : calls'[c] >= calls[c]
BY DEF Good, TasksGood

-----------------------------------------------------------------------------
(* The requests.                                                           *)

LEMMA AdmitGood ==
    ASSUME Good, NEW r \in Posts, NEW c \in Commands, Admit(r, c)
    PROVE  StepGood
<1>1. \/ UNCHANGED <<row, log, turnid, marks>> /\ c \in Asked
         /\ post' = [post EXCEPT ![r] = [st |-> "again", c |-> c]]
      \/ Admits(c) /\ turnid' = c /\ marks' = marks
         /\ post' = [post EXCEPT ![r] = [st |-> "admitted", c |-> c]]
  BY DEF Admit, durable, Asked, Admits
<1>2. RunStep /\ RowsGood' /\ Asked \subseteq Asked' /\ c \in Asked'
  <2>1. CASE UNCHANGED <<row, log, turnid, marks>> /\ c \in Asked
    BY <2>1, RunsRest DEF Good, RowsGood
  <2>2. CASE Admits(c) /\ turnid' = c /\ marks' = marks
    <3>1. RunStep
      BY <2>2 DEF RunStep
    <3>2. c \in Asked'
      BY <2>2 DEF Good, RowsGood, Admits, Asked
    <3>. QED
      BY <2>2, <3>1, <3>2, RowsKept DEF Good, RowsGood
  <2>. QED
    BY <1>1, <2>1, <2>2
<1>3. PostsGood'
  <2>1. ASSUME NEW st \in {"again", "admitted"} PROVE PostGood([st |-> st, c |-> c], Asked')
    BY <1>2 DEF PostGood, PostType
  <2>. QED
    BY <1>1, <1>2, <2>1, PostMoves DEF Good
<1>4. FaultsGood'
  BY <1>2, Kept DEF Admit, Sent
<1>. QED
  BY <1>2, <1>3, <1>4, Kept, CallsKept DEF Admit, StepGood, Good

LEMMA StreamGood ==
    ASSUME Good, NEW r \in Posts, Stream(r)
    PROVE  StepGood
<1>. DEFINE c == post[r].c
<1>0. /\ post[r] \in PostType
      /\ post[r].st \notin {"idle", "over"} => c \in Asked /\ c \in Commands
      /\ PostGood(Over, Asked) /\ task \in [Commands -> TaskType] /\ mem \in MemType
  BY DEF Good, PostsGood, PostGood, PostType, Over, TasksGood, MemGood, Asked
<1>1. ASSUME UNCHANGED <<row, turnid, log, marks>> PROVE RunStep /\ RowsGood' /\ Asked' = Asked
  BY <1>1, RunsRest DEF Good, RowsGood
<1>2. ASSUME NEW st \in {"first", "settled", "joining", "open"}, post[r].st \notin {"idle", "over"},
             Move(r, st) \/ Leave(r), Asked \subseteq Asked'
      PROVE  PostsGood'
  <2>1. PostGood([post[r] EXCEPT !.st = st], Asked') /\ PostGood(Over, Asked')
    BY <1>0, <1>2 DEF PostGood, PostType, Over
  <2>2. \/ post' = [post EXCEPT ![r] = [post[r] EXCEPT !.st = st]]
        \/ post' = [post EXCEPT ![r] = Over]
    BY <1>2 DEF Move, Leave
  <2>. QED
    BY <1>2, <2>1, <2>2, PostMoves DEF Good
<1>3. CASE \E d \in Commands : Admit(r, d)
  BY <1>3, AdmitGood
<1>4. CASE Admitted(r)
  <2>1. MemGood'
    BY <1>0, <1>1, <1>4 DEF Admitted, MemGood, MemType
  <2>. QED
    BY <1>1, <1>2, <1>4, <2>1, Kept, CallsKept DEF Admitted, StepGood, Good
<1>5. CASE Abandon(r)
  BY <1>1, <1>2, <1>5, Kept, CallsKept DEF Abandon, StepGood, Good, FaultsGood
<1>6. CASE Claim(r)
  <2>1. c \in Asked /\ c \in Commands
    BY <1>0, <1>6 DEF Claim
  <2>2. MemGood'
    BY <1>0, <1>1, <1>6, <2>1 DEF Claim, Good, MemGood, MemType
  <2>3. TasksGood'
    <3>1. TaskGood([NoTask EXCEPT !.pc = "launched"], c, Asked', calls[c])
      BY <1>1, <1>6, <2>1 DEF Claim, TaskGood, TaskType, NoTask, Live
    <3>2. CASE MayLaunch(r)
      <4>1. calls' = [calls EXCEPT ![c] = calls[c]] /\ calls[c] \in Nat /\ calls[c] >= calls[c]
        BY <1>6, <2>1 DEF Claim, Good, TasksGood
      <4>. QED
        BY <1>1, <1>6, <2>1, <3>1, <3>2, <4>1, TaskMoves DEF Claim, Good
    <3>. QED
      BY <1>1, <1>6, <3>2, Kept DEF Claim
  <2>4. PostsGood'
    BY <1>1, <1>2, <1>6 DEF Claim
  <2>. QED
    BY <1>1, <1>6, <2>2, <2>3, <2>4, Kept, CallsKept DEF Claim, StepGood, Good
<1>7. CASE StreamEnds(r)
  BY <1>1, <1>2, <1>7, Kept, CallsKept DEF StreamEnds, StepGood, Good
<1>8. CASE Disconnect(r)
  <2>1. c \in Asked /\ "interrupted" \in Finals
    BY <1>0, <1>8 DEF Disconnect, Finals
  <2>2. RunStep /\ RowsGood' /\ Asked \subseteq Asked' /\ MemGood'
    <3>1. CASE UNCHANGED <<durable, mem>>
      BY <1>1, <3>1, Kept DEF durable
    <3>2. CASE Settle(c, "interrupted")
      BY <1>0, <2>1, <3>2, SettleStep, AfterSettleType DEF Settle, Good, MemGood
    <3>. QED
      BY <1>8, <3>1, <3>2 DEF Disconnect
  <2>. QED
    BY <1>2, <1>8, <2>2, Kept, CallsKept DEF Disconnect, StepGood, Good, FaultsGood
<1>9. CASE StreamCancels(r)
  <2>1. c \in Asked /\ c \in Commands
    BY <1>0, <1>9 DEF StreamCancels
  <2>2. TasksGood'
    <3>1. CASE Done(c)
      BY <1>1, <1>9, <3>1, Kept DEF StreamCancels
    <3>2. CASE ~Done(c)
      BY <1>1, <1>9, <2>1, <3>2, TaskCancelled DEF StreamCancels, Good
    <3>. QED
      BY <3>1, <3>2
  <2>. QED
    BY <1>1, <1>2, <1>9, <2>2, Kept, CallsKept DEF StreamCancels, StepGood, Good
<1>10. CASE StreamJoins(r)
  <2>1. c \in Asked /\ c \in Commands
    BY <1>0, <1>10 DEF StreamJoins
  <2>2. TasksGood'
    <3>1. TaskGood(NoTask, c, Asked', calls[c])
      BY <2>1 DEF TaskGood, TaskType, NoTask, Live, Locked
    <3>2. calls' = [calls EXCEPT ![c] = calls[c]] /\ calls[c] \in Nat /\ calls[c] >= calls[c]
      BY <1>10, <2>1 DEF StreamJoins, Good, TasksGood
    <3>. QED
      BY <1>1, <1>10, <2>1, <3>1, <3>2, TaskMoves DEF StreamJoins, Good
  <2>. QED
    BY <1>1, <1>2, <1>10, <2>2, Kept, CallsKept DEF StreamJoins, StepGood, Good
<1>. QED
  BY <1>3, <1>4, <1>5, <1>6, <1>7, <1>8, <1>9, <1>10 DEF Stream

-----------------------------------------------------------------------------
(* The tasks.                                                              *)

\* What a step of c's task may rely on.
LEMMA TaskFacts ==
    ASSUME Good, NEW c \in Commands
    PROVE  /\ TaskGood(task[c], c, Asked, calls[c]) /\ calls[c] \in Nat
           /\ calls = [calls EXCEPT ![c] = calls[c]] /\ calls[c] >= calls[c]
           /\ mem \in MemType /\ mem.cur \in Asked \cup {NoCmd}
           /\ Asked \subseteq Commands
<1>1. TaskGood(task[c], c, Asked, calls[c]) /\ calls[c] \in Nat /\ calls = [calls EXCEPT ![c] = calls[c]]
  BY DEF Good, TasksGood
<1>2. mem \in MemType /\ mem.cur \in Asked \cup {NoCmd} /\ Asked \subseteq Commands
  BY DEF Good, MemGood, Asked
<1>. QED
  BY <1>1, <1>2

\* A task at a new stage, which has read no session yet.
LEMMA TaskAnew ==
    ASSUME NEW a, NEW c \in a, NEW n, NEW pc \in Live \cup {"ended"}, pc = "running" => n > 0
    PROVE  TaskGood([NoTask EXCEPT !.pc = pc], c, a, n)
BY DEF TaskGood, TaskType, NoTask

\* The task goes on to another stage.
LEMMA TaskGoes ==
    ASSUME Good, Asked \subseteq Asked', NEW c \in Asked, NEW pc \in (Live \ {"running"}) \cup {"ended"},
           Goto(c, pc), UNCHANGED calls
    PROVE  TasksGood'
<1>1. c \in Commands
  BY DEF Asked
<1>2. TaskGood([NoTask EXCEPT !.pc = pc], c, Asked', calls[c])
  BY TaskAnew
<1>3. /\ calls' = [calls EXCEPT ![c] = calls[c]] /\ calls[c] \in Nat /\ calls[c] >= calls[c]
      /\ TasksGood
  BY <1>1, TaskFacts DEF Good
<1>. QED
  BY <1>1, <1>2, <1>3, TaskMoves DEF Goto

\* The stages at which a task deals with an admitted run.
LEMMA TaskAsked ==
    ASSUME Good, NEW c \in Commands, task[c].pc \in Live
    PROVE  c \in Asked
BY TaskFacts DEF TaskGood

\* A settlement of c from its task.
LEMMA TaskSettles ==
    ASSUME Good, NEW c \in Asked, NEW o \in Finals, Settle(c, o), o = "completed" => calls[c] > 0
    PROVE  RunStep /\ RowsGood' /\ Asked \subseteq Asked' /\ MemGood'
<1>1. RunStep /\ RowsGood' /\ Asked \subseteq Asked'
  BY SettleStep DEF Settle, Good
<1>. QED
  BY <1>1, AfterSettleType DEF Settle, Good, MemGood

LEMMA TurnGood ==
    ASSUME Good, NEW c \in Commands, Turn(c)
    PROVE  StepGood
<1>0. Live = {"begun", "queued", "running", "saving", "ending", "leaving", "launched", "refused", "returned"}
  BY DEF Live, Locked
<1>1. TaskGood(task[c], c, Asked, calls[c]) /\ calls[c] \in Nat /\ mem \in MemType /\ mem.cur \in Asked \cup {NoCmd}
  BY TaskFacts
<1>r. ASSUME UNCHANGED <<row, log>>, marks' \subseteq {"started", "settled"} \X Commands,
             turnid' \in Asked \cup {NoCmd, turnid}
      PROVE  RunStep /\ RowsGood' /\ Asked' = Asked
  BY <1>r, RunsRest DEF Good
<1>m. marks \subseteq {"started", "settled"} \X Commands
  BY DEF Good, RowsGood
<1>2. CASE Enter(c)
  <2>1. c \in Asked
    BY <1>0, <1>2, TaskAsked DEF Enter, At
  <2>2. RunStep /\ RowsGood' /\ Asked' = Asked
    BY <1>r, <1>m, <1>2, <2>1 DEF Enter, Asked
  <2>3. TasksGood'
    BY <1>0, <1>2, <2>1, <2>2, TaskGoes DEF Enter
  <2>4. MemGood'
    BY <1>1, <1>2, <2>1, <2>2 DEF Enter, MemGood, MemType, Asked
  <2>. QED
    BY <1>2, <2>2, <2>3, <2>4, Kept, CallsKept DEF Enter, StepGood, Good
<1>3. CASE Refuse(c)
  <2>1. c \in Asked /\ "failed" \in Finals
    BY <1>0, <1>3, TaskAsked DEF Refuse, At, Finals
  <2>2. RunStep /\ RowsGood' /\ Asked \subseteq Asked' /\ MemGood'
    BY <1>3, <2>1, TaskSettles DEF Refuse
  <2>3. TasksGood'
    BY <1>3, <2>1, <2>2, TaskGoes DEF Refuse
  <2>. QED
    BY <1>3, <2>2, <2>3, Kept, CallsKept DEF Refuse, StepGood, Good
<1>4. CASE CreateRow(c)
  <2>1. c \in Asked
    BY <1>0, <1>4, TaskAsked DEF CreateRow, At
  <2>2. Rewrites(c, "queued")
    BY <1>4, <2>1 DEF CreateRow, Rewrites, Active, Finals
  <2>3. RunStep
    BY <2>2 DEF RunStep, Active
  <2>4. RowsGood' /\ Asked \subseteq Asked'
    BY <1>4, <1>m, <2>3, RowsKept DEF CreateRow, Good
  <2>5. TasksGood'
    BY <1>0, <1>4, <2>1, <2>4, TaskGoes DEF CreateRow
  <2>. QED
    BY <1>4, <2>3, <2>4, <2>5, Kept, CallsKept DEF CreateRow, StepGood, Good
<1>5. CASE StartRow(c)
  <2>1. c \in Asked
    BY <1>0, <1>5, TaskAsked DEF StartRow, At
  <2>2. Rewrites(c, "running")
    BY <1>5, <2>1 DEF StartRow, Rewrites, Active, Finals
  <2>3. RunStep
    BY <2>2 DEF RunStep, Active
  <2>4. RowsGood' /\ Asked \subseteq Asked'
    BY <1>5, <1>m, <2>3, RowsKept DEF StartRow, Good
  <2>5. TaskGood([NoTask EXCEPT !.pc = "running"], c, Asked', calls[c] + 1)
    <3>1. "running" \in Live /\ c \in Asked' /\ calls[c] + 1 > 0
      BY <1>0, <1>1, <2>1, <2>4
    <3>. QED
      BY <3>1, TaskAnew
  <2>6. calls' = [calls EXCEPT ![c] = calls[c] + 1] /\ calls[c] + 1 \in Nat /\ calls[c] + 1 >= calls[c]
    BY <1>1, <1>5 DEF StartRow
  <2>7. TasksGood'
    BY <1>5, <2>4, <2>5, <2>6, TaskMoves DEF StartRow, Goto, Good
  <2>8. \A d \in Commands : calls'[d] >= calls[d]
    BY <1>1, <2>6 DEF Good, TasksGood
  <2>. QED
    BY <1>5, <2>3, <2>4, <2>7, <2>8, Kept DEF StartRow, StepGood, Good
<1>6. CASE Unprepared(c)
  <2>1. c \in Asked
    BY <1>0, <1>6, TaskAsked DEF Unprepared, At
  <2>2. RunStep /\ RowsGood' /\ Asked' = Asked
    BY <1>r, <1>m, <1>6 DEF Unprepared, durable
  <2>3. TasksGood'
    BY <1>0, <1>6, <2>1, <2>2, TaskGoes DEF Unprepared
  <2>. QED
    BY <1>6, <2>2, <2>3, Kept, CallsKept DEF Unprepared, StepGood, Good
<1>7. CASE Chat(c)
  <2>1. mem.cur \in Asked /\ mem.cur \in Commands
    BY <1>1, <1>7 DEF Chat, Asked
  <2>2. Tells(mem.cur)
    BY <1>7, <2>1 DEF Chat, Tells
  <2>3. RunStep
    BY <2>1, <2>2 DEF RunStep
  <2>4. RowsGood' /\ Asked \subseteq Asked'
    <3>1. UNCHANGED <<row, marks>> /\ turnid' = mem.cur
      BY <1>7 DEF Chat
    <3>2. turnid' \in Asked'
      BY <2>1, <3>1 DEF Asked
    <3>. QED
      BY <1>m, <2>3, <3>1, <3>2, RowsKept DEF Good
  <2>. QED
    BY <1>7, <2>3, <2>4, Kept, CallsKept DEF Chat, StepGood, Good
<1>8. ASSUME NEW o \in {"completed", "failed"}, Finish(c, o) PROVE StepGood
  <2>1. c \in Asked /\ o \in Finals /\ calls[c] > 0
    BY <1>0, <1>1, <1>8, TaskAsked DEF Finish, At, Finals, TaskGood
  <2>2. RunStep /\ RowsGood' /\ Asked \subseteq Asked' /\ MemGood'
    BY <1>8, <2>1, TaskSettles DEF Finish
  <2>3. TasksGood'
    BY <1>0, <1>8, <2>1, <2>2, TaskGoes DEF Finish
  <2>. QED
    BY <1>8, <2>2, <2>3, Kept, CallsKept DEF Finish, StepGood, Good
<1>9. CASE SaveRead(c) \/ EndRead(c)
  <2>. DEFINE t == [task[c] EXCEPT !.turn = mem.cur]
  <2>1. RunStep /\ RowsGood' /\ Asked' = Asked
    BY <1>r, <1>m, <1>9 DEF SaveRead, EndRead, durable
  <2>2. t \in TaskType /\ t.pc = task[c].pc /\ t.turn = mem.cur
    BY <1>1 DEF TaskGood, TaskType, MemType
  <2>3. TaskGood(t, c, Asked', calls[c])
    BY <1>1, <2>1, <2>2 DEF TaskGood
  <2>4. task' = [task EXCEPT ![c] = t] /\ UNCHANGED calls
    BY <1>9 DEF SaveRead, EndRead
  <2>5. TasksGood'
    <3>1. /\ calls' = [calls EXCEPT ![c] = calls[c]] /\ calls[c] \in Nat /\ calls[c] >= calls[c]
          /\ TasksGood
      BY <2>4, TaskFacts DEF Good
    <3>. HIDE DEF t
    <3>. QED
      BY <2>1, <2>3, <2>4, <3>1, TaskMoves
  <2>6. MemGood'
    BY <1>1, <1>9, <2>1 DEF SaveRead, EndRead, MemGood, MemType
  <2>. QED
    BY <1>9, <2>1, <2>5, <2>6, Kept, CallsKept DEF SaveRead, EndRead, StepGood, Good
<1>10. CASE SaveWrite(c) \/ EndWrite(c)
  <2>1. c \in Asked /\ task[c].turn \in Asked
    BY <1>0, <1>1, <1>10, TaskAsked DEF SaveWrite, EndWrite, At, TaskGood
  <2>2. RunStep /\ RowsGood' /\ Asked' = Asked
    <3>1. marks' \subseteq {"started", "settled"} \X Commands
      BY <1>m, <1>10, <2>1 DEF SaveWrite, EndWrite, Asked
    <3>2. turnid' \in Asked \cup {NoCmd, turnid}
      BY <1>10, <2>1 DEF SaveWrite, EndWrite
    <3>. QED
      BY <1>r, <1>10, <3>1, <3>2 DEF SaveWrite, EndWrite
  <2>3. TasksGood'
    BY <1>0, <1>10, <2>1, <2>2, TaskGoes DEF SaveWrite, EndWrite
  <2>. QED
    BY <1>10, <2>2, <2>3, Kept, CallsKept DEF SaveWrite, EndWrite, StepGood, Good
<1>11. CASE Returned(c)
  <2>1. c \in Asked /\ "failed" \in Finals
    BY <1>0, <1>11, TaskAsked DEF Returned, At, Finals
  <2>2. RunStep /\ RowsGood' /\ Asked \subseteq Asked' /\ MemGood'
    <3>1. CASE UNCHANGED <<durable, mem>>
      BY <1>r, <1>m, <3>1, Kept DEF durable
    <3>. QED
      BY <1>11, <2>1, <3>1, TaskSettles DEF Returned
  <2>3. TasksGood'
    BY <1>0, <1>11, <2>1, <2>2, TaskGoes DEF Returned
  <2>. QED
    BY <1>11, <2>2, <2>3, Kept, CallsKept DEF Returned, StepGood, Good
<1>12. CASE CancelUnstarted(c)
  <2>1. c \in Asked
    BY <1>0, <1>12, TaskAsked DEF CancelUnstarted
  <2>2. RunStep /\ RowsGood' /\ Asked' = Asked
    BY <1>r, <1>m, <1>12 DEF CancelUnstarted, durable
  <2>3. TasksGood'
    BY <1>0, <1>12, <2>1, <2>2, TaskGoes DEF CancelUnstarted
  <2>. QED
    BY <1>12, <2>2, <2>3, Kept, CallsKept DEF CancelUnstarted, StepGood, Good
<1>13. CASE CancelRunning(c)
  <2>1. c \in Asked /\ "cancelled" \in Finals
    BY <1>0, <1>13, TaskAsked DEF CancelRunning, Finals
  <2>2. RunStep /\ RowsGood' /\ Asked \subseteq Asked' /\ MemGood'
    BY <1>13, <2>1, TaskSettles DEF CancelRunning
  <2>3. TasksGood'
    BY <1>0, <1>13, <2>1, <2>2, TaskGoes DEF CancelRunning
  <2>. QED
    BY <1>13, <2>2, <2>3, Kept, CallsKept DEF CancelRunning, StepGood, Good
<1>. QED
  BY <1>2, <1>3, <1>4, <1>5, <1>6, <1>7, <1>8, <1>9, <1>10, <1>11, <1>12, <1>13 DEF Turn

-----------------------------------------------------------------------------
(* Cancellation, and the end and the start of the process.                 *)

LEMMA CancelStepGood ==
    ASSUME Good, CancelLive \/ ObserveEnd \/ CancelRead \/ CancelWrite \/ CancelIdle
    PROVE  StepGood
<1>1. mem \in MemType /\ mem.cur \in Asked \cup {NoCmd} /\ Asked \subseteq Commands
  BY DEF Good, MemGood, Asked
<1>m. marks \subseteq {"started", "settled"} \X Commands
  BY DEF Good, RowsGood
<1>r. ASSUME UNCHANGED <<row, log, marks>>, turnid' \in {turnid, mem.cur}
      PROVE  RunStep /\ RowsGood' /\ Asked' = Asked
  BY <1>1, <1>m, <1>r, RunsRest DEF Good
<1>2. CASE CancelLive
  <2>1. RunStep /\ RowsGood' /\ Asked' = Asked
    BY <1>r, <1>2 DEF CancelLive
  <2>2. mem.task \in Commands
    BY <1>1, <1>2 DEF CancelLive, MemType
  <2>3. TasksGood'
    BY <1>2, <2>1, <2>2, TaskCancelled DEF CancelLive, Good
  <2>4. MemGood'
    BY <1>1, <1>2, <2>1 DEF CancelLive, MemGood, MemType
  <2>. QED
    BY <1>2, <2>1, <2>3, <2>4, Kept, CallsKept DEF CancelLive, StepGood, Good, FaultsGood
<1>3. CASE ObserveEnd
  <2>1. RunStep /\ RowsGood' /\ Asked' = Asked
    BY <1>r, <1>3 DEF ObserveEnd
  <2>2. MemGood'
    BY <1>1, <1>3, <2>1 DEF ObserveEnd, MemGood, MemType, Loaded
  <2>. QED
    BY <1>3, <2>1, <2>2, Kept, CallsKept DEF ObserveEnd, StepGood, Good
<1>4. CASE CancelRead
  <2>1. RunStep /\ RowsGood' /\ Asked' = Asked
    BY <1>r, <1>4 DEF CancelRead, durable
  <2>2. CancelGood'
    BY <1>1, <1>4, <2>1 DEF CancelRead, CancelGood, CancelType
  <2>. QED
    BY <1>4, <2>1, <2>2, Kept, CallsKept DEF CancelRead, StepGood, Good, FaultsGood
<1>5. CASE CancelWrite
  <2>1. cx.c \in Asked /\ cx.c \in Commands
    BY <1>1, <1>5 DEF CancelWrite, Good, CancelGood
  <2>2. \E v \in {"cancelled", "cancelling"} : Rewrites(cx.c, v)
    BY <1>5, <2>1 DEF CancelWrite, Rewrites, Active, Finals
  <2>3. RunStep
    BY <2>1, <2>2 DEF RunStep, Active, Finals
  <2>4. RowsGood' /\ Asked \subseteq Asked'
    <3>1. marks' = marks /\ turnid' = mem.cur
      BY <1>5 DEF CancelWrite
    <3>2. Asked \subseteq Asked'
      BY <2>3, RunStepTypes DEF Good
    <3>. QED
      BY <1>1, <1>m, <2>3, <3>1, <3>2, RowsKept DEF Good
  <2>5. MemGood'
    BY <1>1, <1>5, <2>4 DEF CancelWrite, MemGood, MemType
  <2>6. CancelGood'
    BY <1>5 DEF CancelWrite, CancelGood, CancelType, NoCancel
  <2>. QED
    BY <1>5, <2>3, <2>4, <2>5, <2>6, Kept, CallsKept DEF CancelWrite, StepGood, Good
<1>6. CASE CancelIdle
  <2>1. RunStep /\ RowsGood' /\ Asked' = Asked
    BY <1>r, <1>6 DEF CancelIdle
  <2>. QED
    BY <1>6, <2>1, Kept, CallsKept DEF CancelIdle, StepGood, Good, FaultsGood
<1>. QED
  BY <1>2, <1>3, <1>4, <1>5, <1>6

\* What is left when memory is lost is good.
LEMMA ForgetGood ==
    ASSUME Good, Forget
    PROVE  MemGood' /\ PostsGood' /\ TasksGood' /\ CancelGood' /\ up' \in BOOLEAN
<1>1. MemGood'
  BY DEF Forget, MemGood, MemType, Loaded
<1>2. PostsGood'
  BY DEF Forget, PostsGood, PostGood, PostType, Idle, Over
<1>3. TasksGood'
  BY DEF Forget, Good, TasksGood, TaskGood, TaskType, NoTask, Live, Locked
<1>4. CancelGood'
  BY DEF Forget, CancelGood, CancelType, NoCancel
<1>. QED
  BY <1>1, <1>2, <1>3, <1>4 DEF Forget

LEMMA ProcessStepGood ==
    ASSUME Good, Crash \/ Shutdown \/ Serve \/ \E c \in Commands : RecoverStale(c)
    PROVE  StepGood
<1>1. mem \in MemType /\ mem.cur \in Asked \cup {NoCmd} /\ Asked \subseteq Commands
  BY DEF Good, MemGood, Asked
<1>m. marks \subseteq {"started", "settled"} \X Commands
  BY DEF Good, RowsGood
<1>r. ASSUME UNCHANGED durable
      PROVE  RunStep /\ RowsGood' /\ Asked' = Asked
  BY <1>m, <1>r, RunsRest DEF Good, durable
<1>2. CASE Crash
  <2>1. RunStep /\ RowsGood' /\ Asked' = Asked
    BY <1>r, <1>2 DEF Crash
  <2>2. MemGood' /\ PostsGood' /\ TasksGood' /\ CancelGood' /\ up' \in BOOLEAN /\ UNCHANGED calls
    BY <1>2, ForgetGood DEF Crash, Forget
  <2>3. FaultsGood'
    BY <1>2, <2>1, <2>2, Kept DEF Crash
  <2>. QED
    BY <2>1, <2>2, <2>3, CallsKept DEF StepGood, Good
<1>3. CASE Shutdown
  <2>1. RunStep /\ RowsGood' /\ Asked \subseteq Asked'
    <3>1. CASE UNCHANGED durable
      BY <1>r, <3>1
    <3>2. CASE mem.cur # NoCmd /\ SettleRun(mem.cur, "interrupted")
      <4>1. mem.cur \in Asked /\ "interrupted" \in Finals
        BY <1>1, <3>2 DEF Finals
      <4>. QED
        BY <3>2, <4>1, SettleStep DEF Good
    <3>. QED
      BY <1>3, <3>1, <3>2 DEF Shutdown
  <2>2. MemGood' /\ PostsGood' /\ TasksGood' /\ CancelGood' /\ up' \in BOOLEAN /\ UNCHANGED calls
    BY <1>3, ForgetGood DEF Shutdown, Forget
  <2>3. FaultsGood'
    BY <1>3, <2>1, <2>2, Kept DEF Shutdown
  <2>. QED
    BY <2>1, <2>2, <2>3, CallsKept DEF StepGood, Good
<1>4. CASE Serve
  <2>1. RunStep /\ RowsGood' /\ Asked' = Asked
    BY <1>r, <1>4 DEF Serve
  <2>2. MemGood'
    <3>1. turnid \in Asked \cup {NoCmd}
      BY DEF Good, RowsGood
    <3>. QED
      BY <1>1, <1>4, <2>1, <3>1 DEF Serve, MemGood, MemType, Loaded
  <2>. QED
    BY <1>4, <2>1, <2>2, Kept, CallsKept DEF Serve, StepGood, Good, FaultsGood
<1>5. ASSUME NEW c \in Commands, RecoverStale(c) PROVE StepGood
  <2>1. Rewrites(c, "interrupted")
    BY <1>5 DEF RecoverStale, Rewrites, Asked, Active, Finals
  <2>2. RunStep
    BY <2>1 DEF RunStep, Finals
  <2>3. RowsGood' /\ Asked \subseteq Asked'
    BY <1>5, <1>m, <2>2, RowsKept DEF RecoverStale, Good
  <2>. QED
    BY <1>5, <2>2, <2>3, Kept, CallsKept DEF RecoverStale, StepGood, Good
<1>. QED
  BY <1>2, <1>3, <1>4, <1>5

LEMMA NextGood == Good /\ [Next]_vars => StepGood
<1>. SUFFICES ASSUME Good, [Next]_vars PROVE StepGood
  OBVIOUS
<1>1. CASE UNCHANGED vars
  <2>1. UNCHANGED <<row, log, turnid, marks>> /\ marks \subseteq {"started", "settled"} \X Commands
    BY <1>1 DEF vars, Good, RowsGood
  <2>2. RunStep /\ RowsGood' /\ Asked' = Asked
    BY <2>1, RunsRest DEF Good
  <2>. QED
    BY <1>1, <2>2, Kept, CallsKept DEF vars, StepGood, Good
<1>. QED
  BY <1>1, StreamGood, TurnGood, CancelStepGood, ProcessStepGood DEF Next

LEMMA InitGood == Init => Good
<1>. SUFFICES ASSUME Init PROVE Good
  OBVIOUS
<1>1. RowsGood /\ MemGood
  BY DEF Init, RowsGood, MemGood, MemType, Loaded, Asked
<1>2. PostsGood
  BY DEF Init, PostsGood, PostGood, PostType, Idle
<1>3. TasksGood
  BY DEF Init, TasksGood, TaskGood, TaskType, NoTask, Live, Locked
<1>4. CancelGood /\ FaultsGood
  BY ChatAssumption DEF Init, CancelGood, CancelType, NoCancel, FaultsGood, ChatAssumption
<1>. QED
  BY <1>1, <1>2, <1>3, <1>4 DEF Good

\* Types, and all that the process remembers of a run is a run that was admitted.
THEOREM Invariance == Spec => []Good
<1>1. StepGood => Good'
  BY DEF StepGood
<1>. QED
  BY <1>1, InitGood, NextGood, PTL DEF Spec

\* Rows take the statuses of the run lifecycle, and the log only chat facts.
THEOREM TypeCorrect == Spec => []TypeOK
BY Invariance, GoodTypes, PTL

-----------------------------------------------------------------------------
(* The log.                                                                *)

\* Only runs that were admitted are in the log.
LogAsked == \A i \in 1..Len(log) : log[i].run \in Asked

Projected(c) ==
    /\ row[c] # "none" => \E i \in At1(c, "prompt") : \A j \in 1..Len(log) :
                             log[j].run = c => i <= j /\ (log[j].kind = "prompt" => i = j)
    /\ \A i, j \in At1(c, "terminal") : i = j

ToldAsIs(c) ==
    /\ Occurs(Terminal(c, "completed")) => calls[c] > 0
    /\ row[c] \in {"completed", "failed"} => Occurs(Terminal(c, row[c]))

LogGood == LogAsked /\ \A c \in Commands : Projected(c) /\ ToldAsIs(c)

\* A fact is added to the log.
LEMMA Appended ==
    ASSUME log \in Seq(Facts), NEW e \in Facts, log' = Append(log, e)
    PROVE  /\ Len(log) \in Nat /\ Len(log') = Len(log) + 1
           /\ \A i \in 1..Len(log) : log'[i] = log[i]
           /\ log'[Len(log) + 1] = e
           /\ \A x : Occurs(x)' <=> Occurs(x) \/ x = e
           /\ \A i \in 1..Len(log) : log[i] \in Facts
<1>1. /\ Len(log) \in Nat /\ Len(log') = Len(log) + 1
      /\ \A i \in 1..Len(log) : log'[i] = log[i]
      /\ log'[Len(log) + 1] = e
      /\ \A i \in 1..Len(log) : log[i] \in Facts
  OBVIOUS
<1>2. \A i : i \in 1..Len(log') <=> i \in 1..Len(log) \/ i = Len(log) + 1
  BY <1>1
<1>3. ASSUME NEW x PROVE Occurs(x)' <=> Occurs(x) \/ x = e
  <2>1. Occurs(x)' <=> \E i \in 1..Len(log') : log'[i] = x
    BY DEF Occurs
  <2>. QED
    BY <1>1, <1>2, <2>1 DEF Occurs
<1>. QED
  BY <1>1, <1>3

\* What is told of a run that the fact does not name stays as it was.
LEMMA OthersKept ==
    ASSUME log \in Seq(Facts), NEW e \in Facts, log' = Append(log, e), NEW c \in Commands,
           e.run # c, Projected(c), row'[c] = row[c]
    PROVE  Projected(c)'
<1>1. \A i : i \in 1..Len(log') <=> i \in 1..Len(log) \/ i = Len(log) + 1
  BY Appended
<1>2. \A kind : At1(c, kind)' = At1(c, kind)
  BY <1>1, Appended DEF At1
<1>3. row[c] # "none" => \E i \in At1(c, "prompt") : \A j \in 1..Len(log') :
                             log'[j].run = c => i <= j /\ (log'[j].kind = "prompt" => i = j)
  BY <1>1, Appended DEF Projected
<1>. QED
  BY <1>2, <1>3 DEF Projected

\* The prompt opens the projection of its run.
LEMMA AdmitsProjected ==
    ASSUME log \in Seq(Facts), LogAsked, NEW c \in Commands, Admits(c)
    PROVE  Projected(c)'
<1>1. Fact("prompt", c) \in Facts /\ Fact("prompt", c).run = c /\ Fact("prompt", c).kind = "prompt"
  BY DEF Facts, Fact
<1>2. \A i : i \in 1..Len(log') <=> i \in 1..Len(log) \/ i = Len(log) + 1
  BY <1>1, Appended DEF Admits
<1>3. \A i \in 1..Len(log) : log'[i].run # c
  BY <1>1, Appended DEF Admits, LogAsked, Asked
<1>4. log'[Len(log) + 1] = Fact("prompt", c) /\ Len(log) \in Nat
  BY <1>1, Appended DEF Admits
<1>5. \A kind : At1(c, kind)' = IF kind = "prompt" THEN {Len(log) + 1} ELSE {}
  BY <1>1, <1>2, <1>3, <1>4 DEF At1
<1>6. \A j \in 1..Len(log') : log'[j].run = c => j = Len(log) + 1
  BY <1>2, <1>3
<1>7. Len(log) + 1 \in At1(c, "prompt")' /\ At1(c, "terminal")' = {}
  BY <1>5
<1>8. \E i \in At1(c, "prompt")' : \A j \in 1..Len(log') :
          log'[j].run = c => i <= j /\ (log'[j].kind = "prompt" => i = j)
  <2>1. \A j \in 1..Len(log') : log'[j].run = c =>
            Len(log) + 1 <= j /\ (log'[j].kind = "prompt" => Len(log) + 1 = j)
    BY <1>4, <1>6
  <2>. QED
    BY <1>7, <2>1
<1>. QED
  BY <1>7, <1>8 DEF Projected

\* A fact, or the first root_terminal, continues it.
LEMMA ContinuesProjected ==
    ASSUME log \in Seq(Facts), NEW c \in Asked, NEW e \in Facts, log' = Append(log, e), Projected(c),
           e.run = c, e.kind # "prompt", e.kind = "terminal" => ~Settled(c)
    PROVE  Projected(c)'
<1>1. \A i : i \in 1..Len(log') <=> i \in 1..Len(log) \/ i = Len(log) + 1
  BY Appended
<1>2. At1(c, "prompt")' = At1(c, "prompt")
  BY <1>1, Appended DEF At1
<1>3. \E i \in At1(c, "prompt") : \A j \in 1..Len(log') :
          log'[j].run = c => i <= j /\ (log'[j].kind = "prompt" => i = j)
  <2>1. PICK i \in At1(c, "prompt") : \A j \in 1..Len(log) :
                log[j].run = c => i <= j /\ (log[j].kind = "prompt" => i = j)
    BY DEF Projected, Asked
  <2>2. i \in 1..Len(log)
    BY DEF At1
  <2>3. \A j \in 1..Len(log') : log'[j].run = c => i <= j /\ (log'[j].kind = "prompt" => i = j)
    BY <1>1, <2>1, <2>2, Appended
  <2>. QED
    BY <2>3
<1>4. e.kind = "terminal" => At1(c, "terminal") = {}
  <2>. SUFFICES ASSUME e.kind = "terminal", NEW i \in At1(c, "terminal") PROVE FALSE
    OBVIOUS
  <2>1. i \in 1..Len(log) /\ log[i].run = c /\ log[i].kind = "terminal" /\ log[i] \in Facts
    BY Appended DEF At1
  <2>2. log[i].outcome \in Finals /\ log[i] = Terminal(c, log[i].outcome)
    BY <2>1 DEF Facts, Terminal
  <2>. QED
    BY <2>1, <2>2 DEF Settled, Occurs
<1>5. \A i, j \in At1(c, "terminal")' : i = j
  <2>1. CASE e.kind = "terminal"
    <3>1. At1(c, "terminal")' \subseteq {Len(log) + 1}
      BY <1>1, <1>4, <2>1, Appended DEF At1
    <3>. QED
      BY <3>1
  <2>2. CASE e.kind # "terminal"
    <3>1. At1(c, "terminal")' = At1(c, "terminal")
      BY <1>1, <2>2, Appended DEF At1
    <3>. QED
      BY <3>1 DEF Projected
  <2>. QED
    BY <2>1, <2>2
<1>. QED
  BY <1>2, <1>3, <1>5 DEF Projected

\* Every step keeps what the log says of the runs.
LEMMA LogStep ==
    ASSUME Good, LogGood, StepGood
    PROVE  LogGood'
<1>1. /\ log \in Seq(Facts) /\ row \in [Commands -> Active \cup Finals \cup {"none"}]
      /\ Asked \subseteq Asked' /\ Asked \subseteq Commands
  BY RunStepTypes DEF StepGood, Good, RowsGood, Asked
<1>2. /\ \A c \in Commands : calls'[c] >= calls[c] /\ calls[c] \in Nat /\ calls'[c] \in Nat
  BY DEF StepGood, Good, TasksGood
<1>3. \A d \in Commands : Projected(d) /\ ToldAsIs(d)
  BY DEF LogGood
<1>4. ASSUME NEW c \in Commands, Admits(c) PROVE LogGood'
  <2>1. Fact("prompt", c) \in Facts /\ Fact("prompt", c).run = c /\ c \in Asked'
    BY <1>1, <1>4 DEF Facts, Fact, Admits, Asked
  <2>2. LogAsked'
    BY <1>1, <1>4, <2>1, Appended DEF Admits, LogAsked, LogGood
  <2>3. ASSUME NEW d \in Commands PROVE Projected(d)' /\ ToldAsIs(d)'
    <3>1. Projected(d)'
      <4>1. CASE d = c
        BY <1>1, <1>4, <4>1, AdmitsProjected DEF LogGood
      <4>2. CASE d # c
        BY <1>1, <1>3, <1>4, <2>1, <4>2, OthersKept DEF Admits
      <4>. QED
        BY <4>1, <4>2
    <3>2. \A o : Terminal(d, o) # Fact("prompt", c)
      BY DEF Terminal, Fact
    <3>3. \A o : Occurs(Terminal(d, o))' <=> Occurs(Terminal(d, o))
      BY <1>1, <1>4, <2>1, <3>2, Appended DEF Admits
    <3>4. row'[d] \in {"completed", "failed"} => row'[d] = row[d]
      BY <1>1, <1>4 DEF Admits
    <3>. QED
      BY <1>2, <1>3, <3>1, <3>3, <3>4 DEF ToldAsIs
  <2>. QED
    BY <2>2, <2>3 DEF LogGood
<1>5. ASSUME NEW c \in Commands, Tells(c) PROVE LogGood'
  <2>1. /\ Fact("fact", c) \in Facts /\ Fact("fact", c).run = c /\ Fact("fact", c).kind = "fact"
        /\ c \in Asked'
    BY <1>1, <1>5 DEF Facts, Fact, Tells
  <2>2. LogAsked'
    BY <1>1, <1>5, <2>1, Appended DEF Tells, LogAsked, LogGood
  <2>3. ASSUME NEW d \in Commands PROVE Projected(d)' /\ ToldAsIs(d)'
    <3>1. Projected(d)'
      <4>1. CASE d = c
        BY <1>1, <1>3, <1>5, <2>1, <4>1, ContinuesProjected DEF Tells
      <4>2. CASE d # c
        BY <1>1, <1>3, <1>5, <2>1, <4>2, OthersKept DEF Tells
      <4>. QED
        BY <4>1, <4>2
    <3>2. \A o : Terminal(d, o) # Fact("fact", c)
      BY DEF Terminal, Fact
    <3>3. \A o : Occurs(Terminal(d, o))' <=> Occurs(Terminal(d, o))
      BY <1>1, <1>5, <2>1, <3>2, Appended DEF Tells
    <3>. QED
      BY <1>2, <1>3, <1>5, <3>1, <3>3 DEF ToldAsIs, Tells
  <2>. QED
    BY <2>2, <2>3 DEF LogGood
<1>6. ASSUME NEW c \in Commands, NEW o \in Finals, Settles(c, o) PROVE LogGood'
  <2>1. /\ Terminal(c, o) \in Facts /\ Terminal(c, o).run = c /\ Terminal(c, o).kind = "terminal"
        /\ c \in Asked /\ c \in Asked'
    BY <1>1, <1>6 DEF Facts, Terminal, Settles
  <2>2. LogAsked'
    BY <1>1, <1>6, <2>1, Appended DEF Settles, LogAsked, LogGood
  <2>3. ASSUME NEW d \in Commands PROVE Projected(d)' /\ ToldAsIs(d)'
    <3>1. Projected(d)'
      <4>1. CASE d = c
        BY <1>1, <1>3, <1>6, <2>1, <4>1, ContinuesProjected DEF Settles
      <4>2. CASE d # c
        BY <1>1, <1>3, <1>6, <2>1, <4>2, OthersKept DEF Settles
      <4>. QED
        BY <4>1, <4>2
    <3>2. \A p : Occurs(Terminal(d, p))' <=> Occurs(Terminal(d, p)) \/ (d = c /\ p = o)
      <4>1. \A p : Terminal(d, p) = Terminal(c, o) <=> d = c /\ p = o
        BY DEF Terminal
      <4>. QED
        BY <1>1, <1>6, <2>1, <4>1, Appended DEF Settles
    <3>3. row'[d] = IF d = c THEN o ELSE row[d]
      BY <1>1, <1>6 DEF Settles
    <3>4. d = c /\ o = "completed" => calls[d] > 0
      BY <1>6 DEF Settles
    <3>. QED
      BY <1>2, <1>3, <3>1, <3>2, <3>3, <3>4 DEF ToldAsIs
  <2>. QED
    BY <2>2, <2>3 DEF LogGood
<1>7. ASSUME log' = log, \A d \in Commands : /\ row'[d] \in {"completed", "failed"} => row'[d] = row[d]
                                             /\ row'[d] # "none" => row[d] # "none"
      PROVE LogGood'
  <2>1. LogAsked'
    BY <1>1, <1>7 DEF LogAsked, LogGood
  <2>2. \A d \in Commands : Projected(d)'
    BY <1>3, <1>7 DEF Projected, At1
  <2>3. \A d \in Commands : ToldAsIs(d)'
    BY <1>2, <1>3, <1>7 DEF ToldAsIs, Occurs
  <2>. QED
    BY <2>1, <2>2, <2>3 DEF LogGood
<1>8. ASSUME NEW c \in Commands, NEW v \in Active \cup Finals, Rewrites(c, v) PROVE LogGood'
  BY <1>1, <1>7, <1>8 DEF Rewrites, Asked
<1>. QED
  BY <1>4, <1>5, <1>6, <1>7, <1>8 DEF StepGood, RunStep

LEMMA InitLog == Init => LogGood
BY DEF Init, LogGood, LogAsked, Projected, ToldAsIs, At1, Occurs

\* The log agrees with the rows, and with what was called.
THEOREM LogInvariance == Spec => []LogGood
<1>1. Good /\ LogGood /\ [Next]_vars => LogGood'
  BY NextGood, LogStep
<1>. QED
  BY <1>1, InitLog, Invariance, PTL DEF Spec

\* Admission retries and the many ways to settle a run leave one prompt, in
\* front, and at most one root_terminal in its projection.
THEOREM OneProjection == Spec => []OnePromptOneTerminal
<1>1. LogGood => OnePromptOneTerminal
  BY DEF LogGood, Projected, OnePromptOneTerminal
<1>. QED
  BY <1>1, LogInvariance, PTL
=============================================================================
