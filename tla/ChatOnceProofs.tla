--------------------------- MODULE ChatOnceProofs ---------------------------
(***************************************************************************)
(* Proofs about ChatTurns, continued: while requests for a command do not  *)
(* overlap, one stream at a time has its run, a task of the run belongs to *)
(* that stream, and what is still to be started was never started.  From   *)
(* that a turn is executed once, a run told to be over is over, and        *)
(* nothing is told of it after its root_terminal.                          *)
(***************************************************************************)
EXTENDS ChatTurnsProofs

\* A request has admitted c and has not launched it; a task of c that has not
\* started its run.
Waiting(c) == \E r \in Posts : post[r].c = c /\ post[r].st \in {"admitted", "first"}
Ahead(c) == task[c].pc \in {"launched", "begun", "queued"}

\* One request at a time names a command, and has its task.
Sole == \A q, r \in Posts : post[q].c = post[r].c /\ post[q].c # NoCmd => q = r
Having == {"open", "settled", "joining"}
Served == \A c \in Commands : task[c] # NoTask => \E r \in Posts : post[r].c = c /\ post[r].st \in Having

\* What is still to be started was never started, ...
Once(c) ==
    /\ calls[c] \in {0, 1}
    /\ row[c] \in {"none", "requested"} \/ Waiting(c) \/ Ahead(c) => calls[c] = 0

\* ... nor told to be over.
Open(c) ==
    /\ Settled(c) => Final(c)
    /\ Waiting(c) \/ Ahead(c) => ~Settled(c)

\* A run told to be over does nothing more, nor will it.
Ceased(c) ==
    Settled(c) => /\ row[c] \notin {"none", "requested"}
                  /\ ~Waiting(c) /\ ~Ahead(c) /\ task[c].pc # "running"

OnceGood ==
    /\ Undisturbed({"overlap"}) => Sole /\ Served /\ \A c \in Commands : Once(c)
    /\ Undisturbed({"disconnect", "overlap"}) => \A c \in Commands : Ceased(c)
    /\ Undisturbed({"cancel", "disconnect", "overlap"}) => cx = NoCancel /\ \A c \in Commands : Open(c)

\* A disturbance is not forgotten.
LEMMA Remembered == Good /\ [Next]_vars => faults.seen \subseteq faults'.seen
<1>. SUFFICES ASSUME Good, [Next]_vars PROVE faults.seen \subseteq faults'.seen
  OBVIOUS
<1>1. faults' = faults \/ \E kind : Fault(kind)
  <2>1. ASSUME NEW r \in Posts, Stream(r) PROVE faults' = faults \/ \E kind : Fault(kind)
    BY <2>1 DEF Stream, Admit, Sent, Admitted, Abandon, Claim, StreamEnds, Disconnect, StreamCancels, StreamJoins
  <2>2. ASSUME NEW c \in Commands, Turn(c) \/ RecoverStale(c) PROVE faults' = faults
    BY <2>2 DEF Turn, Enter, Refuse, CreateRow, StartRow, Unprepared, Chat, Finish, SaveRead, SaveWrite,
                EndRead, EndWrite, Returned, CancelUnstarted, CancelRunning, RecoverStale
  <2>3. CancelLive \/ ObserveEnd \/ CancelRead \/ CancelWrite \/ CancelIdle
            => faults' = faults \/ \E kind : Fault(kind)
    BY DEF CancelLive, ObserveEnd, CancelRead, CancelWrite, CancelIdle
  <2>4. Crash \/ Shutdown \/ Serve \/ UNCHANGED vars => faults' = faults \/ \E kind : Fault(kind)
    BY DEF Crash, Shutdown, Serve, vars
  <2>. QED
    BY <2>1, <2>2, <2>3, <2>4 DEF Next
<1>. QED
  BY <1>1 DEF Fault

\* What the steps of requests and tasks are about.
LEMMA Shapes ==
    ASSUME Good
    PROVE  /\ post \in [Posts -> PostType] /\ task \in [Commands -> TaskType]
           /\ calls \in [Commands -> Nat] /\ row \in [Commands -> Active \cup Finals \cup {"none"}]
           /\ \A r \in Posts : post[r].st \notin {"idle", "over"} =>
                  post[r].c \in Commands /\ post[r].c # NoCmd /\ row[post[r].c] # "none"
           /\ \A c \in Commands : task[c].pc \in Live => task[c] # NoTask /\ row[c] # "none"
           /\ NoCmd \notin Commands
<1>1. \A r \in Posts : post[r].st \notin {"idle", "over"} =>
          post[r].c \in Commands /\ post[r].c # NoCmd /\ row[post[r].c] # "none"
  BY ChatAssumption DEF Good, PostsGood, PostGood, Asked, ChatAssumption
<1>2. \A c \in Commands : task[c].pc \in Live => task[c] # NoTask /\ row[c] # "none"
  BY DEF Good, TasksGood, TaskGood, NoTask, Live, Locked, Asked
<1>. QED
  BY <1>1, <1>2, ChatAssumption DEF Good, PostsGood, TasksGood, RowsGood, ChatAssumption

\* Requests and tasks change in few ways: a request takes up a command, ...
Takes(r, c) ==
    /\ post[r] = Idle /\ (Overlaps(c) => "overlap" \in faults'.seen)
    /\ \E st \in {"admitted", "again"} :
          post' = [post EXCEPT ![r] = [st |-> st, c |-> c]] /\ (st = "admitted" => row[c] = "none")
    /\ UNCHANGED task

\* ... goes on with it, ...
Holds(r) ==
    /\ \/ post[r].st = "admitted" /\ Move(r, "first")
       \/ post[r].st = "open" /\ Move(r, "settled")
       \/ post[r].st = "settled" /\ Move(r, "joining")
    /\ \/ task' = task
       \/ task[post[r].c].pc \in Live /\ task' = [task EXCEPT ![post[r].c].cancelled = TRUE]

\* ... launches its task, ...
Launches(r) ==
    /\ post[r].st \in {"first", "again"} /\ (post[r].st = "again" => row[post[r].c] = "requested")
    /\ Move(r, "open") /\ Goto(post[r].c, "launched")

\* ... or leaves, and with it the task it had; ...
Leaves(r) ==
    /\ post[r].st \in {"first", "again", "joining"} /\ Leave(r)
    /\ task' = IF post[r].st = "joining" THEN [task EXCEPT ![post[r].c] = NoTask] ELSE task

\* ... a task goes on; ...
Works(c) ==
    /\ task[c].pc \in Live /\ UNCHANGED post
    /\ \E t \in TaskType : task' = [task EXCEPT ![c] = t] /\ (t.pc \in {"launched", "begun", "queued"} => Ahead(c))
                                                             /\ (t.pc = "running" => Ahead(c) \/ task[c].pc = "running")

\* ... or all is forgotten.
Forgets ==
    /\ \A r \in Posts : post'[r].c = NoCmd /\ post'[r].st \in {"idle", "over"}
    /\ task' = [c \in Commands |-> NoTask]

PostStep ==
    \/ \E r \in Posts : (\E c \in Commands : Takes(r, c)) \/ Holds(r) \/ Launches(r) \/ Leaves(r)
    \/ \E c \in Commands : Works(c)
    \/ Forgets
    \/ UNCHANGED <<post, task>>

LEMMA StreamSteps ==
    ASSUME Good, NEW r \in Posts, Stream(r)
    PROVE  PostStep /\ UNCHANGED calls
<1>1. ASSUME NEW c \in Commands, Admit(r, c) PROVE Takes(r, c) /\ UNCHANGED calls
  BY <1>1 DEF Admit, Takes, Sent, Fault, durable
<1>2. CASE Admitted(r)
  <2>1. Holds(r) /\ UNCHANGED calls
    BY <1>2 DEF Admitted, Holds
  <2>. QED
    BY <1>2, <2>1 DEF PostStep
<1>3. CASE Abandon(r)
  <2>1. Leaves(r) /\ UNCHANGED calls
    BY <1>3 DEF Abandon, Leaves
  <2>. QED
    BY <1>3, <2>1 DEF PostStep
<1>4. CASE Claim(r)
  <2>1. (Launches(r) \/ Leaves(r)) /\ UNCHANGED calls
    BY <1>4 DEF Claim, MayLaunch, Launches, Leaves, Goto
  <2>. QED
    BY <1>4, <2>1 DEF PostStep
<1>5. CASE StreamEnds(r) \/ Disconnect(r)
  <2>1. Holds(r) /\ UNCHANGED calls
    BY <1>5 DEF StreamEnds, Disconnect, Holds
  <2>. QED
    BY <1>5, <2>1 DEF PostStep
<1>6. CASE StreamCancels(r)
  <2>1. Holds(r) /\ UNCHANGED calls
    BY <1>6 DEF StreamCancels, Holds, Done
  <2>. QED
    BY <1>6, <2>1 DEF PostStep
<1>7. CASE StreamJoins(r)
  <2>1. Leaves(r) /\ UNCHANGED calls
    BY <1>7 DEF StreamJoins, Leaves
  <2>. QED
    BY <1>7, <2>1 DEF PostStep
<1>. QED
  BY <1>1, <1>2, <1>3, <1>4, <1>5, <1>6, <1>7 DEF Stream, PostStep

\* A stage that a task reaches by itself.
LEMMA Working ==
    ASSUME NEW c \in Commands, task[c].pc \in Live, UNCHANGED post, NEW pc \in Live \cup {"ended"}, Goto(c, pc),
           pc \in {"launched", "begun", "queued", "running"} => Ahead(c)
    PROVE  Works(c)
<1>1. [NoTask EXCEPT !.pc = pc] \in TaskType /\ [NoTask EXCEPT !.pc = pc].pc = pc
  BY DEF NoTask, TaskType
<1>2. task' = [task EXCEPT ![c] = [NoTask EXCEPT !.pc = pc]]
  BY DEF Goto
<1>. QED
  BY <1>1, <1>2 DEF Works

LEMMA TurnSteps ==
    ASSUME Good, NEW c \in Commands, Turn(c)
    PROVE  Works(c)
<1>1. /\ task \in [Commands -> TaskType] /\ mem.cur \in Commands \cup {NoCmd}
      /\ Live = {"begun", "queued", "running", "saving", "ending", "leaving", "launched", "refused", "returned"}
  BY Shapes DEF Live, Locked, Good, MemGood, MemType
<1>2. CASE Enter(c)
  BY <1>1, <1>2, Working DEF Enter, At, Ahead
<1>3. CASE CreateRow(c) \/ StartRow(c) \/ Unprepared(c)
  BY <1>1, <1>3, Working DEF CreateRow, StartRow, Unprepared, At, Ahead
<1>4. CASE Chat(c)
  <2>1. task' = [task EXCEPT ![c] = task[c]] /\ task[c] \in TaskType /\ task[c].pc = "running" /\ UNCHANGED post
    BY <1>1, <1>4 DEF Chat, At
  <2>. QED
    BY <1>1, <2>1 DEF Works
<1>5. CASE Refuse(c) \/ Returned(c) \/ \E o \in {"completed", "failed"} : Finish(c, o)
  BY <1>1, <1>5, Working DEF Refuse, Returned, Finish, At
<1>6. CASE SaveRead(c) \/ EndRead(c)
  <2>1. task' = [task EXCEPT ![c] = [task[c] EXCEPT !.turn = mem.cur]] /\ UNCHANGED post
    BY <1>1, <1>6 DEF SaveRead, EndRead
  <2>2. /\ [task[c] EXCEPT !.turn = mem.cur] \in TaskType /\ [task[c] EXCEPT !.turn = mem.cur].pc = task[c].pc
        /\ task[c].pc \in {"saving", "ending", "leaving"}
    BY <1>1, <1>6 DEF SaveRead, EndRead, TaskType, At
  <2>. QED
    BY <1>1, <2>1, <2>2 DEF Works
<1>7. CASE SaveWrite(c) \/ EndWrite(c)
  BY <1>1, <1>7, Working DEF SaveWrite, EndWrite, At
<1>8. CASE CancelUnstarted(c) \/ CancelRunning(c)
  BY <1>1, <1>8, Working DEF CancelUnstarted, CancelRunning
<1>. QED
  BY <1>2, <1>3, <1>4, <1>5, <1>6, <1>7, <1>8 DEF Turn

LEMMA PostSteps == Good /\ [Next]_vars => PostStep
<1>. SUFFICES ASSUME Good, [Next]_vars PROVE PostStep
  OBVIOUS
<1>1. CASE CancelLive
  <2>. DEFINE t == [task[mem.task] EXCEPT !.cancelled = TRUE]
  <2>1. mem.task \in Commands /\ task[mem.task] \in TaskType /\ task[mem.task].pc \in Live
    BY <1>1, Shapes DEF CancelLive, Done, Good, MemGood, MemType
  <2>2. t \in TaskType /\ t.pc = task[mem.task].pc
    BY <2>1 DEF TaskType
  <2>3. task' = [task EXCEPT ![mem.task] = t] /\ UNCHANGED post
    BY <1>1 DEF CancelLive
  <2>4. Works(mem.task)
    BY <2>1, <2>2, <2>3 DEF Works, Ahead
  <2>. QED
    BY <2>1, <2>4 DEF PostStep
<1>2. CASE ObserveEnd \/ CancelRead \/ CancelWrite \/ CancelIdle \/ Serve \/ \E c \in Commands : RecoverStale(c)
  BY <1>2 DEF ObserveEnd, CancelRead, CancelWrite, CancelIdle, Serve, RecoverStale, PostStep
<1>3. CASE Crash \/ Shutdown
  <2>1. Forgets
    BY <1>3 DEF Crash, Shutdown, Forget, Forgets, Idle, Over
  <2>. QED
    BY <2>1 DEF PostStep
<1>4. CASE UNCHANGED vars
  BY <1>4 DEF vars, PostStep
<1>5. CASE \E c \in Commands : Turn(c)
  BY <1>5, TurnSteps DEF PostStep
<1>. QED
  BY <1>1, <1>2, <1>3, <1>4, <1>5, StreamSteps DEF Next

-----------------------------------------------------------------------------
(* One stream at a time has a run.                                         *)

\* A request that may launch a run has no task of it beside it, nor another request.
LEMMA NobodyElse ==
    ASSUME Good, Sole, Served, NEW r \in Posts, post[r].st \in {"admitted", "first", "again"}
    PROVE  task[post[r].c] = NoTask
BY Shapes DEF Sole, Served, Having

LEMMA SoleStep ==
    ASSUME Good, Sole, PostStep, "overlap" \notin faults'.seen
    PROVE  Sole'
<1>0. /\ post \in [Posts -> PostType] /\ NoCmd \notin Commands
      /\ \A r \in Posts : post[r].st \notin {"idle", "over"} =>
                  post[r].c \in Commands /\ post[r].c # NoCmd
  BY Shapes
<1>1. ASSUME NEW r \in Posts, NEW c \in Commands, Takes(r, c) PROVE Sole'
  BY <1>0, <1>1 DEF Takes, Overlaps, Sole
<1>2. ASSUME NEW r \in Posts, Holds(r) \/ Launches(r) PROVE Sole'
  <2>1. \A q \in Posts : post'[q].c = post[q].c
    BY <1>0, <1>2 DEF Holds, Launches, Move, PostType
  <2>. QED
    BY <2>1 DEF Sole
<1>3. ASSUME NEW r \in Posts, Leaves(r) PROVE Sole'
  BY <1>0, <1>3 DEF Leaves, Leave, Over, Sole
<1>4. CASE Forgets
  BY <1>4 DEF Forgets, Sole
<1>5. CASE UNCHANGED post
  BY <1>5 DEF Sole
<1>. QED
  BY <1>1, <1>2, <1>3, <1>4, <1>5 DEF PostStep, Works

LEMMA ServedStep ==
    ASSUME Good, Sole, Served, PostStep
    PROVE  Served'
<1>0. /\ post \in [Posts -> PostType] /\ NoCmd \notin Commands /\ task \in [Commands -> TaskType]
      /\ \A r \in Posts : post[r].st \notin {"idle", "over"} =>
                  post[r].c \in Commands /\ post[r].c # NoCmd
      /\ \A c \in Commands : task[c].pc \in Live => task[c] # NoTask
  BY Shapes
<1>b. Served' <=> \A c \in Commands : task'[c] # NoTask => \E r \in Posts : post'[r].c = c /\ post'[r].st \in Having
  BY DEF Served, Having
<1>1. ASSUME NEW r \in Posts, NEW c \in Commands, Takes(r, c) PROVE Served'
  <2>1. \A q \in Posts : post[q].st \in Having => post'[q] = post[q]
    BY <1>0, <1>1 DEF Takes, Idle, Having
  <2>. QED
    BY <1>b, <1>1, <2>1 DEF Served, Takes
<1>2. ASSUME NEW r \in Posts, Holds(r) PROVE Served'
  <2>1. \A q \in Posts : post[q].st \in Having => post'[q].c = post[q].c /\ post'[q].st \in Having
    BY <1>0, <1>2 DEF Holds, Move, PostType, Having
  <2>2. \A c \in Commands : task'[c] # NoTask => task[c] # NoTask
    BY <1>0, <1>2 DEF Holds
  <2>. QED
    BY <1>b, <2>1, <2>2 DEF Served
<1>3. ASSUME NEW r \in Posts, Launches(r) PROVE Served'
  <2>1. /\ \A q \in Posts : post[q].st \in Having => post'[q].c = post[q].c /\ post'[q].st \in Having
        /\ post'[r].c = post[r].c /\ post'[r].st \in Having
    BY <1>0, <1>3 DEF Launches, Move, PostType, Having
  <2>2. \A c \in Commands : task'[c] # NoTask => task[c] # NoTask \/ c = post[r].c
    BY <1>0, <1>3 DEF Launches, Goto
  <2>. QED
    BY <1>b, <2>1, <2>2 DEF Served
<1>4. ASSUME NEW r \in Posts, Leaves(r) PROVE Served'
  <2>1. \A q \in Posts : q # r => post'[q] = post[q]
    BY <1>0, <1>4 DEF Leaves, Leave
  <2>2. task'[post[r].c] = NoTask /\ \A c \in Commands : c # post[r].c => task'[c] = task[c]
    BY <1>0, <1>4, NobodyElse DEF Leaves
  <2>. QED
    BY <1>b, <2>1, <2>2 DEF Served
<1>5. ASSUME NEW c \in Commands, Works(c) PROVE Served'
  <2>1. \A d \in Commands : task'[d] # NoTask => task[d] # NoTask
    BY <1>0, <1>5 DEF Works
  <2>. QED
    BY <1>b, <1>5, <2>1 DEF Served, Works
<1>6. CASE Forgets
  BY <1>6 DEF Forgets, Served
<1>7. CASE UNCHANGED <<post, task>>
  BY <1>7 DEF Served
<1>. QED
  BY <1>1, <1>2, <1>3, <1>4, <1>5, <1>6, <1>7 DEF PostStep

\* What is still to be started was waiting to be before, or was not asked for.
LEMMA AheadStep ==
    ASSUME Good, PostStep, NEW c \in Commands
    PROVE  /\ Waiting(c)' => Waiting(c) \/ row[c] = "none"
           /\ Ahead(c)' => Ahead(c) \/ Waiting(c) \/ row[c] = "requested"
           /\ task'[c].pc = "running" => task[c].pc = "running" \/ Ahead(c)
<1>0. /\ post \in [Posts -> PostType] /\ NoCmd \notin Commands /\ task \in [Commands -> TaskType]
      /\ \A r \in Posts : post[r].st \notin {"idle", "over"} =>
                  post[r].c \in Commands /\ post[r].c # NoCmd
  BY Shapes
<1>w. Waiting(c)' <=> \E r \in Posts : post'[r].c = c /\ post'[r].st \in {"admitted", "first"}
  BY DEF Waiting
<1>a. Ahead(c)' <=> task'[c].pc \in {"launched", "begun", "queued"}
  BY DEF Ahead
<1>1. ASSUME NEW r \in Posts, NEW d \in Commands, Takes(r, d)
      PROVE  (Waiting(c)' => Waiting(c) \/ row[c] = "none") /\ (Ahead(c)' => Ahead(c))
  BY <1>0, <1>1, <1>w DEF Takes, Waiting, Ahead
<1>2. ASSUME NEW r \in Posts, Holds(r)
      PROVE  (Waiting(c)' => Waiting(c)) /\ (Ahead(c)' => Ahead(c))
  <2>1. \A q \in Posts : post'[q].c = post[q].c /\ (post'[q].st = post[q].st \/ q = r)
    BY <1>0, <1>2 DEF Holds, Move, PostType
  <2>2. post'[r].st \in {"admitted", "first"} => post[r].st = "admitted"
    BY <1>0, <1>2 DEF Holds, Move, PostType
  <2>3. task'[c].pc = task[c].pc
    BY <1>0, <1>2 DEF Holds, TaskType
  <2>. QED
    BY <1>w, <2>1, <2>2, <2>3 DEF Waiting, Ahead
<1>3. ASSUME NEW r \in Posts, Launches(r)
      PROVE  (Waiting(c)' => Waiting(c)) /\ (Ahead(c)' => Ahead(c) \/ Waiting(c) \/ row[c] = "requested")
  <2>1. \A q \in Posts : q # r => post'[q] = post[q]
    BY <1>0, <1>3 DEF Launches, Move
  <2>2. post'[r].st = "open"
    BY <1>0, <1>3 DEF Launches, Move, PostType
  <2>3. task'[c] = task[c] \/ c = post[r].c
    BY <1>0, <1>3 DEF Launches, Goto
  <2>4. c = post[r].c => Waiting(c) \/ row[c] = "requested"
    BY <1>3 DEF Launches, Waiting
  <2>. QED
    BY <1>w, <2>1, <2>2, <2>3, <2>4 DEF Waiting, Ahead
<1>4. ASSUME NEW r \in Posts, Leaves(r) PROVE (Waiting(c)' => Waiting(c)) /\ (Ahead(c)' => Ahead(c))
  <2>1. (\A q \in Posts : q # r => post'[q] = post[q]) /\ post'[r].st = "over"
    BY <1>0, <1>4 DEF Leaves, Leave, Over
  <2>2. task'[c] = task[c] \/ task'[c] = NoTask
    BY <1>0, <1>4 DEF Leaves
  <2>. QED
    BY <1>w, <1>a, <2>1, <2>2 DEF Waiting, Ahead, NoTask
<1>5. ASSUME NEW d \in Commands, Works(d) PROVE (Waiting(c)' => Waiting(c)) /\ (Ahead(c)' => Ahead(c))
  BY <1>0, <1>5, <1>w, <1>a DEF Works, Waiting, Ahead
<1>6. CASE Forgets
  BY <1>6, <1>w, <1>a DEF Forgets, NoTask
<1>7. CASE UNCHANGED <<post, task>>
  BY <1>7, <1>w, <1>a DEF Waiting, Ahead
<1>8. task'[c].pc = "running" => task[c].pc = "running" \/ Ahead(c)
  <2>1. ASSUME NEW r \in Posts, Holds(r) PROVE task'[c].pc = task[c].pc
    BY <1>0, <2>1 DEF Holds, TaskType
  <2>2. ASSUME NEW r \in Posts, Launches(r) \/ Leaves(r) PROVE task'[c] = task[c] \/ task'[c].pc \in {"launched", "none"}
    BY <1>0, <2>2 DEF Launches, Leaves, Goto, NoTask
  <2>3. ASSUME NEW d \in Commands, Works(d) PROVE task'[c].pc = "running" => task[c].pc = "running" \/ Ahead(c)
    BY <1>0, <2>3 DEF Works
  <2>. QED
    BY <2>1, <2>2, <2>3 DEF PostStep, Takes, Forgets, NoTask
<1>. QED
  BY <1>1, <1>2, <1>3, <1>4, <1>5, <1>6, <1>7, <1>8 DEF PostStep

-----------------------------------------------------------------------------
(* Turns are executed once.                                                *)

LEMMA CallStep ==
    ASSUME Good, [Next]_vars, NEW c \in Commands
    PROVE  \/ calls'[c] = calls[c]
           \/ /\ task[c].pc = "queued" /\ task'[c].pc = "running" /\ row'[c] = "running"
              /\ calls'[c] = calls[c] + 1 /\ UNCHANGED post
<1>0. calls \in [Commands -> Nat] /\ row \in [Commands -> Active \cup Finals \cup {"none"}]
      /\ task \in [Commands -> TaskType]
  BY Shapes
<1>1. CASE \E d \in Commands : StartRow(d)
  BY <1>0, <1>1 DEF StartRow, At, Goto
<1>2. CASE \E d \in Commands : Turn(d) /\ ~StartRow(d)
  BY <1>2 DEF Turn, Enter, Refuse, CreateRow, Unprepared, Chat, Finish, SaveRead, SaveWrite,
              EndRead, EndWrite, Returned, CancelUnstarted, CancelRunning
<1>3. CASE \E r \in Posts : Stream(r)
  BY <1>3, StreamSteps
<1>4. CASE CancelLive \/ ObserveEnd \/ CancelRead \/ CancelWrite \/ CancelIdle \/ \E d \in Commands : RecoverStale(d)
  BY <1>4 DEF CancelLive, ObserveEnd, CancelRead, CancelWrite, CancelIdle, RecoverStale
<1>5. CASE Crash \/ Shutdown \/ Serve \/ UNCHANGED vars
  BY <1>5 DEF Crash, Shutdown, Forget, Serve, vars
<1>. QED
  BY <1>1, <1>2, <1>3, <1>4, <1>5 DEF Next

LEMMA RequestedStep ==
    ASSUME Good, RunStep, NEW c \in Commands, row'[c] \in {"none", "requested"}
    PROVE  row[c] \in {"none", "requested"}
<1>0. row \in [Commands -> Active \cup Finals \cup {"none"}]
  BY Shapes
<1>. QED
  BY <1>0 DEF RunStep, Admits, Settles, Tells, Rewrites, Asked, Finals, Active

LEMMA OnceStep ==
    ASSUME Good, [Next]_vars, Sole, Served, NEW c \in Commands, Once(c)
    PROVE  Once(c)'
<1>1. RunStep /\ PostStep
  BY NextGood, PostSteps DEF StepGood
<1>2. CASE calls'[c] = calls[c]
  BY <1>1, <1>2, AheadStep, RequestedStep DEF Once
<1>3. CASE /\ task[c].pc = "queued" /\ task'[c].pc = "running" /\ row'[c] = "running"
           /\ calls'[c] = calls[c] + 1 /\ UNCHANGED post
  <2>1. ~Waiting(c)
    BY <1>3, Shapes, NobodyElse DEF Waiting, NoTask
  <2>2. ~Waiting(c)' /\ ~Ahead(c)'
    BY <1>3, <2>1 DEF Waiting, Ahead
  <2>3. calls[c] = 0
    BY <1>3 DEF Once, Ahead
  <2>. QED
    BY <1>3, <2>2, <2>3 DEF Once
<1>. QED
  BY <1>2, <1>3, CallStep

-----------------------------------------------------------------------------
(* A run that is told to be over is over.                                  *)

\* Only a root_terminal of c tells that c is over.
LEMMA OthersOpen ==
    ASSUME Good, NEW d \in Commands, NEW o \in Finals, SettleRun(d, o), NEW c \in Commands, c # d
    PROVE  Settled(c)' <=> Settled(c)
<1>1. log \in Seq(Facts) /\ Terminal(d, o) \in Facts /\ \A x : Terminal(d, o) # Terminal(c, x)
  BY DEF Good, RowsGood, Facts, Terminal
<1>2. CASE log' = log
  BY <1>2 DEF Settled, Occurs
<1>3. CASE log' = Append(log, Terminal(d, o))
  <2>1. \A x : Occurs(x)' <=> Occurs(x) \/ x = Terminal(d, o)
    BY <1>1, <1>3, Appended
  <2>. QED
    BY <1>1, <2>1 DEF Settled
<1>. QED
  BY <1>2, <1>3 DEF SettleRun, durable

\* Nor does any other fact.
LEMMA FactsOpen ==
    ASSUME Good, NEW d \in Commands, NEW kind \in {"prompt", "fact"}, log' = Append(log, Fact(kind, d)),
           NEW c \in Commands
    PROVE  Settled(c)' <=> Settled(c)
<1>1. log \in Seq(Facts) /\ Fact(kind, d) \in Facts
  BY DEF Good, RowsGood, Facts, Fact
<1>2. \A x : Occurs(x)' <=> Occurs(x) \/ x = Fact(kind, d)
  BY <1>1, Appended
<1>3. \A o : Fact(kind, d) # Terminal(c, o)
  BY DEF Fact, Terminal
<1>. QED
  BY <1>2, <1>3 DEF Settled

\* Who tells that c is over, unless a client disconnects: its own task, when
\* nothing is left to be started.
LEMMA ToldStep ==
    ASSUME Good, [Next]_vars, Sole, Served, "disconnect" \notin faults'.seen,
           NEW c \in Commands, Settled(c)', ~Settled(c)
    PROVE  ~Waiting(c)' /\ ~Ahead(c)' /\ task'[c].pc # "running"
<1>0. task \in [Commands -> TaskType]
  BY Shapes
<1>k. log' # log
  BY DEF Settled, Occurs
<1>1. ASSUME NEW d \in Commands, Turn(d) PROVE ~Waiting(c)' /\ ~Ahead(c)' /\ task'[c].pc # "running"
  <2>1. \/ Chat(d)
        \/ (\E o \in Finals : SettleRun(d, o)) /\ (\E pc \in {"ended", "saving", "ending", "leaving"} : Goto(d, pc))
           /\ UNCHANGED post /\ task[d].pc \in Live
    BY <1>1, <1>k DEF Turn, Enter, Refuse, CreateRow, StartRow, Unprepared, Finish, SaveRead, SaveWrite, At,
              EndRead, EndWrite, Returned, CancelUnstarted, CancelRunning, Settle, durable, Finals, Live, Locked
  <2>2. ~Chat(d)
    <3>1. Chat(d) => mem.cur \in Commands
      BY DEF Chat, Good, MemGood, MemType
    <3>. QED
      BY <3>1, FactsOpen DEF Chat
  <2>3. d = c
    BY <2>1, <2>2, OthersOpen
  <2>4. ~Waiting(c)
    BY <2>1, <2>2, <2>3, Shapes, NobodyElse DEF Waiting
  <2>5. ~Waiting(c)'
    BY <2>1, <2>2, <2>4 DEF Waiting
  <2>6. task'[c].pc \in {"ended", "saving", "ending", "leaving"}
    BY <1>0, <2>1, <2>2, <2>3 DEF Goto, NoTask
  <2>. QED
    BY <2>5, <2>6 DEF Ahead
<1>2. ASSUME NEW r \in Posts, Stream(r) PROVE FALSE
  <2>1. CASE \E d \in Commands : Admit(r, d)
    <3>1. \E d \in Commands : log' = Append(log, Fact("prompt", d))
      BY <1>k, <2>1 DEF Admit, durable
    <3>. QED
      BY <3>1, FactsOpen
  <2>2. CASE Disconnect(r)
    BY <2>2 DEF Disconnect, Fault
  <2>. QED
    BY <1>2, <1>k, <2>1, <2>2 DEF Stream, Admitted, Abandon, Claim, StreamEnds, StreamCancels, StreamJoins
<1>3. CASE Shutdown
  BY <1>0, <1>3 DEF Shutdown, Forget, Waiting, Ahead, Idle, Over, NoTask
<1>. QED
  BY <1>k, <1>1, <1>2, <1>3 DEF Next, vars, CancelLive, ObserveEnd, CancelRead, CancelWrite, CancelIdle, Crash,
        Serve, RecoverStale, durable

\* A row that is final is written only by a task that starts its run, and by
\* cancellations.
LEMMA FinalStep ==
    ASSUME Good, [Next]_vars, cx = NoCancel, NEW c \in Commands, Final(c), ~Final(c)'
    PROVE  Ahead(c)
<1>0. row \in [Commands -> Active \cup Finals \cup {"none"}]
  BY Shapes
<1>k. row'[c] # row[c] /\ row[c] \in Finals /\ row'[c] \notin Finals
  BY DEF Final
<1>s. ASSUME NEW d \in Commands, NEW o \in Finals, SettleRun(d, o) PROVE FALSE
  BY <1>0, <1>k, <1>s DEF SettleRun, durable
<1>1. ASSUME NEW d \in Commands, Turn(d) PROVE Ahead(c)
  <2>1. CreateRow(d) \/ StartRow(d)
    BY <1>1, <1>k, <1>s DEF Turn, Enter, Refuse, Unprepared, Chat, Finish, SaveRead, SaveWrite,
              EndRead, EndWrite, Returned, CancelUnstarted, CancelRunning, Settle, durable, Finals
  <2>. QED
    BY <1>0, <1>k, <2>1 DEF CreateRow, StartRow, At, Ahead
<1>2. ASSUME NEW r \in Posts, Stream(r) PROVE FALSE
  <2>1. CASE \E d \in Commands : Admit(r, d)
    BY <1>0, <1>k, <2>1 DEF Admit, durable, Finals
  <2>2. CASE Disconnect(r)
    <3>1. post[r].c \in Commands /\ "interrupted" \in Finals
      BY <2>2, Shapes DEF Disconnect, Finals
    <3>. QED
      BY <1>k, <1>s, <2>2, <3>1 DEF Disconnect, Settle, durable
  <2>. QED
    BY <1>2, <1>k, <2>1, <2>2 DEF Stream, Admitted, Abandon, Claim, StreamEnds, StreamCancels, StreamJoins
<1>3. CASE Shutdown
  <2>1. (mem.cur # NoCmd => mem.cur \in Commands) /\ "interrupted" \in Finals
    BY DEF Good, MemGood, MemType, Finals
  <2>. QED
    BY <1>3, <1>k, <1>s, <2>1 DEF Shutdown, durable
<1>4. CASE \E d \in Commands : RecoverStale(d)
  BY <1>0, <1>k, <1>4 DEF RecoverStale, Finals
<1>. QED
  BY <1>k, <1>1, <1>2, <1>3, <1>4 DEF Next, vars, CancelLive, ObserveEnd, CancelRead, CancelWrite, CancelIdle, Crash,
        Serve, durable

\* The root_terminal is told with the final row.
LEMMA SettledMeansFinal ==
    ASSUME Good, RunStep, NEW c \in Commands, Settled(c)', ~Settled(c)
    PROVE  Final(c)'
<1>0. log \in Seq(Facts) /\ row \in [Commands -> Active \cup Finals \cup {"none"}]
  BY Shapes DEF Good, RowsGood
<1>k. log' # log
  BY DEF Settled, Occurs
<1>1. ASSUME NEW d \in Commands, NEW kind \in {"prompt", "fact"}, log' = Append(log, Fact(kind, d)) PROVE FALSE
  BY <1>1, FactsOpen
<1>2. \E d \in Commands, o \in Finals : Settles(d, o)
  BY <1>k, <1>1 DEF RunStep, Admits, Tells, Rewrites
<1>3. PICK d \in Commands, o \in Finals : Settles(d, o)
  BY <1>2
<1>4. \A x : Occurs(x)' <=> Occurs(x) \/ x = Terminal(d, o)
  <2>1. Terminal(d, o) \in Facts
    BY DEF Terminal, Facts
  <2>. QED
    BY <1>0, <1>3, <2>1, Appended DEF Settles
<1>5. c = d
  BY <1>4 DEF Settled, Terminal
<1>. QED
  BY <1>0, <1>3, <1>5 DEF Settles, Final

LEMMA CancelStep ==
    ASSUME Good, [Next]_vars, cx = NoCancel, "cancel" \notin faults'.seen
    PROVE  cx' = NoCancel
<1>1. ASSUME NEW r \in Posts, Stream(r) PROVE cx' = cx
  BY <1>1 DEF Stream, Admit, Admitted, Abandon, Claim, StreamEnds, Disconnect, StreamCancels, StreamJoins
<1>2. ASSUME NEW c \in Commands, Turn(c) PROVE cx' = cx
  BY <1>2 DEF Turn, Enter, Refuse, CreateRow, StartRow, Unprepared, Chat, Finish, SaveRead, SaveWrite,
              EndRead, EndWrite, Returned, CancelUnstarted, CancelRunning
<1>3. ~CancelRead /\ ~CancelLive /\ ~CancelIdle
  BY DEF CancelRead, CancelLive, CancelIdle, Fault
<1>. QED
  BY <1>1, <1>2, <1>3 DEF Next, vars, ObserveEnd, CancelWrite, Crash, Shutdown, Forget, Serve, RecoverStale

LEMMA OpenStep ==
    ASSUME Good, [Next]_vars, Sole, Served, {"cancel", "disconnect"} \cap faults'.seen = {}, cx = NoCancel,
           NEW c \in Commands, Open(c)
    PROVE  Open(c)'
<1>1. PostStep /\ RunStep
  BY PostSteps, NextGood DEF StepGood
<1>2. "disconnect" \notin faults'.seen
  OBVIOUS
<1>3. CASE Settled(c)' /\ ~Settled(c)
  <2>1. ~Waiting(c)' /\ ~Ahead(c)'
    BY <1>2, <1>3, ToldStep
  <2>2. Final(c)'
    BY <1>1, <1>3, SettledMeansFinal
  <2>. QED
    BY <2>1, <2>2 DEF Open
<1>4. CASE ~Settled(c)'
  BY <1>4 DEF Open
<1>5. CASE Settled(c)
  <2>1. Final(c) /\ ~Waiting(c) /\ ~Ahead(c)
    BY <1>5 DEF Open
  <2>2. Final(c)'
    BY <2>1, FinalStep
  <2>3. row[c] \notin {"none", "requested"}
    BY <2>1 DEF Final, Finals
  <2>. QED
    BY <1>1, <2>1, <2>2, <2>3, AheadStep DEF Open
<1>. QED
  BY <1>3, <1>4, <1>5

\* A run told to be over is never started again, whatever its row is made to say.
LEMMA CeasedStep ==
    ASSUME Good, [Next]_vars, Sole, Served, "disconnect" \notin faults'.seen, NEW c \in Commands, Ceased(c)
    PROVE  Ceased(c)'
<1>1. PostStep /\ RunStep
  BY PostSteps, NextGood DEF StepGood
<1>2. CASE Settled(c)' /\ ~Settled(c)
  <2>1. ~Waiting(c)' /\ ~Ahead(c)' /\ task'[c].pc # "running"
    BY <1>2, ToldStep
  <2>2. Final(c)'
    BY <1>1, <1>2, SettledMeansFinal
  <2>. QED
    BY <2>1, <2>2 DEF Ceased, Final, Finals
<1>3. CASE Settled(c)
  <2>1. row[c] \notin {"none", "requested"} /\ ~Waiting(c) /\ ~Ahead(c) /\ task[c].pc # "running"
    BY <1>3 DEF Ceased
  <2>2. row'[c] \notin {"none", "requested"}
    BY <1>1, <2>1, RequestedStep
  <2>3. ~Waiting(c)' /\ ~Ahead(c)' /\ task'[c].pc # "running"
    BY <1>1, <2>1, AheadStep
  <2>. QED
    BY <2>2, <2>3 DEF Ceased
<1>4. CASE ~Settled(c)'
  BY <1>4 DEF Ceased
<1>. QED
  BY <1>2, <1>3, <1>4

-----------------------------------------------------------------------------
(* Nothing is told of a run after its root_terminal.                       *)

LEMMA NoTerminal ==
    ASSUME Good, NEW c \in Commands
    PROVE  Settled(c) <=> At1(c, "terminal") # {}
<1>0. \A i \in 1..Len(log) : log[i] \in Facts
  BY DEF Good, RowsGood
<1>1. ASSUME NEW i \in At1(c, "terminal") PROVE Settled(c)
  <2>1. i \in 1..Len(log) /\ log[i].run = c /\ log[i].kind = "terminal" /\ log[i] \in Facts
    BY <1>0, <1>1 DEF At1
  <2>2. log[i].outcome \in Finals /\ log[i] = Terminal(c, log[i].outcome)
    BY <2>1 DEF Facts, Terminal
  <2>. QED
    BY <2>1, <2>2 DEF Settled, Occurs
<1>2. ASSUME Settled(c) PROVE At1(c, "terminal") # {}
  BY <1>2 DEF Settled, Occurs, Terminal, At1
<1>. QED
  BY <1>1, <1>2

\* A fact of another run, or of one that is not told to be over, breaks no silence.
LEMMA StaysSilent ==
    ASSUME Good, NEW c \in Commands, Silent(c), NEW e \in Facts, log' = Append(log, e),
           e.run = c => ~Settled(c)
    PROVE  Silent(c)'
<1>1. /\ Len(log) \in Nat /\ Len(log') = Len(log) + 1
      /\ \A i \in 1..Len(log) : log'[i] = log[i]
      /\ log'[Len(log) + 1] = e
  BY Appended DEF Good, RowsGood
<1>. SUFFICES ASSUME NEW i \in 1..Len(log'), log'[i].run = c, log'[i].kind = "terminal",
                     NEW j \in i + 1..Len(log')
              PROVE  log'[j].run # c
  BY DEF Silent, At1
<1>2. i \in At1(c, "terminal")
  BY <1>1 DEF At1
<1>3. CASE j \in i + 1..Len(log)
  BY <1>1, <1>2, <1>3 DEF Silent, At1
<1>4. CASE j = Len(log) + 1
  BY <1>1, <1>2, <1>4, NoTerminal
<1>. QED
  BY <1>1, <1>3, <1>4

\* Nobody speaks of a run whose row is final if it is told to be over.
LEMMA SilentStep ==
    ASSUME Good, LogGood, [Next]_vars, NEW c \in Commands, Silent(c), Settled(c) => Final(c)
    PROVE  Silent(c)'
<1>1. RunStep
  BY NextGood DEF StepGood
<1>2. ASSUME NEW d \in Commands, Admits(d) PROVE Silent(c)'
  <2>1. Fact("prompt", d) \in Facts /\ Fact("prompt", d).run = d
    BY DEF Facts, Fact
  <2>2. d = c => ~Settled(c)
    BY <1>2, NoTerminal DEF Admits, LogGood, LogAsked, Asked, At1
  <2>. QED
    BY <1>2, <2>1, <2>2, StaysSilent DEF Admits
<1>3. ASSUME NEW d \in Commands, Tells(d) PROVE Silent(c)'
  <2>1. Fact("fact", d) \in Facts /\ Fact("fact", d).run = d
    BY DEF Facts, Fact
  <2>2. d = c => ~Settled(c)
    BY <1>3 DEF Tells, MayRecord
  <2>. QED
    BY <1>3, <2>1, <2>2, StaysSilent DEF Tells
<1>4. ASSUME NEW d \in Commands, NEW o \in Finals, Settles(d, o) PROVE Silent(c)'
  <2>1. Terminal(d, o) \in Facts /\ Terminal(d, o).run = d
    BY DEF Facts, Terminal
  <2>. QED
    BY <1>4, <2>1, StaysSilent DEF Settles
<1>5. CASE log' = log
  BY <1>5 DEF Silent, At1
<1>. QED
  BY <1>1, <1>2, <1>3, <1>4, <1>5 DEF RunStep, Rewrites

\* Without cancellations, crashes and shutdowns a row that was restarted after
\* its root_terminal is not made final again.
LEMMA RestartedStep ==
    ASSUME Good, [Next]_vars, cx = NoCancel, up, NEW c \in Commands, Settled(c), ~Final(c),
           {"cancel", "crash", "shutdown"} \cap faults'.seen = {}
    PROVE  ~Final(c)'
<1>0. row \in [Commands -> Active \cup Finals \cup {"none"}]
  BY Shapes
<1>s. ASSUME NEW d \in Commands, NEW o \in Finals, SettleRun(d, o) PROVE row'[c] = row[c]
  BY <1>0, <1>s DEF SettleRun, durable
<1>1. ASSUME NEW d \in Commands, Turn(d) PROVE ~Final(c)'
  <2>1. CASE CreateRow(d) \/ StartRow(d)
    BY <1>0, <2>1 DEF CreateRow, StartRow, Final, Finals
  <2>2. CASE ~(CreateRow(d) \/ StartRow(d))
    <3>1. row'[c] = row[c]
      BY <1>1, <1>s, <2>2 DEF Turn, Enter, Refuse, Unprepared, Chat, Finish, SaveRead, SaveWrite,
              EndRead, EndWrite, Returned, CancelUnstarted, CancelRunning, Settle, durable, Finals
    <3>. QED
      BY <3>1 DEF Final
  <2>. QED
    BY <2>1, <2>2
<1>2. ASSUME NEW r \in Posts, Stream(r) PROVE ~Final(c)'
  <2>1. CASE \E d \in Commands : Admit(r, d)
    BY <1>0, <2>1 DEF Admit, durable, Final, Finals
  <2>2. CASE Disconnect(r)
    <3>1. post[r].c \in Commands /\ "interrupted" \in Finals
      BY <2>2, Shapes DEF Disconnect, Finals
    <3>2. row'[c] = row[c]
      BY <1>s, <2>2, <3>1 DEF Disconnect, Settle, durable
    <3>. QED
      BY <3>2 DEF Final
  <2>3. CASE UNCHANGED row
    BY <2>3 DEF Final
  <2>. QED
    BY <1>2, <2>1, <2>2, <2>3 DEF Stream, Admitted, Abandon, Claim, StreamEnds, StreamCancels, StreamJoins
<1>3. ~Crash /\ ~Shutdown /\ ~CancelRead /\ ~CancelWrite /\ ~\E d \in Commands : RecoverStale(d)
  <2>1. ~Crash /\ ~Shutdown
    BY DEF Crash, Shutdown, Fault
  <2>4. ~CancelRead
    <3>1. "cancel" \notin faults'.seen
      OBVIOUS
    <3>. QED
      BY ONLY <3>1 DEF CancelRead, Fault
  <2>2. ~CancelWrite
    BY DEF CancelWrite
  <2>3. ~\E d \in Commands : RecoverStale(d)
    BY DEF RecoverStale
  <2>. QED
    BY <2>1, <2>2, <2>3, <2>4
<1>4. CASE UNCHANGED row
  BY <1>4 DEF Final
<1>. QED
  BY <1>1, <1>2, <1>3, <1>4 DEF Next, vars, CancelLive, ObserveEnd, CancelIdle, Serve, durable

LEMMA UpStep ==
    ASSUME [Next]_vars, up, {"cancel", "crash", "shutdown"} \cap faults'.seen = {}
    PROVE  up'
<1>1. ASSUME NEW r \in Posts, Stream(r) PROVE up' = up
  BY <1>1 DEF Stream, Admit, Admitted, Abandon, Claim, StreamEnds, Disconnect, StreamCancels, StreamJoins
<1>2. ASSUME NEW c \in Commands, Turn(c) PROVE up' = up
  BY <1>2 DEF Turn, Enter, Refuse, CreateRow, StartRow, Unprepared, Chat, Finish, SaveRead, SaveWrite,
              EndRead, EndWrite, Returned, CancelUnstarted, CancelRunning
<1>3. ~Crash /\ ~Shutdown
  BY DEF Crash, Shutdown, Fault
<1>. QED
  BY <1>1, <1>2, <1>3 DEF Next, vars, CancelLive, ObserveEnd, CancelRead, CancelWrite, CancelIdle, Serve, RecoverStale

\* While rows are final by settlement alone, what is settled stays silent.
Quiet ==
    /\ Undisturbed({"cancel", "disconnect", "overlap"}) => \A c \in Commands : Silent(c)
    /\ Undisturbed({"cancel", "crash", "shutdown"}) =>
          cx = NoCancel /\ up /\ \A c \in Commands : Final(c) => Silent(c)

LEMMA QuietStep == Good /\ LogGood /\ OnceGood /\ Quiet /\ [Next]_vars => Quiet'
<1>. SUFFICES ASSUME Good, LogGood, OnceGood, Quiet, [Next]_vars PROVE Quiet'
  OBVIOUS
<1>1. faults.seen \subseteq faults'.seen
  BY Remembered
<1>2. ASSUME Undisturbed({"cancel", "disconnect", "overlap"})', NEW c \in Commands PROVE Silent(c)'
  <2>1. Undisturbed({"cancel", "disconnect", "overlap"})
    BY <1>1, <1>2 DEF Undisturbed
  <2>2. Silent(c) /\ (Settled(c) => Final(c))
    BY <2>1 DEF Quiet, OnceGood, Open
  <2>. QED
    BY <2>2, SilentStep
<1>3. ASSUME Undisturbed({"cancel", "crash", "shutdown"})'
      PROVE  (cx = NoCancel /\ up /\ \A c \in Commands : Final(c) => Silent(c))'
  <2>1. /\ Undisturbed({"cancel", "crash", "shutdown"})
        /\ {"cancel", "crash", "shutdown"} \cap faults'.seen = {} /\ "cancel" \notin faults'.seen
    BY <1>1, <1>3 DEF Undisturbed
  <2>2. cx = NoCancel /\ up /\ \A c \in Commands : Final(c) => Silent(c)
    BY <2>1 DEF Quiet
  <2>3. cx' = NoCancel /\ up'
    BY <2>1, <2>2, CancelStep, UpStep
  <2>4. ASSUME NEW c \in Commands, Final(c)' PROVE Silent(c)'
    <3>1. Settled(c) => Final(c)
      BY <2>1, <2>2, <2>4, RestartedStep
    <3>2. Silent(c)
      BY <2>2, <3>1, NoTerminal DEF Silent
    <3>. QED
      BY <3>1, <3>2, SilentStep
  <2>. QED
    BY <2>3, <2>4 DEF NoCancel
<1>. QED
  BY <1>2, <1>3 DEF Quiet

-----------------------------------------------------------------------------
(* The theorems.                                                           *)

LEMMA InitOnce == Init => OnceGood
<1>. SUFFICES ASSUME Init PROVE OnceGood
  OBVIOUS
<1>1. Sole /\ Served
  BY DEF Init, Idle, Sole, Served
<1>2. ASSUME NEW c \in Commands PROVE Once(c) /\ Open(c) /\ Ceased(c)
  <2>1. ~Waiting(c) /\ ~Ahead(c)
    BY DEF Init, Idle, NoTask, Waiting, Ahead
  <2>2. ~Settled(c) /\ calls[c] = 0
    BY DEF Init, Settled, Occurs
  <2>. QED
    BY <2>1, <2>2 DEF Once, Open, Ceased
<1>3. cx = NoCancel
  BY DEF Init
<1>. QED
  BY <1>1, <1>2, <1>3 DEF OnceGood

LEMMA OnceGoodStep == Good /\ OnceGood /\ [Next]_vars => OnceGood'
<1>. SUFFICES ASSUME Good, OnceGood, [Next]_vars PROVE OnceGood'
  OBVIOUS
<1>1. faults.seen \subseteq faults'.seen
  BY Remembered
<1>2. ASSUME Undisturbed({"overlap"})' PROVE (Sole /\ Served /\ \A c \in Commands : Once(c))'
  <2>1. Undisturbed({"overlap"}) /\ "overlap" \notin faults'.seen
    BY <1>1, <1>2 DEF Undisturbed
  <2>2. Sole /\ Served /\ \A c \in Commands : Once(c)
    BY <2>1 DEF OnceGood
  <2>3. Sole' /\ Served'
    BY <2>1, <2>2, PostSteps, SoleStep, ServedStep
  <2>. QED
    BY <2>2, <2>3, OnceStep
<1>3. ASSUME Undisturbed({"cancel", "disconnect", "overlap"})'
      PROVE  (cx = NoCancel /\ \A c \in Commands : Open(c))'
  <2>1. /\ Undisturbed({"overlap"}) /\ Undisturbed({"cancel", "disconnect", "overlap"})
        /\ "cancel" \notin faults'.seen /\ {"cancel", "disconnect"} \cap faults'.seen = {}
    BY <1>1, <1>3 DEF Undisturbed
  <2>2. Sole /\ Served /\ cx = NoCancel /\ \A c \in Commands : Open(c)
    BY <2>1 DEF OnceGood
  <2>. QED
    BY <2>1, <2>2, CancelStep, OpenStep
<1>4. ASSUME Undisturbed({"disconnect", "overlap"})' PROVE \A c \in Commands : Ceased(c)'
  <2>1. Undisturbed({"overlap"}) /\ Undisturbed({"disconnect", "overlap"}) /\ "disconnect" \notin faults'.seen
    BY <1>1, <1>4 DEF Undisturbed
  <2>2. Sole /\ Served /\ \A c \in Commands : Ceased(c)
    BY <2>1 DEF OnceGood
  <2>. QED
    BY <2>1, <2>2, CeasedStep
<1>. QED
  BY <1>2, <1>3, <1>4 DEF OnceGood

THEOREM OnceInvariance == Spec => []OnceGood
BY InitOnce, OnceGoodStep, Invariance, PTL DEF Spec

\* Retries, lost answers, crashes, shutdowns, cancellations and disconnects do
\* not make the executor run a command's turn twice.
THEOREM ExecutedAtMostOnce == Spec => []ExecutedOnce
<1>1. ASSUME NEW c \in Commands, Once(c) PROVE calls[c] <= 1
  BY <1>1 DEF Once
<1>2. OnceGood => ExecutedOnce
  BY <1>1 DEF OnceGood, ExecutedOnce
<1>. QED
  BY <1>2, OnceInvariance, PTL

\* A turn told as completed was executed, a row that says completed or failed
\* has a root_terminal that says the same, and a run told to be over is over.
THEOREM OutcomeIsTold == Spec => []OutcomeTold
<1>1. LogGood /\ OnceGood => OutcomeTold
  BY DEF LogGood, ToldAsIs, OnceGood, Open, OutcomeTold
<1>. QED
  BY <1>1, LogInvariance, OnceInvariance, PTL

LEMMA InitQuiet == Init => Quiet
<1>1. Init => \A c \in Commands : Silent(c)
  BY DEF Init, Silent, At1
<1>. QED
  BY <1>1 DEF Init, Quiet

\* A run told to be over does not run, and nothing more is told of it.
THEOREM TerminalIsLast == Spec => []NothingAfterTerminal
<1>1. Spec => []Quiet
  BY InitQuiet, QuietStep, Invariance, LogInvariance, OnceInvariance, PTL DEF Spec
<1>2. OnceGood /\ Quiet => NothingAfterTerminal
  BY DEF OnceGood, Ceased, Ahead, Quiet, NothingAfterTerminal
<1>. QED
  BY <1>1, <1>2, OnceInvariance, PTL
=============================================================================
