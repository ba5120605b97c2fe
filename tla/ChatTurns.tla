------------------------------ MODULE ChatTurns ------------------------------
(***************************************************************************)
(* The root turns of ONE connected-chat session in the process that owns   *)
(* it: admission of prompt commands, the owning and observing streams      *)
(* (server/session/manager.py), the turn lock and the run lifecycle        *)
(* (runs/lifecycle.py), settlement (settle_root_run of the durable stores),*)
(* cancellation (runs/cancel.py), shutdown, death of the process and the   *)
(* recovery of stale runs when it starts again (runs/recovery.py).         *)
(*                                                                         *)
(* One action is one awaited store call together with the assignments up   *)
(* to the next one: between two actions any other coroutine of the process *)
(* may run.  Every store call is fenced; what a stale owner may still do   *)
(* is OwnerLease's subject, so the session is taken to be owned here.  A   *)
(* run is named by its command (its id is a hash of the command id).       *)
(*                                                                         *)
(* Resume, which admits a run with a parent, differs from a prompt only in *)
(* one more guard of the admission and is left out.                        *)
(***************************************************************************)
EXTENDS Naturals, Sequences

CONSTANTS
    Commands,   \* prompt command ids
    NoCmd,      \* "no turn"
    Posts,      \* POST /prompt requests the clients send
    Faults,     \* kinds of disturbance that may occur
    MaxFaults,  \* bound: number of disturbances explored
    MaxFacts    \* bound: chat facts recorded after the prompts

\* overlap: a command is posted again while an earlier request is in progress.
Disturbances == {"cancel", "crash", "disconnect", "overlap", "shutdown"}

ASSUME ChatAssumption ==
    /\ NoCmd \notin Commands
    /\ Faults \subseteq Disturbances
    /\ MaxFacts \in Nat /\ MaxFaults \in Nat

VARIABLES
    row,     \* row[c]: status of c's row in agent_runs
    turnid,  \* turn_id of the stored session
    log,     \* the chat facts of the session, in session_seq order
    marks,   \* turns whose TurnStarted or TurnSettled event is stored
    up,      \* the process is serving (else it is starting)
    mem,     \* the cached Session: current_turn_id, turn_in_progress, task,
             \* and the task that a cancellation observer waits for
    post,    \* post[r]: how far request r is, and for which command
    task,    \* task[c]: the task in _chat_run_tasks
    cx,      \* a POST /cancel between its read of the row and its write
    calls,   \* history: calls[c] counts how often c's turn was executed
    faults   \* history: the disturbances seen, and how many are left

durable == <<row, turnid, log, marks>>
vars == <<row, turnid, log, marks, up, mem, post, task, cx, calls, faults>>

Finals == {"completed", "failed", "cancelled", "interrupted"}
Active == {"requested", "queued", "running", "cancelling"}
Final(c) == row[c] \in Finals

Facts == [kind : {"prompt", "fact"}, run : Commands] \cup
         [kind : {"terminal"}, run : Commands, outcome : Finals]
Fact(kind, c) == [kind |-> kind, run |-> c]
Terminal(c, o) == [kind |-> "terminal", run |-> c, outcome |-> o]
Occurs(e) == \E i \in 1..Len(log) : log[i] = e
Settled(c) == \E o \in Finals : Occurs(Terminal(c, o))

\* The stages of an executor task; it holds the turn lock in Locked.
Locked == {"begun", "queued", "running", "saving", "ending", "leaving"}
Live == Locked \cup {"launched", "refused", "returned"}
NoTask == [pc |-> "none", cancelled |-> FALSE, turn |-> NoCmd]
At(c, pc) == task[c].pc = pc /\ ~task[c].cancelled
Goto(c, pc) == task' = [task EXCEPT ![c] = [NoTask EXCEPT !.pc = pc]]
Done(c) == task[c].pc \notin Live
Idle == [st |-> "idle", c |-> NoCmd]
Over == [st |-> "over", c |-> NoCmd]

\* Types: rows take the statuses of the run lifecycle, the log only chat facts.
TypeOK ==
    /\ row \in [Commands -> Active \cup Finals \cup {"none"}]
    /\ turnid \in Commands \cup {NoCmd}
    /\ log \in Seq(Facts)
    /\ marks \subseteq {"started", "settled"} \X Commands
    /\ up \in BOOLEAN
    /\ mem \in [cur : Commands \cup {NoCmd}, busy : BOOLEAN,
               task : Commands \cup {NoCmd}, watch : Commands \cup {NoCmd}]
    /\ post \in [Posts -> [st : {"idle", "admitted", "first", "again", "open", "settled", "joining", "over"},
                           c : Commands \cup {NoCmd}]]
    /\ task \in [Commands -> [pc : Live \cup {"none", "ended"}, cancelled : BOOLEAN,
                              turn : Commands \cup {NoCmd}]]
    /\ cx \in [st : {"none", "requested", "other"}, c : Commands \cup {NoCmd}]
    /\ calls \in [Commands -> Nat]
    /\ faults \in [seen : SUBSET Disturbances, left : Nat]

\* A session loaded from the store has a turn id, but no turn in progress.
Loaded(c) == [cur |-> c, busy |-> FALSE, task |-> NoCmd, watch |-> NoCmd]
NoCancel == [st |-> "none", c |-> NoCmd]

Init ==
    /\ row = [c \in Commands |-> "none"]
    /\ turnid = NoCmd /\ log = <<>> /\ marks = {}
    /\ up = TRUE
    /\ mem = Loaded(NoCmd)
    /\ post = [r \in Posts |-> Idle]
    /\ task = [c \in Commands |-> NoTask]
    /\ cx = NoCancel
    /\ calls = [c \in Commands |-> 0]
    /\ faults = [seen |-> {}, left |-> MaxFaults]

-----------------------------------------------------------------------------
(* Settlement.                                                             *)

\* The unit of work of settle_root_run: run, session and root_terminal in one
\* transaction.  A final row is left alone; so is a run whose root_terminal is
\* stored already, which the store answers as a retry.
SettleRun(c, o) ==
    IF Final(c) \/ Settled(c) THEN UNCHANGED durable
    ELSE /\ row' = [row EXCEPT ![c] = o]
         /\ log' = Append(log, Terminal(c, o))
         /\ turnid' = c
         /\ UNCHANGED marks

\* It raises when the stored outcome differs or the root_terminal is missing.
SettleRaises(c, o) == Final(c) /\ ~Occurs(Terminal(c, o))

\* SessionManager.settle_root_run: then the cached session is no longer busy.
AfterSettle(c, o, m) == IF m.cur = c /\ ~SettleRaises(c, o) THEN [m EXCEPT !.busy = FALSE] ELSE m
Settle(c, o) == SettleRun(c, o) /\ mem' = AfterSettle(c, o, mem)

-----------------------------------------------------------------------------
(* POST /prompt: admission, then the stream that may own the run.          *)

Fault(kind) ==
    /\ kind \in Faults /\ faults.left > 0
    /\ faults' = [seen |-> faults.seen \cup {kind}, left |-> faults.left - 1]

\* An earlier request for the command is still in progress.
Overlaps(c) == \E q \in Posts : post[q].c = c
Sent(c) == IF Overlaps(c) THEN Fault("overlap") ELSE UNCHANGED faults

Move(r, st) == post' = [post EXCEPT ![r].st = st]
Leave(r) == post' = [post EXCEPT ![r] = Over]

\* Mutation of Admit: the receipt of an earlier attempt is not looked up.
AdmitAnew(r, c) ==
    /\ up /\ post[r] = Idle /\ Sent(c)
    /\ turnid # NoCmd => row[turnid] \notin Active \cup {"none"}
    /\ row' = [row EXCEPT ![c] = "requested"]
    /\ turnid' = c
    /\ log' = Append(log, Fact("prompt", c))
    /\ post' = [post EXCEPT ![r] = [st |-> "admitted", c |-> c]]
    /\ UNCHANGED <<marks, up, mem, task, cx, calls>>

\* admit_chat_command.  A stored receipt makes it a retry; otherwise the turn
\* of the stored session must have settled, and prompt, session, run and
\* receipt are committed together.
Admit(r, c) ==
    /\ up /\ post[r] = Idle /\ Sent(c)
    /\ IF row[c] # "none"
       THEN /\ post' = [post EXCEPT ![r] = [st |-> "again", c |-> c]]
            /\ UNCHANGED durable
       ELSE /\ turnid # NoCmd => row[turnid] \notin Active \cup {"none"}
            /\ row' = [row EXCEPT ![c] = "requested"]
            /\ turnid' = c
            /\ log' = Append(log, Fact("prompt", c))
            /\ post' = [post EXCEPT ![r] = [st |-> "admitted", c |-> c]]
            /\ UNCHANGED marks
    /\ UNCHANGED <<up, mem, task, cx, calls>>

\* The answer of the store reaches the request: the session is now busy.
Admitted(r) ==
    /\ post[r].st = "admitted"
    /\ mem' = [mem EXCEPT !.cur = post[r].c, !.busy = TRUE]
    /\ Move(r, "first")
    /\ UNCHANGED <<row, turnid, log, marks, up, task, cx, calls, faults>>

\* The client is gone before its stream starts.
Abandon(r) ==
    /\ Fault("disconnect")
    /\ post[r].st \in {"first", "again"}
    /\ Leave(r)
    /\ UNCHANGED <<row, turnid, log, marks, up, mem, task, cx, calls>>

\* Mutation of MayLaunch: a retry launches whenever no task of the run lives.
MayLaunchAgain(r) ==
    post[r].st \in {"first", "again"} /\ task[post[r].c] = NoTask

\* _claim_admitted_command, under the launch lock: one live task per run, and
\* a retry launches only what is still requested.
MayLaunch(r) ==
    LET c == post[r].c
    IN  /\ post[r].st \in {"first", "again"}
        /\ task[c] = NoTask
        /\ post[r].st = "again" => row[c] = "requested"

Claim(r) ==
    LET c == post[r].c
    IN  /\ post[r].st \in {"first", "again"}
        /\ IF MayLaunch(r)
           THEN /\ task' = [task EXCEPT ![c] = [NoTask EXCEPT !.pc = "launched"]]
                /\ mem' = [mem EXCEPT !.cur = c, !.busy = TRUE, !.task = c]
                /\ Move(r, "open")
           ELSE Leave(r) /\ UNCHANGED <<task, mem>>
        /\ UNCHANGED <<row, turnid, log, marks, up, cx, calls, faults>>

\* The owning stream meets its end: the root_terminal, ...
StreamEnds(r) ==
    /\ post[r].st = "open"
    /\ Settled(post[r].c)
    /\ Move(r, "settled")
    /\ UNCHANGED <<row, turnid, log, marks, up, mem, task, cx, calls, faults>>

\* ... or the client disconnects: a run that is not over is interrupted.
Disconnect(r) ==
    /\ Fault("disconnect")
    /\ post[r].st = "open"
    /\ IF Done(post[r].c) THEN UNCHANGED <<durable, mem>> ELSE Settle(post[r].c, "interrupted")
    /\ Move(r, "settled")
    /\ UNCHANGED <<up, task, cx, calls>>

\* Then the task is cancelled ...
StreamCancels(r) ==
    LET c == post[r].c
    IN  /\ post[r].st = "settled"
        /\ task' = IF Done(c) THEN task ELSE [task EXCEPT ![c].cancelled = TRUE]
        /\ Move(r, "joining")
        /\ UNCHANGED <<row, turnid, log, marks, up, mem, cx, calls, faults>>

\* ... and awaited, and forgotten.
StreamJoins(r) ==
    /\ post[r].st = "joining"
    /\ Done(post[r].c)
    /\ task' = [task EXCEPT ![post[r].c] = NoTask]
    /\ Leave(r)
    /\ UNCHANGED <<row, turnid, log, marks, up, mem, cx, calls, faults>>

-----------------------------------------------------------------------------
(* The executor task of a run: _launch_admitted_command, run_exclusive and  *)
(* RuntimeTurnService.run.                                                  *)

\* run_exclusive and begin: the turn lock is taken, the session is busy with
\* c, and TurnStarted is stored with it (once per turn).
Enter(c) ==
    /\ At(c, "launched")
    /\ IF \E d \in Commands : task[d].pc \in Locked
       THEN Goto(c, "refused") /\ UNCHANGED <<turnid, marks, mem>>
       ELSE /\ Goto(c, "begun")
            /\ mem' = [mem EXCEPT !.cur = c, !.busy = TRUE]
            /\ turnid' = IF <<"started", c>> \in marks THEN turnid ELSE c
            /\ marks' = marks \cup {<<"started", c>>}
    /\ UNCHANGED <<row, log, up, post, cx, calls, faults>>

\* The lock is held by another turn: this run has failed.
Refuse(c) ==
    /\ At(c, "refused")
    /\ Settle(c, "failed")
    /\ Goto(c, "ended")
    /\ UNCHANGED <<up, post, cx, calls, faults>>

\* RuntimeRunLifecycle.start writes the row twice, whatever it holds: first
\* `queued' ...
CreateRow(c) ==
    /\ At(c, "begun")
    /\ row' = [row EXCEPT ![c] = "queued"]
    /\ Goto(c, "queued")
    /\ UNCHANGED <<turnid, log, marks, up, mem, post, cx, calls, faults>>

\* ... then `running'; only now does the tracker count the run as created.
StartRow(c) ==
    /\ At(c, "queued")
    /\ row' = [row EXCEPT ![c] = "running"]
    /\ Goto(c, "running")
    /\ calls' = [calls EXCEPT ![c] = @ + 1]
    /\ UNCHANGED <<turnid, log, marks, up, mem, post, cx, faults>>

\* The turn could not be prepared: no row was created.
Unprepared(c) ==
    /\ At(c, "begun")
    /\ Goto(c, "ending")
    /\ UNCHANGED <<durable, up, mem, post, cx, calls, faults>>

\* Mutation of MayRecord: facts are recorded whatever became of the run.
MayRecordLate(c) == TRUE

\* require_unsettled_root_run_id: a settled run records no chat fact.
MayRecord(c) == ~Final(c)

\* A message of the turn is recorded for the session's current turn.
Chat(c) ==
    /\ At(c, "running") /\ mem.cur # NoCmd
    /\ Len(SelectSeq(log, LAMBDA e : e.kind = "fact")) < MaxFacts
    /\ MayRecord(mem.cur)
    /\ log' = Append(log, Fact("fact", mem.cur))
    /\ turnid' = mem.cur
    /\ UNCHANGED <<row, marks, up, mem, post, task, cx, calls, faults>>

\* Mutation of Finish: the row is finished in a transaction of its own.
FinishRowOnly(c, o) ==
    /\ At(c, "running")
    /\ row' = [row EXCEPT ![c] = o]
    /\ mem' = AfterSettle(c, o, mem)
    /\ Goto(c, "ending")
    /\ UNCHANGED <<turnid, log, marks, up, post, cx, calls, faults>>

\* The turn is over: it is settled, and a completed one saves the session.
Finish(c, o) ==
    /\ At(c, "running")
    /\ Settle(c, o)
    /\ Goto(c, IF o = "completed" /\ ~SettleRaises(c, o) THEN "saving" ELSE "ending")
    /\ UNCHANGED <<up, post, cx, calls, faults>>

\* Session writes of a turn: the session is copied, then the copy is stored,
\* first by the finalizer ...
SaveRead(c) ==
    /\ At(c, "saving") /\ task[c].turn = NoCmd
    /\ task' = [task EXCEPT ![c].turn = mem.cur]
    /\ UNCHANGED <<durable, up, mem, post, cx, calls, faults>>

SaveWrite(c) ==
    /\ At(c, "saving") /\ task[c].turn # NoCmd
    /\ turnid' = task[c].turn
    /\ Goto(c, "ending")
    /\ UNCHANGED <<row, log, marks, up, mem, post, cx, calls, faults>>

\* ... then by RuntimeTurnSessionState.finalize with TurnSettled.
EndRead(c) ==
    /\ task[c].pc \in {"ending", "leaving"} /\ task[c].turn = NoCmd
    /\ mem' = [mem EXCEPT !.busy = FALSE, !.task = IF @ = c THEN NoCmd ELSE @]
    /\ task' = [task EXCEPT ![c].turn = mem.cur]
    /\ UNCHANGED <<durable, up, post, cx, calls, faults>>

EndWrite(c) ==
    LET turn == task[c].turn
    IN  /\ task[c].pc \in {"ending", "leaving"} /\ turn # NoCmd /\ ~task[c].cancelled
        /\ turnid' = IF <<"settled", turn>> \in marks THEN turnid ELSE turn
        /\ marks' = marks \cup {<<"settled", turn>>}
        /\ Goto(c, IF task[c].pc = "ending" THEN "returned" ELSE "ended")
        /\ UNCHANGED <<row, log, up, mem, post, cx, calls, faults>>

\* The launched command returned: a run that never started has failed.
Returned(c) ==
    /\ At(c, "returned")
    /\ IF row[c] = "requested" THEN Settle(c, "failed") ELSE UNCHANGED <<durable, mem>>
    /\ Goto(c, "ended")
    /\ UNCHANGED <<up, post, cx, calls, faults>>

\* CancelledError reaches the task where it waits.  Only a created run is
\* settled by it.
CancelUnstarted(c) ==
    /\ task[c].cancelled
    /\ \/ task[c].pc \in {"launched", "refused", "returned"} /\ Goto(c, "ended")
       \/ task[c].pc \in {"begun", "queued", "saving"} /\ Goto(c, "leaving")
       \/ task[c].pc \in {"ending", "leaving"} /\ task[c].turn # NoCmd /\ Goto(c, "ended")
    /\ UNCHANGED <<durable, up, mem, post, cx, calls, faults>>

CancelRunning(c) ==
    /\ task[c].cancelled /\ task[c].pc = "running"
    /\ Settle(c, "cancelled")
    /\ Goto(c, "leaving")
    /\ UNCHANGED <<up, post, cx, calls, faults>>

-----------------------------------------------------------------------------
(* POST /cancel.                                                           *)

\* A live task: the session is stored as cancelling, the task cancelled and
\* watched.
CancelLive ==
    /\ Fault("cancel") /\ up /\ cx = NoCancel
    /\ mem.task # NoCmd /\ ~Done(mem.task)
    /\ ~task[mem.task].cancelled
    /\ mem' = [mem EXCEPT !.busy = TRUE, !.watch = mem.task]
    /\ turnid' = mem.cur
    /\ task' = [task EXCEPT ![mem.task].cancelled = TRUE]
    /\ UNCHANGED <<row, log, marks, up, post, cx, calls>>

\* The watched task has ended (RuntimeCancelObservationFinalizer).
ObserveEnd ==
    /\ mem.watch # NoCmd /\ Done(mem.watch)
    /\ mem' = IF mem.task = mem.watch THEN Loaded(mem.cur) ELSE [mem EXCEPT !.watch = NoCmd]
    /\ turnid' = IF mem.task = mem.watch THEN mem.cur ELSE turnid
    /\ UNCHANGED <<row, log, marks, up, post, task, cx, calls, faults>>

\* No live task, but a busy session: its run is loaded ...
CancelRead ==
    /\ Fault("cancel") /\ up /\ cx = NoCancel
    /\ mem.task # NoCmd => Done(mem.task)
    /\ mem.busy /\ mem.cur # NoCmd
    /\ cx' = [st |-> IF row[mem.cur] = "requested" THEN "requested" ELSE "other", c |-> mem.cur]
    /\ UNCHANGED <<durable, up, mem, post, task, calls>>

\* ... and written: cancelled before the claim, or cancelling.
CancelWrite ==
    /\ cx # NoCancel
    /\ row' = [row EXCEPT ![cx.c] = IF cx.st = "requested" THEN "cancelled" ELSE "cancelling"]
    /\ mem' = [mem EXCEPT !.busy = (cx.st = "other")]
    /\ turnid' = mem.cur
    /\ cx' = NoCancel
    /\ UNCHANGED <<log, marks, up, post, task, calls, faults>>

\* An idle session is only stored again.
CancelIdle ==
    /\ Fault("cancel") /\ up /\ cx = NoCancel
    /\ mem.task # NoCmd => Done(mem.task)
    /\ ~mem.busy /\ mem.cur # NoCmd /\ turnid # mem.cur
    /\ turnid' = mem.cur
    /\ UNCHANGED <<row, log, marks, up, mem, post, task, cx, calls>>

-----------------------------------------------------------------------------
(* The process stops and starts again.                                     *)

\* Memory is lost: streams, tasks and the cached session.
Forget ==
    /\ up' = FALSE
    /\ mem' = Loaded(NoCmd)
    /\ post' = [r \in Posts |-> IF post[r] = Idle THEN Idle ELSE Over]
    /\ task' = [c \in Commands |-> NoTask]
    /\ cx' = NoCancel
    /\ UNCHANGED calls

Crash ==
    /\ Fault("crash") /\ up
    /\ Forget
    /\ UNCHANGED durable

\* shutdown_session_runtime, after the connections are closed: the turn the
\* session is busy with is interrupted.
Shutdown ==
    /\ Fault("shutdown") /\ up
    /\ \A r \in Posts : post[r] \in {Idle, Over}
    /\ cx = NoCancel
    /\ IF mem.busy /\ mem.cur # NoCmd THEN SettleRun(mem.cur, "interrupted") ELSE UNCHANGED durable
    /\ Forget

\* Mutation of RecoverStale: the row takes a status no run has.
RecoverStaleAsStale(c) ==
    /\ ~up /\ row[c] = "running"
    /\ row' = [row EXCEPT ![c] = "stale"]
    /\ UNCHANGED <<turnid, log, marks, up, mem, post, task, cx, calls, faults>>

\* recover_stale_running_run, for one row.
RecoverStale(c) ==
    /\ ~up /\ row[c] = "running"
    /\ row' = [row EXCEPT ![c] = "interrupted"]
    /\ UNCHANGED <<turnid, log, marks, up, mem, post, task, cx, calls, faults>>

Serve ==
    /\ ~up
    /\ \A c \in Commands : row[c] # "running"
    /\ up' = TRUE
    /\ mem' = Loaded(turnid)
    /\ UNCHANGED <<durable, post, task, cx, calls, faults>>

-----------------------------------------------------------------------------
Stream(r) ==
    \/ \E c \in Commands : Admit(r, c)
    \/ Admitted(r) \/ Abandon(r) \/ Claim(r)
    \/ StreamEnds(r) \/ Disconnect(r) \/ StreamCancels(r) \/ StreamJoins(r)

Turn(c) ==
    \/ Enter(c) \/ Refuse(c) \/ CreateRow(c) \/ StartRow(c) \/ Unprepared(c)
    \/ Chat(c) \/ \E o \in {"completed", "failed"} : Finish(c, o)
    \/ SaveRead(c) \/ SaveWrite(c) \/ EndRead(c) \/ EndWrite(c) \/ Returned(c)
    \/ CancelUnstarted(c) \/ CancelRunning(c)

Next ==
    \/ \E r \in Posts : Stream(r)
    \/ \E c \in Commands : Turn(c) \/ RecoverStale(c)
    \/ CancelLive \/ ObserveEnd \/ CancelRead \/ CancelWrite \/ CancelIdle
    \/ Crash \/ Shutdown \/ Serve

Spec == Init /\ [][Next]_vars

-----------------------------------------------------------------------------
(* Properties.                                                             *)

Undisturbed(kinds) == faults.seen \cap kinds = {}
At1(c, kind) == {i \in 1..Len(log) : log[i].run = c /\ log[i].kind = kind}

\* The projection of a run is well formed whatever happens: its prompt is
\* recorded once however often the command is sent, before everything else
\* of the run, and its root_terminal at most once however many of stream,
\* task, cancellation, shutdown and their retries settle it.
OnePromptOneTerminal ==
    \A c \in Commands :
        /\ row[c] # "none" => \E i \in At1(c, "prompt") : \A j \in 1..Len(log) :
                                 log[j].run = c => i <= j /\ (log[j].kind = "prompt" => i = j)
        /\ \A i, j \in At1(c, "terminal") : i = j

\* What is told of the end of a run is true.  A run told to have completed was
\* executed; a row that says completed or failed is told by a root_terminal
\* that says the same; and a run told to be over is over, through crashes and
\* shutdowns (a cancellation, a disconnect or a request that overlaps another
\* may restart a settled row).
OutcomeTold ==
    /\ \A c \in Commands :
          /\ Occurs(Terminal(c, "completed")) => calls[c] > 0
          /\ row[c] \in {"completed", "failed"} => Occurs(Terminal(c, row[c]))
    /\ Undisturbed({"cancel", "disconnect", "overlap"}) =>
          \A c \in Commands : Settled(c) => Final(c)

\* A command's turn is executed at most once, through crashes, shutdowns,
\* cancellations and disconnects, unless requests for it overlapped: a request
\* delayed past the whole turn of its own retry launches the turn again.
ExecutedOnce == Undisturbed({"overlap"}) => \A c \in Commands : calls[c] <= 1

\* What is told of a run ends with its root_terminal.  A run told to be over is
\* neither running nor about to, through cancellations, crashes and shutdowns
\* (a disconnect or an overlapping request may restart it), and no chat fact of
\* it follows, through crashes and shutdowns (a cancellation that read the row
\* before it was settled writes `cancelling' over it, and the task of another
\* turn may then record a fact for it).  Through disconnects and overlapping
\* requests, none follows while the row is final.
Silent(c) == \A i \in At1(c, "terminal") : \A j \in i + 1..Len(log) : log[j].run # c

NothingAfterTerminal ==
    /\ Undisturbed({"disconnect", "overlap"}) =>
          \A c \in Commands : Settled(c) => task[c].pc \notin {"launched", "begun", "queued", "running"}
    /\ Undisturbed({"cancel", "disconnect", "overlap"}) => \A c \in Commands : Silent(c)
    /\ Undisturbed({"cancel", "crash", "shutdown"}) => \A c \in Commands : Final(c) => Silent(c)

\* POST /prompt answers 409 while a turn is in progress: no two runs of the
\* session are active.  The admission looks at the turn of the stored session
\* alone, and the turn before may store its own copy of the session, made
\* before the admission, over it.
OneTurn == \A c, d \in Commands : row[c] \in Active /\ row[d] \in Active => c = d

\* ADR 0077 (9): a final run state commits with its root_terminal, through
\* crash recovery too.  recover_stale_running_run writes the row alone.
TerminalWithRow == \A c \in Commands : Final(c) => Settled(c)
=============================================================================
