# TLA+ models of the durable agent runtime

The repository is an agent server: a session runs turns, a turn asks a language
model what to do, and the tools the model calls change the outside world. The
durable runtime (`coding-agent/src/agentkit/runtime`,
`coding-agent/src/coding_agent`) makes this survive crashes, takeovers by
another process, lost answers and concurrent segments without running a tool
twice or telling the model a wrong result. That is the part modelled here.
Paths below are relative to `coding-agent/src/`.

## 1. Inventory

| Component | State | Operations | Interacts with |
|---|---|---|---|
| Session ownership lease: `coding_agent/server/stores/session_owner_store.py`, `server/session/owner.py`, `server/http/lifecycle.py` | `session_owners` row (owner id, epoch, expiry); the authority cached per process; the active turn | acquire, backfill at startup, renew (heartbeat), release, assert | every durable write is fenced with (owner id, epoch) |
| Effect ledger: `coding_agent/stores/local_durable/uow.py` | effect slots, executor attempts, reconciliation evidence | prepare, reject, authorize, reserve, start, quiesce, revoke, settle, record evidence, reconcile | called by the commit port and the executor; fenced by the lease |
| Durable executor: `coding_agent/executors/durable.py` | the permit of one effect and where its claim is | load, reserve, mark started, call the backend, quiesce | ledger; tool backends |
| Segment coordinator and engine: `agentkit/runtime/coordinator.py`, `engine.py`, `contracts.py` | a snapshot of the operation state, an input, a working mailbox cut | propose, commit, authorize, execute, settle, yield, block | commit port, executor, control probe |
| Commit port and unit of work: `coding_agent/stores/durable_commit_port.py`, `_commit_transition` of `uow.py` | operation state, transition receipts, facts | fence, receipt lookup, mailbox cut, compare-and-swap, writes; replay and recovery | ledger, mailbox, fact source |
| Turn serving: `coding_agent/runs/serving_runtime.py`, `runs/turn_execution.py`, `server/session/manager.py` | the turn | `run_turn`, approval round trip, replay-recovering runner | coordinator, mailbox |
| Command mailbox: `uow.py`, `fact_source.py` | commands, dispatch generation | admit, dispose, invalidate dispatch | coordinator, approvals |
| Child executions and recovery leases: `coding_agent/runs/child_execution.py`, `stores/pg_durable/uow.py` | the child binding and its active lease, the ledger of lease ids, the cached control state of each port | acquire, rebase, refresh, authorize with retry, guarded commits, settle the parent | mailbox, coordinator, ledger of the parent effect |
| Connected chat and runs lifecycle: `coding_agent/server/session/manager.py`, `persist.py`, `runs/lifecycle.py`, `cancel.py`, `recovery.py` | `agent_runs` rows, the stored session, chat facts; the cached session, the executor tasks, the streams | admit, claim, stream, start, record, settle, cancel, shut down, recover stale runs | turn lock, store, followers |
| Chat projection and followers: `coding_agent/server/http/events.py`, `stores/pg_durable/fact_source.py`, `checkpoint.py` | chat facts with their visibility epochs, subscriber queues, the cursor of a client | commit, publish, replay, follow, overflow, restore | connected chat; HTTP clients |
| Approval coordinator, topics, remote workers, scheduled runs | see `PROJECT.json` | | |
| Tools, providers, CLI, UI, evaluation, knowledge base | none shared with the protocol | | |

`PROJECT.json` lists every component with its status.

**What is hard.** Leases expire at any moment, and an authority is captured long
before it is used. Two processes configured with the same owner id share a lease
and run twin segments of the same run. A store call may fail after it was
applied. A closeout guard and a replayed slot are read in one transaction and
used in another. A crash may fall between authorizing a tool, running it and
committing its result. An approval, a denial and an interrupt race with the
authorization they are about. A stream, its task, a cancellation, a shutdown and
a restart may all settle the same turn. A chat fact is committed and published
by two separate awaits. A recovered child dispatches by a lease it took earlier.
None of this is reachable by a unit test that drives one coroutine. The list,
line by line, is `hazards` in `PROJECT.json`.

**What makes it correct.** Per component: a stale authority is not accepted and
accepted writes follow tenures; a tool is started at most once, and whoever
declares it quiet, settled or reconciled is right about that; operation state,
ledger and facts never disagree, every decided call has one result, told
truthfully and in order, and nothing gated runs without its approval; what was
dispatched is settled in the end; a prompt is executed once and its outcome told
once, as it was; a follower is told every fact in order or told to replay; a
recovered child heeds the control that is pending, and its parent is settled
once.

## 2. Modules

    SessionLease                 what ownership promises
      OwnerLease                 implements it      <- MCOwnerLease, OwnerLeaseProofs
      EffectLedger               uses it            <- MCEffectLedger, EffectLedgerProofs
        SegmentCoordinator       implements the ledger
                                     <- MCSegmentCoordinator, SegmentCoordinatorProofs,
                                        SegmentAgreementProofs
    ChildRecovery                <- MCChildRecovery, ChildRecoveryProofs
    ChatTurns                    <- MCChatTurns, ChatTurnsProofs, ChatOnceProofs
    ChatReader                   what a chat stream promises
      ChatFollow                 implements it      <- ChatFollowProofs

`SegmentCoordinator` EXTENDS `EffectLedger`: it has the ledger's variables, and
each change of them is the ledger action of the same name. `LedgerSpec` is
what the store promises whoever drives it; the coordinator is shown to implement
it. `OwnerLease` is shown to implement `SessionLease` (`ImplementsLease`), and
the lease of `EffectLedger` is shown to be one (`UsesLease`), so that what the
ledger relies on is what ownership gives. `ChildRecovery` and `ChatTurns` take
the fence for granted for that reason. `ChatFollow` takes from `ChatTurns` only
that chat facts are committed in `session_seq` order.

**SessionLease** is the promise: one owner id at a time, a new epoch with every
tenure, and a write comes from the tenure in force, or from any up to the last
deletion of the row.

**OwnerLease** (one session). `row` is the `session_owners` row, `held` the
process's `_owner_authorities` entry, `turn`, `sweep` and `leaving` its active
turn, its `renew_owner_leases` round and its release. Each store call is one
action; the awaits between them are where others may step in. `sweep` keeps
what `renew_owner_leases` knows of time: it reads the clock once per round, so
by the time the loop reaches a session a live lease may have expired and the
reverse. A session it judges lost is `losing` until `CancelTurn` has the
manager's lock; that action is all of `RuntimeCancelOrchestrationService.cancel`:
the fenced save of the session (`SessionSaved`) and, only if it does not raise,
`task.cancel()`. `SweepAborts` is a round that an exception ends earlier, in the
store or in the cancellation of another session. The session store is the
authoritative one (all backends SQLite, no custom store); with a custom store
neither this save nor the turn's writes are fenced. `tenure`, `released` and
`wrote` are history. `CfgToken` is the
configured fencing token used when no authority is cached.

**EffectLedger** (one session). `slot`, `att`, `evid` are the three tables,
`lease` and `cap` the fence, `ex` where a process is with an effect. The
executor's claim is one action per store call, each of which may fail before or
after it was applied (`answered`). `ran` counts tool starts (history). A lost
answer of an authorization means the permit reached nobody.

**SegmentCoordinator** (one run). `op` is the operation state, `receipts` and
`facts` what the unit of work stores beside it, `appr` and `gen` the mailbox,
`co` each process's segment. A commit is one transaction and one action; its
guard is the order of checks of `_commit_transition`: fence, receipt, mailbox
cut, revision, the specific preconditions. `FailSegment` is every refusal and
every storage error, `AdoptReplay` and `ReplayDispatch` the exact replays.
A unit with facts or a closeout contains a clock reading, so that a repetition
has another fingerprint and conflicts instead of being replayed (`stamped`).

**ChildRecovery** (one child run and the parent effect that spawned it). `mail`
is the mailbox of the session, whose `dispatch_generation` is the number of its
invalidating commands; `active` and `issued` the lease of the binding and
`session_recovery_leases`; `parent`, `receipts` and `child` what transitions
write. `worker` is a `RecoveredChildCommitPort` with the coordinator's retry loop
around it, one action per store call. The initial state of the child is any
state a spawned child can be in. Two workers of one owner may hold the same
lease, as two processes of one owner id may.

**ChatTurns** (one session in the process that owns it). `row`, `turnid`, `log`
and `marks` are durable: `agent_runs`, the stored session, chat facts and turn
events. `mem`, `post`, `task` and `cx` are the memory of the process: the cached
session, the requests and their streams, the executor tasks and a POST
`/cancel`. One action is one awaited store call with the assignments up to the
next one. `calls` and `faults` are history; a property that cannot hold under
some disturbance names it (`Undisturbed`).

**ChatFollow** (one follower). `log` holds, per position, whether the fact is a
chat fact, whether it is ever published, and from which epoch it is hidden.
`pending` are commits whose publication is outstanding, `fol`, `queue` and
`over` the bridge and its `ChatSubscriber`. `View` is what the stream is
entitled to; `ChatReader` states that a stream tells its view in order and
completely, and `TellsAll` that `ChatFollow` does.

Abstractions: model content, tool arguments, results, usage and stream frames
are left out; an effect id stands for its plan, attempt id and tool call; a
revision stands for its commit reference; projection epochs are constant.

Definitions named in the comment *Mutation of X* are faulty variants of X; they
are used by no specification. Substituted for X, each makes a run fail, which
shows that its property depends on that piece of the code.

## 3. Runs

| Run | Instance | Shows | Distinct states |
|---|---|---|---|
| OwnerLease | 2 processes with own ids, 3 tenures | fencing, write order, a release deletes its own tenure, implements `SessionLease`; the heartbeat stops no turn of the tenure in force that was there when it looked | 552 k |
| OwnerLeaseLost | the same, 2 tenures, fair heartbeat, a store that answers | *violated*: a turn whose session was taken over is stopped | |
| EffectLedger | 2 processes of one owner id and a third, 1 effect, 3 epochs | one permit, at most one start, true quiescence, one owner per epoch, a settled effect is not executed by an `Alone` process, quiet reconciliation after a takeover, uses a `SessionLease` | 969 k |
| SegmentCoordinator | 2 twins, 2 tool calls (the first gated), an interrupt or denial, a storage failure | state = ledger, one tool result, approval gate, order, truth, no CAS conflict, implements `LedgerSpec` | 192 k |
| SegmentTakeover | 2 owners, 1 gated call, 2 faults out of crash, lease loss, storage failure; reconciliation | the same across a takeover | 538 k |
| SegmentLive | 2 twins, 1 gated call, control raised at any time, no faults, fair segments | a dispatched effect is settled or declared unknown | 66 k |
| SegmentCrash | 2 twins, 1 crash | *violated*: after a crash a dispatched effect stays dispatched | |
| ChatTurns | 3 requests for 2 commands, 2 disturbances out of cancel, crash, disconnect, overlap, shutdown; requests and disturbances together at most 4 | one prompt and one terminal, truthful outcome, one execution, nothing runs or is told after the terminal | 1.0 M |
| ChatTerminal | the same | *violated*: a final row has its `root_terminal` | |
| ChatTwoTurns | 3 requests for 3 commands, no disturbance | *violated*: one active run | |
| ChatFollow | a queue of 1, 3 facts, 1 restore | implements `ChatReader`; a published fact reaches the client or the stream ends; a stale stream ends | 358 k |
| ChildRecovery | 2 workers, 2 lease ids, 3 epochs, 2 commands of 4 kinds | pending control is heeded, one receipt that is found again, the retry loop ends | 588 k |

**Bounds.** `MaxTenure`, `MaxEpoch`, `MaxCut`, `MaxFaults` and the rounds in
`Calls` are named bounds in guards. Three tenures are the least with a stale
authority two takeovers old; twins plus a third process are the least in which a
shared id and a takeover meet. The ledger treats effects independently, so one
effect covers its questions; two calls are needed only where their order is the
question. In ChatTurns a third request is needed for a retry of one command
beside a second one, and two disturbances are needed for one that hits the
handling of the other; `MaxFacts` is one since only whether a fact follows the
terminal matters. A third command is what `ChatTwoTurns` is about; the
invariants of `ChatTurns` are proved for any number of them. A queue of 1 overflows with the second event, and three facts are the
least with a gap between two that are told. Three epochs allow a takeover from a
recovery; a lease id is only compared, so two with an order on their first use
(`Ordered`) cover a second lease. Two commands are the least in which one
advances the generation while another is pending. Two faults cover a failure
during the recovery from another. In SegmentCoordinator the twins are
interchangeable, hence the symmetry. Runs without deadlock checking are those of
a run that may end (completed, refused, or out of epochs, requests, facts or
commands); OwnerLease never stops and is checked for deadlock.

**Fairness.** OwnerLease (`FairSpec`, in OwnerLeaseLost): the heartbeat task
(`_renew_owner_leases` of `http/lifecycle.py`, a loop that swallows exceptions)
keeps running, a cancelled task ends, and the check and the cancellation of a
session are strongly fair: storage and other sessions may abort a round, but not
every round for ever. This is more than the code guarantees, so that the
violation does not come from a failing store. SegmentCoordinator: a segment
that has a next step takes it (the event loop schedules the task, the store
answers, the tool ends), and a process without a segment acquires the session
again and calls `run_turn` where `run_turn` accepts the run. Approvals,
interrupts, evidence and reconciliation are never forced. ChatFollow: the bridge
runs whenever it can and a commit goes on to its publication unless it is
cancelled (`Lose`); clients, restores and handovers are not forced. A client
that stops reading disconnects, which the code's stream also ends with.
ChildRecovery: an authorization that has begun takes its next step (`Step`), for
each worker; crashes, commands and takeovers may still interrupt it at any
point, the number of commands being bounded, as a mailbox that never rests would
keep any retry loop going.

## 4. Findings

* `OwnerLeaseLost`: when another owner has taken a session over, the heartbeat
  cancels the local turn by saving the session first and cancelling the task
  after it. The save is fenced with the authority that was lost, so it raises
  `SessionOwnershipConflictError`, the task is not cancelled, and the exception
  ends the round, in every round: the sessions after it in the list are not
  renewed either. The turn runs until it ends or its own next write is rejected
  (the fence itself holds, see `FencedByTenure`). The test of this behaviour uses an in-memory store, whose save is not fenced. With
  `SessionSaved(p) == TRUE` the property holds.
* `SegmentCrash`: after a crash between the authorization and the settlement
  nothing settles the effect: `run_turn` refuses the run and no startup scan of
  dispatched attempts exists, which ADR-0085 requires of root startup recovery
  before activation.
* `ChatTerminal`: the recovery of stale runs at startup, and a cancellation
  before the claim, write a final run row without a `root_terminal`, which
  ADR-0077 requires to commit with it; nobody adds it later, since
  `settle_root_run` refuses a row that is final. Its followers wait for ever.
* `ChatTwoTurns`: the admission of a prompt looks at the run that the stored
  session names, and every session write stores the whole session as it was
  copied before the awaits of that write. A settled turn still saves its session;
  when the next prompt is admitted between its copy and its write, the old turn
  id is put back, and a third prompt is admitted beside the second, whose run is
  still requested. The prompt route and the client contract promise a 409. With
  two commands the state cannot be reached, as the third prompt is the first
  that the wrong id lets in.

Beside the findings the properties name what they had to except. `release`
deletes the row and the next acquire starts again at epoch 1, whereas the
ownership checklist (`docs/pg-phase2-multi-instance-checklist.md`) and ADR-0013
call the token monotonically increasing per grant: an authority remembered from
before a release may name the new row, and all lease properties are stated up to
the last deletion (`released`). A cancellation that waits for the manager's lock
may stop a turn that began under a later grant than the one it judged
(`OnlyLostTurnsStopped`). A disconnect
that settles a run whose task is still between its creation and its start leaves
the row running under a stored terminal (`NothingAfterTerminal`, `OutcomeTold`). A
cancellation that has read a row before it is settled writes `cancelling` over the
settled one; when in addition another turn is running, which takes three commands
and the open admission of `ChatTwoTurns`, its task records a fact for the run that
was told to be over (`NothingAfterTerminal` excepts cancellations there, and holds
with them for the run's own task). A request delayed past the whole turn of its own retry launches the turn again
(`ExecutedOnce`). A rebase refused while no control is raised, after a sibling's
control advanced the generation, keeps the coordinator's loop asking for ever
(`Blocked` in `RetryEnds`), although ADR-0085 has the recovery yield.

`SegmentCoordinator` also shows (`NoCasConflict`) that the coordinator's
reload-on-CAS-conflict branches cannot be reached inside one run: the receipt of
the competing transition is found first. They are not modelled for that reason.

## 5. Theorems

All for any number of processes, owner ids, effects and rounds and any bounds.

*OwnerLeaseProofs.* `EpochCountsTenures` is inductive with `TypeOK`: an
authority issued since the last deletion carries `epoch = tenure - released`,
and so does the row. Fencing follows: equal epochs mean equal tenures. Write
order and `ReleaseOwn` are action properties from the same invariant.
`StopsOnlyLost` needs in addition that what a round has judged lost stays lost
(`LostStaysLost`): no grant reuses its epoch, and a row that was late for a
round's clock is late until it is written again. From the first invariant follows
`Implementation`, too: each step begins, ends or writes in a tenure, or is a stutter of
`SessionLease`.

*EffectLedgerProofs.* `AtMostOnce` is not inductive. `OnePermit` is: an
undispatched effect has no attempt and never ran; permits belong to dispatched
effects; no two processes hold one of the same effect; a tool runs only under a
started attempt; whoever has not run its tool yet has `ran = 0`. From it also
quiescence and the reconciliation theorem. `OneOwner` is inductive relative to
it: an epoch names its owner id; for a process that shares its id with nobody, a
permit outlives the settlement of its effect
only under an older epoch and before the claim, and what the process in force is
about to settle nobody executes. `SettledMeansQuiet` follows. `LeaseUsed` shows
that the lease the module assumes is a `SessionLease`.

*SegmentCoordinatorProofs.* `TypeOK` with its structural conditions (a segment
that waits, commits or polls has the effect for it; markers belong to a plan; a
model request is outstanding only without plans) is inductive, and it is what
the refinement needs: `RunsTheLedger`, `Spec => LedgerSpec`. Everything proved
of the ledger thereby holds of every run, `RunsToolsAtMostOnce` first.

*SegmentAgreementProofs.* None of what a run says of its effects is inductive: a
segment commits from a snapshot taken long before, so one has to know what
snapshots may look like. `RunInv` says it. Every snapshot is a state that was
committed (`Known`: the admission, and the targets of the receipts); one of the
current revision is the current state, and its markers were set by committed
transitions (`StateGood`); one that is no longer current was left by the very
transition that its markers call for, whose receipt is stored (`Left`); and the
input and stage of a segment belong to its snapshot (`Fits`). Hence a stale
segment finds its own receipt before the swap is reached (`SwapNeverDecides`), and
a commit that passes the swap transforms the current state, on which state, slots
and facts agree (`Agreement`). The transitions are seven (`Admits`, `PlansCalls`,
`Denies`, `Authorizes`, `Settles`, `Reconciles`, `Finishes`); every other action
keeps the store. `LedgerHistory`, about results, evidence and tool starts, is
inductive by itself and yields `RunTellsTruthfully`. From `RunInv` follow
`StateAgreesWithLedger`, `ToldExactlyOnce`, `GateHolds` and `CallsRunInOrder`.
The proof needs that two calls of a run never share an effect id;
`CoordinatorAssumption` says so, since `agentkit/runtime/engine.py` names an
effect by its transition and the index of its call.

*ChatFollowProofs.* `Inv` adds to the types where the position of a stream lies
(`PosOK`), that its queue and its batch hold facts it may tell (`QueueOK`,
`BatchOK`) and that what was told is the view up to its position. Then every
step tells the next fact of the view, begins a stream, lets the view grow beyond
the position, or changes nothing a reader sees: `Implementation`.

*ChatTurnsProofs.* Whatever the process remembers of a run (a cached turn id, a
task, a stream, a cancellation) names an admitted one (`Good`). `RunStep` then
says once and for all actions what a step may do to the row of a run and to its
facts: admit it with its prompt, settle it with its terminal, tell a fact while
it is unsettled, or rewrite a row that is not waiting. From it follow
`OnePromptOneTerminal` and what `ChatOnceProofs` needs.

*ChatOnceProofs.* While the requests for a command do not overlap, one stream at
a time serves its run (`Sole`), a task belongs to that stream (`Served`), what is
still to be started was never started (`Once`) and its terminal is not yet told
(`Open`). `PostStep` classifies what a step does to requests and tasks, and with
it the parts are inductive together; `ExecutedOnce` and `OutcomeTold` follow. For
`TerminalIsLast`: only a run's own task tells its end, when nothing of it is left
to be started, and afterwards nothing is (`Ceased`), whatever a cancellation makes
of the row; a fact is told only of a row that is not final, and a settled row
stays final (`Open`), or, once a disconnect has let it be restarted, is not made
final again before the process ends (`RestartedStep`), so that what is final is
silent (`Quiet`).

*ChildRecoveryProofs.* `Inv`: a lease accounts for every control up to its cut
(`LeaseGood`), also as each port remembers it and has seen the mailbox
(`PortsGood`), so that an unchanged generation means that no control is pending;
and once a recovery has settled the parent the child is over and no lease can
change, so that the receipt keeps the id of the active one (`SettledGood`).
`ControlIsHeeded` and `SettlementFound` follow. The proofs rest on lemmas about
the generation, the number of invalidating commands of a mailbox that grows.

Assumptions are those of the modules: `OwnerAssumption`, `LedgerAssumption`,
`CoordinatorAssumption`, `FollowAssumption`, `RecoveryAssumption`,
`ChatAssumption`; TLC evaluates
them on every run.

**Only model-checked:** liveness under fairness, which is out of the prover's
reach: `DispatchedSettles`, `DeliveredOrTold`, `StaleStreamEnds`, `RetryEnds`. Every safety property that a passing run checks is
stated by a theorem.

## 6. Not modelled

* `mark_executor_attempt_quiescent`: no production caller.
* The spawn of a child, its result envelope and its cleanup receipt: the child
  starts from any state it may be in. `RecoveredChildCommitPort` has no caller in
  the application yet; `ChildRecovery` uses it as its tests do.
* Resume commands, which differ from prompts by one guard of the admission, and
  attached executors (claims by remote workers).
* Retention and the trusted handoff: no code raises the retention floor. The raw
  event replay and the display projection.
* The parts of `stores/pg_durable` that decide like `stores/local_durable`, from
  which the effect tables are modelled, and its tape and topic tables.
* Raised control on a root turn: `ServingControlProbe` never raises. The model
  lets any probe be raised, as the one of a child run is.
* Task cancellation of a segment appears as a raised probe (it ends after the
  settlement commit) or as a storage failure of the commit it interrupts.
* The components marked `not_modelled` in `PROJECT.json`, with the reason there.

## 7. Plan

1. Approval coordinator (`ApprovalCoordinator`): process-local futures, timeouts
   and late answers, shown to implement the mailbox decision of
   `SegmentCoordinator`.
2. Attached executors and scheduled runs: claims and expiry of a claim, against
   the cancellation of `ChatTurns`.
3. Topics: handoff between sessions.
4. Proofs: what `ChildRecovery` and `ChatTurns` take for granted of the fence,
   from `SessionLease`.
