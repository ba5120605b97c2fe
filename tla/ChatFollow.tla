----------------------------- MODULE ChatFollow -----------------------------
(***************************************************************************)
(* A client following the chat of one session (server/http/events.py,      *)
(* ChatFollowBridge) over the numbered facts of the durable store, while   *)
(* the owning process commits facts and, in a later step, publishes them   *)
(* to its subscribers, checkpoints are restored and ownership moves.       *)
(*                                                                         *)
(* A replay reads pages until its high water; as facts are only appended   *)
(* and every page is checked against the epoch, it is one step here.       *)
(* Nothing in the program raises the retention floor, which stays 0.       *)
(***************************************************************************)
EXTENDS Naturals, Sequences

CONSTANTS
    QueueSize,  \* queue_size of a subscriber
    MaxSeq,     \* bound: facts committed
    MaxEpoch    \* bound: projection epochs

ASSUME FollowAssumption ==
    /\ QueueSize \in Nat \ {0}
    /\ MaxSeq \in Nat /\ MaxEpoch \in Nat

VARIABLES
    log,      \* the facts of the session; the position is the session_seq
    epoch,    \* projection epoch of the session
    owned,    \* this process owns the session
    pending,  \* facts committed here that are not yet published
    lost,     \* history: facts whose publication was cancelled
    fol,      \* the follower: what it is about to do, its position, ...
    queue,    \* its subscriber's queue
    over,     \* its subscriber's `overflowed' event
    emitted   \* history: positions of the facts sent to the client

vars == <<log, epoch, owned, pending, lost, fol, queue, over, emitted>>
store == <<log, epoch, owned, pending, lost>>

\* chat: shown and published; quiet: a chat fact of a durable transition,
\* which is shown but never published; hidden: no chat event.
Kinds == {"chat", "quiet", "hidden"}

\* A fact of a run that a restored checkpoint supersedes is hidden from the
\* epoch `until' on; 0 means never.
Facts == [kind : Kinds, until : Nat]

\* register, verify, capture, replay: the steps before the stream follows;
\* check, gap: the steps for the event `item' taken from the queue.
Opening == {"register", "verify", "capture", "replay"}
Stages == Opening \cup {"off", "told", "follow", "check", "gap"}
Registered == fol.pc \in {"verify", "capture", "replay", "follow", "check", "gap"}
Following == fol.pc \notin {"off", "told"}

\* project_chat_event: what is shown of position i, now and to the follower.
Shown(i) == log[i].kind # "hidden" /\ log[i].until = 0
Sees(i) == log[i].kind # "hidden" /\ (log[i].until = 0 \/ log[i].until > fol.epoch)
View == {i \in 1..Len(log) : Sees(i)}

\* Types: positions lie within the log, and the queue within its size.
TypeOK ==
    /\ log \in Seq(Facts)
    /\ epoch \in Nat /\ owned \in BOOLEAN
    /\ pending \subseteq 1..Len(log) /\ lost \subseteq 1..Len(log)
    /\ fol \in [pc : Stages, start : Nat, epoch : Nat, safe : Nat, high : Nat,
                item : 0..Len(log), batch : SUBSET (1..Len(log))]
    /\ queue \in Seq(1..Len(log)) /\ Len(queue) <= QueueSize
    /\ over \in BOOLEAN
    /\ emitted \subseteq 1..Len(log)

Off == [pc |-> "off", start |-> 0, epoch |-> 0, safe |-> 0, high |-> 0, item |-> 0, batch |-> {}]

Init ==
    /\ log = <<>> /\ epoch = 0 /\ owned = TRUE
    /\ pending = {} /\ lost = {}
    /\ fol = Off
    /\ queue = <<>> /\ over = FALSE
    /\ emitted = {}

-----------------------------------------------------------------------------
(* The store and the process that owns the session.                        *)

\* A fact is committed, by this process or, when it lost the session, by the
\* owner elsewhere, of which the subscribers here do not hear.
Commit(kind) ==
    /\ Len(log) < MaxSeq
    /\ log' = Append(log, [kind |-> kind, until |-> 0])
    /\ pending' = IF owned /\ kind = "chat" THEN pending \cup {Len(log) + 1} ELSE pending
    /\ UNCHANGED <<epoch, owned, lost, fol, queue, over, emitted>>

\* Mutation of Offer: the queue has no limit.
OfferUnbounded(i) == queue' = Append(queue, i) /\ over' = over

\* Mutation of Offer: an event that finds the queue full is dropped.
OfferOrDrop(i) ==
    /\ queue' = IF Len(queue) < QueueSize THEN Append(queue, i) ELSE queue
    /\ over' = over

\* ChatSubscriber.publish: an event that finds the queue full is dropped, and
\* the subscriber is marked.
Offer(i) ==
    /\ queue' = IF Len(queue) < QueueSize THEN Append(queue, i) ELSE queue
    /\ over' = (over \/ Len(queue) >= QueueSize)

\* _publish_chat_commit, any time after the commit and in any order: the run
\* is loaded, and the fact offered unless it is no longer shown.
Publish(i) ==
    /\ i \in pending
    /\ pending' = pending \ {i}
    /\ IF Registered /\ Shown(i) THEN Offer(i) ELSE UNCHANGED <<queue, over>>
    /\ UNCHANGED <<log, epoch, owned, lost, fol, emitted>>

\* The committing task is cancelled before it has published.
Lose(i) ==
    /\ i \in pending
    /\ pending' = pending \ {i}
    /\ lost' = lost \cup {i}
    /\ UNCHANGED <<log, epoch, owned, fol, queue, over, emitted>>

\* restore_checkpoint_state: the runs started after the checkpoint, whose
\* facts are those after n, are superseded, and a new epoch is opened.
Restore(n) ==
    /\ owned /\ epoch < MaxEpoch
    /\ log' = [i \in 1..Len(log) |->
                  IF i > n /\ log[i].until = 0 THEN [log[i] EXCEPT !.until = epoch + 1] ELSE log[i]]
    /\ epoch' = epoch + 1
    /\ UNCHANGED <<owned, pending, lost, fol, queue, over, emitted>>

\* The lease of the session moves away, and back.
Handover ==
    /\ owned' = ~owned
    /\ UNCHANGED <<log, epoch, pending, lost, fol, queue, over, emitted>>

-----------------------------------------------------------------------------
(* The follower.                                                           *)

\* The stream ends: it unregisters and leaves the client with a control that
\* says replay_required, with the cursor of its position.
Tell ==
    /\ fol' = [fol EXCEPT !.pc = "told", !.item = 0, !.batch = {}]
    /\ queue' = <<>> /\ over' = FALSE
    /\ UNCHANGED emitted

Goto(pc) == fol' = [fol EXCEPT !.pc = pc] /\ UNCHANGED <<queue, over, emitted>>

\* follow_chat_events after `start' (0 without a cursor, the position before
\* its prompt for the stream of a command), bound to the current epoch.
Open(start) ==
    /\ fol.pc = "off"
    /\ fol' = [Off EXCEPT !.pc = "register", !.start = start, !.epoch = epoch,
                          !.safe = start, !.high = start]
    /\ emitted' = {}
    /\ UNCHANGED <<store, queue, over>>

\* The client comes back with the cursor it was told; decode_chat_cursor
\* refuses it when the epoch is another one.
Resume ==
    /\ fol.pc = "told"
    /\ IF fol.epoch = epoch
       THEN fol' = [fol EXCEPT !.pc = "register", !.high = fol.safe] /\ UNCHANGED emitted
       ELSE fol' = Off /\ emitted' = {}
    /\ UNCHANGED <<store, queue, over>>

\* The client goes away.
Disconnect ==
    /\ Following
    /\ fol' = Off /\ emitted' = {}
    /\ queue' = <<>> /\ over' = FALSE
    /\ UNCHANGED store

Register ==
    /\ fol.pc = "register"
    /\ IF owned THEN Goto("verify") ELSE Tell
    /\ UNCHANGED store

Verify ==
    /\ fol.pc = "verify"
    /\ IF owned THEN Goto("capture") ELSE Tell
    /\ UNCHANGED store

Capture ==
    /\ fol.pc = "capture"
    /\ fol' = [fol EXCEPT !.pc = "replay", !.high = Len(log)]
    /\ UNCHANGED <<store, queue, over, emitted>>

\* replay: the shown facts after the position, up to `last'.
Replayed(last) == {i \in 1..Len(log) : fol.safe < i /\ i <= last /\ Shown(i)}

Replay ==
    /\ fol.pc = "replay"
    /\ IF epoch = fol.epoch
       THEN /\ fol' = [fol EXCEPT !.pc = "follow", !.batch = Replayed(fol.high)]
            /\ UNCHANGED <<queue, over, emitted>>
       ELSE Tell
    /\ UNCHANGED store

\* Position i is sent, and the client asks for more.
Send(i, batch) ==
    /\ fol' = [fol EXCEPT !.pc = "follow", !.safe = i, !.batch = batch, !.item = 0,
                          !.high = IF i > @ THEN i ELSE @]
    /\ emitted' = emitted \cup {i}

\* The replayed facts are sent in order.
Emit ==
    /\ fol.pc = "follow"
    /\ \E i \in fol.batch :
           /\ \A j \in fol.batch : i <= j
           /\ Send(i, fol.batch \ {i})
    /\ UNCHANGED <<store, queue, over>>

Waiting == fol.pc = "follow" /\ fol.batch = {}

Overflow ==
    /\ Waiting /\ over
    /\ Tell
    /\ UNCHANGED store

\* The next event of the queue; what the replay has covered is skipped.
Take ==
    /\ Waiting /\ ~over /\ queue # <<>>
    /\ queue' = Tail(queue)
    /\ fol' = IF Head(queue) <= fol.high
              THEN fol ELSE [fol EXCEPT !.pc = "check", !.item = Head(queue)]
    /\ UNCHANGED <<store, over, emitted>>

\* Mutation of Check: the event is sent without a look at its number.
CheckOwnerOnly ==
    /\ fol.pc = "check"
    /\ IF ~owned THEN Tell ELSE Send(fol.item, {}) /\ UNCHANGED <<queue, over>>
    /\ UNCHANGED store

\* Only an event that continues the stream is sent as it is.
Check ==
    /\ fol.pc = "check"
    /\ IF ~owned THEN Tell
       ELSE IF fol.item = fol.safe + 1
       THEN Send(fol.item, {}) /\ UNCHANGED <<queue, over>>
       ELSE Goto("gap")
    /\ UNCHANGED store

\* Otherwise the facts up to it are replayed, which must include it.
Gap ==
    /\ fol.pc = "gap"
    /\ IF epoch = fol.epoch /\ fol.item \in Replayed(fol.item)
       THEN /\ fol' = [fol EXCEPT !.pc = "follow", !.item = 0, !.batch = Replayed(fol.item)]
            /\ UNCHANGED <<queue, over, emitted>>
       ELSE Tell
    /\ UNCHANGED store

\* Mutation of Tick: only the ownership is looked at.
TickOwnerOnly ==
    /\ Waiting /\ ~over /\ queue = <<>> /\ ~owned
    /\ Tell
    /\ UNCHANGED store

\* After 30 idle seconds ownership and epoch are looked at; when both are as
\* they were the follower waits on.
Tick ==
    /\ Waiting /\ ~over /\ queue = <<>>
    /\ ~owned \/ epoch # fol.epoch
    /\ Tell
    /\ UNCHANGED store

-----------------------------------------------------------------------------
Environment ==
    \/ \E kind \in Kinds : Commit(kind)
    \/ \E i \in pending : Publish(i) \/ Lose(i)
    \/ \E n \in 0..Len(log) : Restore(n)
    \/ Handover

Client == Resume \/ Disconnect \/ \E start \in 0..Len(log) : Open(start)

Bridge ==
    \/ Register \/ Verify \/ Capture \/ Replay \/ Emit
    \/ Overflow \/ Take \/ Check \/ Gap \/ Tick

Next == Environment \/ Client \/ Bridge

Spec == Init /\ [][Next]_vars

\* A commit goes on to publish unless it is cancelled, and the bridge runs
\* whenever it can: the client keeps reading, or disconnects.
FairSpec == Spec /\ WF_vars(Bridge) /\ WF_vars(\E i \in pending : Publish(i))

-----------------------------------------------------------------------------
(* Properties.                                                             *)

Reader == INSTANCE ChatReader
    WITH facts <- View, from <- fol.start, pos <- fol.safe, seen <- emitted

\* Across replays, live events that arrive late or out of order, full queues,
\* and being told to replay and resuming there, the stream tells every fact of
\* its view after its start once and in order: it never skips one silently.
TellsAll == Reader!ReaderSpec

\* A fact committed here, and not robbed of its publication, reaches a client
\* that follows it, or the stream ends.
DeliveredOrTold ==
    \A i \in 1..MaxSeq :
        (Following /\ i \in pending \cap View /\ i > fol.start) ~>
            (i \in emitted \/ ~Following \/ i \in lost)

\* A stream whose session has moved or was restored does not idle on: it ends
\* (or the session is back).
StaleStreamEnds ==
    (Following /\ (~owned \/ epoch # fol.epoch)) ~>
        (~Following \/ (owned /\ epoch = fol.epoch))
=============================================================================
