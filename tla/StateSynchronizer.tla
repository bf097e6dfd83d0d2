-------------------------- MODULE StateSynchronizer --------------------------
(***************************************************************************)
(* The client's state synchronizer of one protocol system                  *)
(* (ProtocolStateSynchronizer, tycho-client/src/feed/synchronizer.rs) with *)
(* its component tracker (component_tracker.rs).                           *)
(*                                                                         *)
(* The environment: log is the indexer's branch, one message per full      *)
(* block, or per partial block when Partial.  The messages reach the       *)
(* synchronizer through the channel of its subscription (open, inbox); the *)
(* RPC server answers a snapshot request from log as it is at that time.   *)
(* A component's state is the hash of the last message that changed it.    *)
(*                                                                         *)
(* A message is a record: hash, parent, number, part (-1 for a full block) *)
(* and revert; chg, the components it has a delta for, and state, the      *)
(* state of all of them at this message, so that the delta of c is         *)
(* state[c]; clr, the components whose delta clears a storage slot (state  *)
(* 0); tvl, the components whose TVL it reports, and levels, whether the   *)
(* TVL of each is above the add or below the remove threshold.             *)
(***************************************************************************)
EXTENDS Integers, Sequences, FiniteSets, SequencesExt

CONSTANTS
    MaxRetries,     \* max_retries
    StaleRetries,   \* MAX_STALE_RETRIES
    Scenarios       \* what the environment may do in one behaviour, see below

\* A scenario: the components; partial_blocks, and the messages per block; whether
\* the block synchronizer lags and merges the messages, and whether deltas may clear
\* a storage slot; how a snapshot task may fail; and the bounds on messages,
\* reorganisations, lost connections, failures, changes of the TVL, and the channel.
Scenario ==
    [comps : SUBSET STRING, parts : Nat, hold : BOOLEAN, clears : BOOLEAN,
     failKinds : SUBSET {"transient", "permanent", "dropped"},
     messages : Nat, reorgs : Nat, closes : Nat, fails : Nat, tvl : Nat, inbox : Nat]

ASSUME StateSyncAssumption ==
    /\ MaxRetries \in Nat /\ StaleRetries \in Nat
    /\ Scenarios \subseteq Scenario

VARIABLES
    scenario,
    log, nextId,
    reorgs, closes, fails, tvls,    \* what is used up of the bounds
    open, inbox,
    phase,          \* "subscribe", "init", "fetch", "stream", "ended" or "closed"
    first,          \* phase fetch: the first message, <<>> or <<message>>
    lastSeen,       \* last_block_number, 0 for None
    stale,          \* stale_retries
    lastSynced,     \* last_synced_block, <<>> or <<message>>
    prev, retries,  \* prev_block and retry_count of start
    tracked,        \* component_tracker.components
    status,         \* snapshot_queue, "none" for an absent component
    tasks,          \* snapshot_tasks
    buffered,       \* buffered_deltas
    held,           \* messages merged but not taken yet
    client,         \* the states the consumer has rebuilt from what it has taken
    sentInRun,      \* this run of state_sync has sent a message
    barren          \* runs in a row that sent none

server == <<scenario, log, nextId, reorgs, tvls>>
channel == <<open, inbox>>
staged == <<tracked, status, tasks, buffered>>
runs == <<prev, retries, sentInRun, barren>>
init == <<first, lastSeen, stale>>
consumer == <<held, client>>
vars == <<server, closes, fails, channel, phase, init, lastSynced, runs, staged, consumer>>

-----------------------------------------------------------------------------
(* The indexer.  parts is 0 for full blocks. *)

Components == scenario.comps
Partial == scenario.parts > 0
Parts == IF Partial THEN scenario.parts ELSE 1
Levels == {"low", "high"}

Tip == log[Len(log)]

LastPart(m) == m.part \in {-1, Parts - 1}

Root(levels) ==
    [hash |-> 1, parent |-> 0, number |-> 1, part |-> IF Partial THEN Parts - 1 ELSE -1,
     revert |-> FALSE, chg |-> {}, clr |-> {}, state |-> [c \in Components |-> 0],
     tvl |-> {}, levels |-> levels]

NextMessage(chg, clr, tvl) ==
    [hash |-> nextId,
     parent |-> IF LastPart(Tip) THEN Tip.hash ELSE Tip.parent,
     number |-> IF LastPart(Tip) THEN Tip.number + 1 ELSE Tip.number,
     part |-> IF ~Partial THEN -1 ELSE IF LastPart(Tip) THEN 0 ELSE Tip.part + 1,
     revert |-> FALSE,
     chg |-> chg, clr |-> clr,
     state |-> [c \in Components |->
                   IF c \in clr THEN 0 ELSE IF c \in chg THEN nextId ELSE Tip.state[c]],
     tvl |-> tvl,
     levels |-> [c \in Components |->
                    IF c \notin tvl THEN Tip.levels[c]
                    ELSE IF Tip.levels[c] = "low" THEN "high" ELSE "low"]]

\* The revert message: the last block that stays, with the states of all
\* components that the dropped messages changed and no TVL.
RevertMessage(n) ==
    LET dropped == SubSeq(log, n + 1, Len(log))
    IN  [log[n] EXCEPT
            !.revert = TRUE,
            !.part = IF Partial /\ \A i \in DOMAIN dropped : ~LastPart(dropped[i])
                     THEN Tip.part ELSE -1,
            !.chg = UNION {dropped[i].chg : i \in DOMAIN dropped},
            !.clr = {c \in Components : log[n].state[c] = 0},
            !.tvl = {}]

Deliver(m) ==
    /\ open => Len(inbox) < scenario.inbox
    /\ inbox' = IF open THEN Append(inbox, m) ELSE inbox

\* TVL changes are reported once the subscription streams: state_sync does not look
\* at the TVL of the first message.
Produce ==
    /\ nextId <= scenario.messages + 1
    /\ \E chg, tvl \in SUBSET Components : \E clr \in IF scenario.clears THEN SUBSET chg ELSE {{}} :
          /\ tvls + Cardinality(tvl) <= scenario.tvl
          /\ tvl # {} => phase = "stream"
          /\ log' = Append(log, NextMessage(chg, clr, tvl))
          /\ Deliver(NextMessage(chg, clr, tvl))
          /\ tvls' = tvls + Cardinality(tvl)
    /\ nextId' = nextId + 1
    /\ UNCHANGED <<scenario, reorgs, closes, fails, open, phase, init, lastSynced, runs, staged, consumer>>

Revert ==
    /\ reorgs < scenario.reorgs
    /\ \E n \in 1 .. Len(log) - 1 :
          /\ LastPart(log[n])
          /\ Deliver(RevertMessage(n))
          /\ log' = SubSeq(log, 1, n)
    /\ reorgs' = reorgs + 1
    /\ UNCHANGED <<scenario, nextId, tvls, closes, fails, open, phase, init, lastSynced, runs, staged, consumer>>

\* The connection drops; what is in the channel can still be received.
Close ==
    /\ open /\ closes < scenario.closes
    /\ open' = FALSE /\ closes' = closes + 1
    /\ UNCHANGED <<server, fails, inbox, phase, init, lastSynced, runs, staged, consumer>>

\* A snapshot at block n: full blocks of the current branch only; a block that
\* was not seen is an error.
HasBlock(n) == \E i \in DOMAIN log : log[i].number = n /\ LastPart(log[i])

BlockAt(n) == log[CHOOSE i \in DOMAIN log : log[i].number = n /\ LastPart(log[i])]

SnapshotAt(n, comps) == [c \in comps |-> BlockAt(n).state[c]]

-----------------------------------------------------------------------------
(***************************************************************************)
(* StateSyncMessage.  The consumer takes the snapshots, then the deltas,   *)
(* and drops the removed components; a stream that lags merges messages    *)
(* into one before the consumer takes it (try_catch_up).                   *)
(***************************************************************************)
SyncMessage(snapshots, deltas, removed) ==
    [snapshots |-> snapshots, deltas |-> deltas, removed |-> removed]

NoMessage == SyncMessage(<<>>, <<>>, {})

Without(f, s) == [c \in DOMAIN f \ s |-> f[c]]

Applied(states, m) == Without(m.deltas @@ m.snapshots @@ states, m.removed)

Merge(l, r) ==
    SyncMessage(r.snapshots @@ Without(l.snapshots, r.removed),
                r.deltas @@ l.deltas,
                (l.removed \ DOMAIN r.snapshots) \cup r.removed)

Send(m) ==
    IF scenario.hold
    THEN held' = Merge(held, m) /\ UNCHANGED client
    ELSE client' = Applied(client, m) /\ UNCHANGED held

-----------------------------------------------------------------------------
Init ==
    /\ scenario \in Scenarios
    /\ \E levels \in [Components -> Levels] :
          /\ log = <<Root(levels)>>
          /\ tracked = {c \in Components : levels[c] = "high"}     \* initialise_components
    /\ nextId = 2 /\ reorgs = 0 /\ closes = 0 /\ fails = 0 /\ tvls = 0
    /\ open = FALSE /\ inbox = <<>>
    /\ phase = "subscribe" /\ first = <<>> /\ lastSeen = 0 /\ stale = 0
    /\ lastSynced = <<>> /\ prev = 0 /\ retries = 0
    /\ status = [c \in Components |-> "none"] /\ tasks = <<>> /\ buffered = <<>>
    /\ client = <<>> /\ held = NoMessage
    /\ sentInRun = FALSE /\ barren = 0

SyncedNumber(x) == IF x = <<>> THEN 0 ELSE x[1].number

(***************************************************************************)
(* start: state_sync has returned an error; count the run and try again    *)
(* while retries are left.                                                 *)
(***************************************************************************)
\* Mutant: the counter is never reset.
RetryCountUp == retries + 1

RetryCount == IF SyncedNumber(lastSynced) > prev THEN 0 ELSE retries + 1

RunEnds ==
    /\ retries' = RetryCount
    /\ phase' = IF retries' < MaxRetries THEN "subscribe" ELSE "ended"
    /\ prev' = SyncedNumber(lastSynced)
    /\ open' = FALSE /\ inbox' = <<>> /\ first' = <<>>
    /\ barren' = IF sentInRun THEN 0 ELSE barren + 1
    /\ sentInRun' = FALSE

Subscribe ==
    /\ phase = "subscribe"
    /\ open' = TRUE /\ phase' = "init" /\ lastSeen' = 0 /\ stale' = 0
    /\ UNCHANGED <<server, closes, fails, inbox, first, lastSynced, runs, staged, consumer>>

\* Any error but NotConnected, which ends the synchronizer.
SubscribeFails ==
    /\ phase = "subscribe" /\ fails < scenario.fails
    /\ fails' = fails + 1
    /\ \/ RunEnds
       \/ phase' = "closed" /\ UNCHANGED <<channel, first, runs>>
    /\ UNCHANGED <<server, closes, lastSeen, stale, lastSynced, staged, consumer>>

\* The close signal, seen while waiting for a message.
CloseSignal ==
    /\ phase \in {"init", "stream"} /\ closes < scenario.closes
    /\ phase' = "closed" /\ open' = FALSE /\ closes' = closes + 1
    /\ UNCHANGED <<server, fails, inbox, init, lastSynced, runs, staged, consumer>>

\* The channel is closed, or no first message arrives in time.
ChannelEnds ==
    /\ inbox = <<>>
    /\ \/ phase \in {"init", "stream"} /\ ~open /\ UNCHANGED closes
       \/ phase = "init" /\ open /\ closes < scenario.closes /\ closes' = closes + 1
    /\ RunEnds
    /\ UNCHANGED <<server, fails, lastSeen, stale, lastSynced, staged, consumer>>

-----------------------------------------------------------------------------
(* state_sync, up to the first message *)

IsNextExpected(m) == lastSynced # <<>> /\ m.parent = lastSynced[1].hash

IsCandidate(m) ==
    /\ m.part = -1 \/ (lastSeen > 0 /\ m.number > lastSeen)
    /\ SyncedNumber(lastSynced) < m.number \/ IsNextExpected(m)

SkipFirst ==
    /\ phase = "init" /\ inbox # <<>> /\ ~IsCandidate(Head(inbox))
    /\ inbox' = Tail(inbox) /\ lastSeen' = Head(inbox).number
    /\ UNCHANGED <<server, closes, fails, open, phase, first, stale, lastSynced, runs, staged, consumer>>

DeltasFor(m, comps) == [c \in m.chg \cap comps |-> m.state[c]]

SendFirst(m, snapshots) ==
    /\ Send(SyncMessage(snapshots, DeltasFor(m, tracked), {}))
    /\ lastSynced' = <<m>> /\ phase' = "stream" /\ first' = <<>>
    /\ sentInRun' = TRUE

FirstMessage ==
    /\ phase = "init" /\ inbox # <<>> /\ IsCandidate(Head(inbox))
    /\ inbox' = Tail(inbox) /\ lastSeen' = Head(inbox).number
    /\ IF IsNextExpected(Head(inbox))
       THEN SendFirst(Head(inbox), <<>>)
       ELSE /\ first' = <<Head(inbox)>> /\ phase' = "fetch"
            /\ UNCHANGED <<lastSynced, sentInRun, consumer>>
    /\ UNCHANGED <<server, closes, fails, open, stale, prev, retries, barren, staged>>

\* Mutant: the snapshot is the one of the block before for full blocks as well.
SnapshotBlockBefore(m) == m.number - 1

\* With partial blocks the snapshot is the one of the block before.
SnapshotBlock(m) == IF Partial THEN m.number - 1 ELSE m.number

InitialSnapshot ==
    /\ phase = "fetch" /\ HasBlock(SnapshotBlock(first[1]))
    /\ SendFirst(first[1], SnapshotAt(SnapshotBlock(first[1]), tracked))
    /\ UNCHANGED <<server, closes, fails, channel, lastSeen, stale, prev, retries, barren, staged>>

\* The block is too old for the server: wait for a more recent one.
SnapshotIsStale ==
    /\ phase = "fetch" /\ fails < scenario.fails
    /\ fails' = fails + 1 /\ stale' = stale + 1
    /\ IF stale < StaleRetries
       THEN phase' = "init" /\ first' = <<>> /\ UNCHANGED <<channel, runs>>
       ELSE RunEnds
    /\ UNCHANGED <<server, closes, lastSeen, lastSynced, staged, consumer>>

SnapshotFails ==
    /\ phase = "fetch"
    /\ \/ ~HasBlock(SnapshotBlock(first[1])) /\ UNCHANGED fails
       \/ fails < scenario.fails /\ fails' = fails + 1
    /\ RunEnds
    /\ UNCHANGED <<server, closes, lastSeen, stale, lastSynced, staged, consumer>>

-----------------------------------------------------------------------------
(* Snapshot tasks *)

TaskCompletes(i) ==
    /\ phase # "ended" /\ tasks[i].result = "pending" /\ HasBlock(tasks[i].block)
    /\ tasks' = [tasks EXCEPT ![i].result = "ok",
                              ![i].snapshot = SnapshotAt(tasks[i].block, tasks[i].comps)]
    /\ UNCHANGED <<server, closes, fails, channel, phase, init, lastSynced, runs,
                   tracked, status, buffered, consumer>>

\* A block the server does not know is a permanent error.
TaskFails(i) ==
    /\ phase # "ended" /\ tasks[i].result = "pending"
    /\ \E kind \in scenario.failKinds \cup {"permanent"} :
          /\ tasks' = [tasks EXCEPT ![i].result = kind]
          /\ \/ kind = "permanent" /\ ~HasBlock(tasks[i].block) /\ UNCHANGED fails
             \/ kind \in scenario.failKinds /\ fails < scenario.fails /\ fails' = fails + 1
    /\ UNCHANGED <<server, closes, channel, phase, init, lastSynced, runs,
                   tracked, status, buffered, consumer>>

-----------------------------------------------------------------------------
(* state_sync, a message of the running subscription *)

\* apply_deltas_to_snapshot: the last buffered delta after the snapshot's block;
\* a slot that a delta clears is passed over.
UpToDate(deltas, task, c) ==
    LET later == {i \in DOMAIN deltas : /\ deltas[i].number > task.block
                                        /\ c \in deltas[i].chg \ deltas[i].clr}
    IN  IF later = {} THEN task.snapshot[c]
        ELSE deltas[CHOOSE i \in later : \A j \in later : j <= i].state[c]

Pending(task) == task.result = "pending"
Finished == {tasks[i] : i \in {j \in DOMAIN tasks : ~Pending(tasks[j])}}
Ready == {t \in Finished : t.result = "ok"}
TaskOf(c) == CHOOSE t \in Finished : c \in t.comps

\* Mutant: a transient failure is forgotten.
StatusAfterForgets(result) == IF result = "permanent" THEN "Blacklisted" ELSE "none"

StatusAfter(result) ==
    CASE result = "transient" -> "RetryNext"
      [] result = "permanent" -> "Blacklisted"
      [] OTHER -> "none"

\* Mutant: the delta after the oldest snapshot is dropped too.
TrimmedTooFar(deltas, pending) ==
    LET Kept(d) == \E i \in DOMAIN pending : d.number > pending[i].block + 1
    IN  IF pending = <<>> THEN <<>> ELSE SelectSeq(deltas, Kept)

Trimmed(deltas, pending) ==
    LET Kept(d) == \E i \in DOMAIN pending : d.number > pending[i].block
    IN  IF pending = <<>> THEN <<>> ELSE SelectSeq(deltas, Kept)

Set(f, comps, value) == [c \in DOMAIN f |-> IF c \in comps THEN value ELSE f[c]]

HandleDelta ==
    /\ phase = "stream" /\ inbox # <<>>
    /\ LET m == Head(inbox)
           deltas == IF tasks = <<>> THEN buffered ELSE Append(buffered, m)
           \* drain_completed_snapshots
           arrived == UNION {t.comps : t \in Ready}
           pending == SelectSeq(tasks, Pending)
           drained == [c \in Components |->
                          IF \E t \in Finished : c \in t.comps
                          THEN StatusAfter(TaskOf(c).result) ELSE status[c]]
           known == tracked \cup arrived
           \* filter_updated_components
           toAdd == {c \in m.tvl : m.levels[c] = "high"}
           toRemove == {c \in m.tvl : m.levels[c] = "low"}
           retry == {c \in Components : drained[c] = "RetryNext"}
           queue == Set(drained, retry, "none")
           new == {c \in toAdd \cup retry : c \notin known /\ queue[c] = "none"}
           \* with partial blocks new components wait for the end of the block
           deferred == {c \in Components : queue[c] = "Deferred"}
           fire == IF ~Partial THEN new
                   ELSE IF m.number > SyncedNumber(lastSynced) THEN deferred ELSE {}
           task == [comps |-> fire, block |-> SnapshotBlock(m), result |-> "pending",
                    snapshot |-> <<>>]
           kept == Trimmed(deltas, pending)
       IN  /\ inbox' = Tail(inbox)
           /\ tasks' = IF fire = {} THEN pending ELSE Append(pending, task)
           /\ buffered' = IF fire # {} /\ pending = <<>> THEN Append(kept, m) ELSE kept
           /\ status' = IF Partial THEN Set(Set(queue, fire, "InFlight"), new, "Deferred")
                        ELSE Set(queue, fire, "InFlight")
           /\ tracked' = known \ toRemove
           /\ Send(SyncMessage([c \in arrived |-> UpToDate(deltas, TaskOf(c), c)],
                               DeltasFor(m, tracked'), toRemove \cap known))
           /\ lastSynced' = <<m>>
    /\ sentInRun' = TRUE
    /\ UNCHANGED <<server, closes, fails, open, phase, init, prev, retries, barren>>

\* The consumer takes what was merged.
Take ==
    /\ held # NoMessage
    /\ client' = Applied(client, held) /\ held' = NoMessage
    /\ UNCHANGED <<server, closes, fails, channel, phase, init, lastSynced, runs, staged>>

-----------------------------------------------------------------------------
Next ==
    \/ Produce \/ Revert \/ Close
    \/ Subscribe \/ SubscribeFails \/ CloseSignal \/ ChannelEnds
    \/ SkipFirst \/ FirstMessage
    \/ InitialSnapshot \/ SnapshotIsStale \/ SnapshotFails
    \/ HandleDelta \/ Take
    \/ \E i \in DOMAIN tasks : TaskCompletes(i) \/ TaskFails(i)

Spec == Init /\ [][Next]_vars

-----------------------------------------------------------------------------
(* Properties *)

\* What the consumer has rebuilt of the components that no delta ever cleared a
\* slot of is their state at block m.
Cleared == UNION {log[i].clr : i \in DOMAIN log}

Rebuilt(m) ==
    /\ DOMAIN Applied(client, held) = tracked
    /\ \A c \in tracked \ Cleared : Applied(client, held)[c] = m.state[c]

\* Until a reorganisation, what the consumer has rebuilt from snapshots and deltas
\* is the state of every tracked component at the last block that was sent, whatever
\* was buffered, fetched in the background, fetched again after a reconnection or
\* merged by a stream that lags (StateSyncMessage::merge, apply_deltas_to_snapshot,
\* drain_completed_snapshots, state_sync).
Reconstructs == phase = "stream" /\ reorgs = 0 => Rebuilt(lastSynced[1])

\* The same when the consumer has caught up with the indexer, also after a
\* reorganisation: a snapshot that was taken on another branch than the first
\* message is put right by the messages that follow.
CaughtUpReconstructs ==
    phase = "stream" /\ open /\ inbox = <<>> /\ lastSynced[1].hash = Tip.hash
        => Rebuilt(lastSynced[1])

\* A component whose TVL is above the add threshold is tracked, or waits for its
\* snapshot, or was given up after a permanent error; unless a task can panic it is
\* never forgotten (filter_updated_components, snapshot_queue).
AboveIsStaged ==
    phase = "stream" /\ "dropped" \notin scenario.failKinds =>
        \A c \in Components :
            lastSynced[1].levels[c] = "high" => c \in tracked \/ status[c] # "none"

\* Until a reorganisation the synchronizer gives up only after max_retries runs in
\* a row that sent nothing (start, made_progress).
EndsWhenBarren == phase = "ended" /\ reorgs = 0 => barren >= MaxRetries

=============================================================================
