-------------------------- MODULE BlockSynchronizer --------------------------
(***************************************************************************)
(* The client's block synchronizer (tycho-client/src/feed/mod.rs): one     *)
(* stream of headers per extractor, aligned in rounds on a common block    *)
(* history.                                                                *)
(*                                                                         *)
(* The environment: canon is the canonical chain; every extractor follows  *)
(* it at its own pace (sent, parts) and sends a revert header, the last    *)
(* block it keeps, when its branch was given up.  A state synchronizer     *)
(* forwards the headers into its queue; it may lose some on a reconnect    *)
(* and may end with an error (dead).                                       *)
(***************************************************************************)
EXTENDS BlockHistory, SequencesExt

CONSTANTS
    NStreams,       \* registered synchronizers
    Scenarios       \* what the environment may do in one behaviour, see below

Streams == 1 .. NStreams

\* A scenario: BLOCK_HISTORY_SIZE; the messages per block of streams that carry
\* partial blocks, 0 if they do not; the blocks produced after the first; the
\* reorganisations, and the blocks that follow the last one; the headers a stream
\* holds; the messages lost by reconnecting synchronizers; the synchronizers that
\* end; and how often a stream misses the staleness threshold.
Scenario ==
    [size : Nat \ {0}, parts : Nat, blocks : Nat, reorgs : Nat, settle : Nat,
     queue : Nat, lost : Nat, dead : Nat, stale : Nat]

ASSUME SyncAssumption == NStreams \in Nat \ {0} /\ Scenarios \subseteq Scenario

VARIABLES
    scenario,
    canon, nextId, reorgs,
    sent, parts,        \* per stream: blocks its extractor sent, messages of the last one
    resync,             \* per stream: -1 in sync, else the last block number seen, 0 if none
    synced,             \* per stream: last_synced_block, <<>> or <<header>>
    queue, dead, lost, stales,
    mode,               \* "starting", "running", or the error that ended the feed
    st,                 \* per stream: SynchronizerState
    history

env == <<scenario, canon, nextId, reorgs>>
sources == <<sent, parts, resync, synced, dead, lost>>
vars == <<env, sources, queue, stales, mode, st, history>>

-----------------------------------------------------------------------------
(* Headers.  The last message of a block carries its final hash, earlier   *)
(* partials carry hashes of their own.                                     *)

Size == scenario.size
Partial == scenario.parts > 0
Parts == IF Partial THEN scenario.parts ELSE 1

Final(id) == (Parts + 1) * id
NewBlock(id, up) == [id |-> id, up |-> up.id, number |-> up.number + 1]
Root == [id |-> 1, up |-> 0, number |-> 1]

Header(b, i) ==
    [hash |-> IF i = Parts THEN Final(b.id) ELSE Final(b.id) + i, parent |-> Final(b.up),
     number |-> b.number, revert |-> FALSE, part |-> IF Partial THEN i - 1 ELSE -1]

RevertHeader(b, part) == [Header(b, Parts) EXCEPT !.revert = TRUE, !.part = part]

DefaultHeader == [hash |-> -1, parent |-> -1, number |-> 0, revert |-> FALSE, part |-> -1]

-----------------------------------------------------------------------------
Init ==
    /\ scenario \in Scenarios
    /\ canon = <<Root>> /\ nextId = 2 /\ reorgs = 0
    /\ sent = [s \in Streams |-> <<Root>>] /\ parts = [s \in Streams |-> Parts]
    /\ resync = [s \in Streams |-> 0] /\ synced = [s \in Streams |-> <<>>]
    /\ queue = [s \in Streams |-> <<>>] /\ dead = [s \in Streams |-> FALSE]
    /\ lost = 0 /\ stales = 0
    /\ mode = "starting"
    /\ st = [s \in Streams |-> [kind |-> "Started", header |-> DefaultHeader]]
    /\ history = [chain |-> <<>>, reverts |-> {}]

\* A block on the tip, or instead of the newest blocks; the first one is final.
Produce ==
    /\ nextId <= scenario.blocks + 1
    /\ \E n \in 1 .. Len(canon) :
          /\ n < Len(canon) => reorgs < scenario.reorgs /\ nextId + scenario.settle <= scenario.blocks + 1
          /\ canon' = Append(SubSeq(canon, 1, n), NewBlock(nextId, canon[n]))
          /\ reorgs' = IF n < Len(canon) THEN reorgs + 1 ELSE reorgs
    /\ nextId' = nextId + 1
    /\ UNCHANGED <<scenario, sources, queue, stales, mode, st, history>>

(***************************************************************************)
(* What the extractor of stream s sends next: the rest of the block it is  *)
(* at, the next block, or a revert to the last common block.  A revert of  *)
(* partials only carries the index of the last one.                        *)
(***************************************************************************)
Common(s) == LastIndex(sent[s], {i \in DOMAIN canon : i <= Len(sent[s]) /\ sent[s][i] = canon[i]})

NextMessage(s) ==
    LET n == Len(sent[s])
        c == Common(s)
    IN  IF c < n
        THEN [header |-> RevertHeader(sent[s][c],
                            IF Partial /\ c = n - 1 /\ parts[s] < Parts THEN parts[s] - 1 ELSE -1),
              sent |-> SubSeq(sent[s], 1, c), parts |-> Parts]
        ELSE IF parts[s] < Parts
        THEN [header |-> Header(sent[s][n], parts[s] + 1),
              sent |-> sent[s], parts |-> parts[s] + 1]
        ELSE [header |-> Header(canon[n + 1], 1),
              sent |-> Append(sent[s], canon[n + 1]), parts |-> 1]

HasMessage(s) ==
    Common(s) < Len(sent[s]) \/ parts[s] < Parts \/ Len(sent[s]) < Len(canon)

\* state_sync after a (re)subscription: wait for the start of a block that was
\* not synced before.
IsNextExpected(s, h) == synced[s] # <<>> /\ h.parent = synced[s][1].hash

Accepts(s, h) ==
    \/ resync[s] = -1
    \/ /\ ~IsPartial(h) \/ (resync[s] > 0 /\ h.number > resync[s])
       /\ synced[s] = <<>> \/ synced[s][1].number < h.number \/ IsNextExpected(s, h)

\* The message goes through the state synchronizer into its channel.
Forward(s) ==
    /\ ~dead[s] /\ HasMessage(s) /\ Len(queue[s]) < scenario.queue
    /\ LET m == NextMessage(s)
       IN  /\ sent' = [sent EXCEPT ![s] = m.sent]
           /\ parts' = [parts EXCEPT ![s] = m.parts]
           /\ IF Accepts(s, m.header)
              THEN /\ queue' = [queue EXCEPT ![s] = Append(@, m.header)]
                   /\ synced' = [synced EXCEPT ![s] = <<m.header>>]
                   /\ resync' = [resync EXCEPT ![s] = -1]
              ELSE /\ resync' = [resync EXCEPT ![s] = m.header.number]
                   /\ UNCHANGED <<queue, synced>>
    /\ UNCHANGED <<env, dead, lost, stales, mode, st, history>>

\* The connection is lost and made again: a message sent meanwhile is missed.
Lose(s) ==
    /\ ~dead[s] /\ HasMessage(s) /\ lost < scenario.lost
    /\ LET m == NextMessage(s)
       IN  /\ sent' = [sent EXCEPT ![s] = m.sent]
           /\ parts' = [parts EXCEPT ![s] = m.parts]
    /\ resync' = [resync EXCEPT ![s] = 0]
    /\ lost' = lost + 1
    /\ UNCHANGED <<env, synced, queue, dead, stales, mode, st, history>>

\* The state synchronizer sends its error and closes the channel.
Die(s) ==
    /\ ~dead[s] /\ Cardinality({t \in Streams : dead[t]}) < scenario.dead
    /\ dead' = [dead EXCEPT ![s] = TRUE]
    /\ UNCHANGED <<env, sent, parts, resync, synced, lost, queue, stales, mode, st, history>>

-----------------------------------------------------------------------------
State(kind, header) == [kind |-> kind, header |-> header]

\* get_current_header
IsActive(x) == x.kind \in {"Ready", "Delayed", "Advanced"}

CurrentHeaders(states) ==
    [i \in DOMAIN SelectSeq(states, IsActive) |-> SelectSeq(states, IsActive)[i].header]

(***************************************************************************)
(* run, startup: the first message of every stream, then the history and   *)
(* the delayed streams.  The headers are collected through a hash set.     *)
(***************************************************************************)
FirstState(s) ==
    IF queue[s] # <<>> THEN State("Ready", Head(queue[s]))
    ELSE IF dead[s] THEN State("Ended", DefaultHeader)
    ELSE State("Stale", DefaultHeader)

Start ==
    /\ mode = "starting"
    /\ LET first == [s \in Streams |-> FirstState(s)]
           headers == ToSet(CurrentHeaders(first))
       IN  IF headers = {}
           THEN /\ mode' = "NoReadySynchronizers"
                /\ st' = first
                /\ UNCHANGED history
           ELSE \E blocks \in SetToSeqs(headers) :
                /\ mode' = "running"
                /\ history' = NewHistory(blocks)
                /\ st' = [s \in Streams |->
                             IF /\ first[s].kind = "Ready"
                                /\ first[s].header.number < Latest(history').number
                             THEN [first[s] EXCEPT !.kind = "Delayed"]
                             ELSE first[s]]
    /\ queue' = [s \in Streams |-> IF queue[s] = <<>> THEN <<>> ELSE Tail(queue[s])]
    /\ UNCHANGED <<env, sources, stales>>

(***************************************************************************)
(* SynchronizerStream::transition; late says that the staleness threshold  *)
(* has passed since the stream last changed.                               *)
(***************************************************************************)
StaleState(x, h) == State("Stale", IF x.kind = "Advanced" THEN h ELSE x.header)

Transition(x, h, late) ==
    LET p == Position(history, h)
    IN  CASE p \in {"NextExpected", "NextPartial"} -> State("Ready", h)
          [] p \in {"Latest", "Delayed"} -> IF late THEN StaleState(x, h) ELSE State("Delayed", h)
          [] p = "Advanced" -> State("Advanced", h)
          [] OTHER -> State("Error", h)

Outcome(x, taken) == [state |-> x, taken |-> taken]

\* try_recv_next_expected, in state Ready.
Receive(s, late) ==
    IF queue[s] # <<>> THEN Outcome(Transition(st[s], Head(queue[s]), late), 1)
    ELSE IF dead[s] THEN Outcome(State("Ended", st[s].header), 0)
    ELSE Outcome(State("Delayed", st[s].header), 0)

\* try_catch_up, in state Delayed or Stale: everything that is queued, up to
\* the next expected block, merged into one message.
Stops(s) ==
    FirstIndex(queue[s],
        {i \in DOMAIN queue[s] :
            Position(history, queue[s][i]) \in {"NextExpected", "NextPartial", "Undetermined"}})

CatchUp(s, late) ==
    LET stop == Stops(s)
        n == IF stop = 0 THEN Len(queue[s]) ELSE stop
    IN  IF stop = 0 /\ dead[s] THEN Outcome(State("Ended", st[s].header), n)
        ELSE IF n > 0 THEN Outcome(Transition(st[s], queue[s][n], late), n)
        ELSE Outcome(IF late THEN StaleState(st[s], st[s].header) ELSE st[s], 0)

\* try_advance.  A catch-up that must not wait takes no message.
AnyAdvanced == \E s \in Streams : st[s].kind = "Advanced"

TryAdvance(s, late) ==
    CASE st[s].kind = "Ended" -> Outcome(st[s], 0)
      [] st[s].kind = "Advanced" -> Outcome(Transition(st[s], st[s].header, late), 0)
      [] st[s].kind = "Ready" -> Receive(s, late)
      [] st[s].kind \in {"Delayed", "Stale"} /\ ~AnyAdvanced -> CatchUp(s, late)
      [] OTHER -> Outcome(IF late THEN StaleState(st[s], st[s].header) ELSE st[s], 0)

(***************************************************************************)
(* handle_next_message: one round over all streams, then check_streams and *)
(* the update of the history.  A message that arrives while a stream waits *)
(* was forwarded before the round.                                         *)
(***************************************************************************)
NoneLeft(states) ==
    /\ \A s \in Streams : states[s].kind \in {"Stale", "Ended"}
    /\ \E s \in Streams : states[s].kind = "Ended"

\* Mutant: the headers of the streams are left out.
ReinitRetained(states) == NewHistory(history.chain)

Reinit(states) == NewHistory(history.chain \o CurrentHeaders(states))

\* Mutant: an advanced stream keeps its state until its height is reached.
ReclassifyKeepsAdvanced(x, tip) ==
    IF IsActive(x) /\ x.kind # "Advanced"
    THEN State(IF x.header.number < tip.number THEN "Delayed" ELSE "Ready", x.header)
    ELSE x

Reclassify(x, tip) ==
    IF IsActive(x)
    THEN State(IF x.header.number < tip.number THEN "Delayed" ELSE "Ready", x.header)
    ELSE x

\* max_by_key on the block number; the last one of several.
HighestHeader(states) == CurrentHeaders(states)[TipIndex(CurrentHeaders(states))]

UpdateHistory(states) ==
    IF \E s \in Streams : states[s].kind = "Advanced"
    THEN /\ history' = Reinit(states)
         /\ st' = [s \in Streams |-> Reclassify(states[s], Latest(history'))]
         /\ UNCHANGED mode
    ELSE /\ st' = states
         /\ IF CurrentHeaders(states) = <<>>
            THEN UNCHANGED <<mode, history>>
            ELSE IF PushFails(history, HighestHeader(states))
            THEN /\ mode' = "HistoryExceeded"
                 /\ UNCHANGED history
            ELSE /\ history' = Push(history, HighestHeader(states), Size)
                 /\ UNCHANGED mode

Round(late) == [s \in Streams |-> TryAdvance(s, s \in late)]

HandleNextMessage ==
    /\ mode = "running"
    /\ \E late \in SUBSET Streams : \E out \in {Round(late)} :
          \E states \in {[s \in Streams |-> out[s].state]} :
              /\ stales + Cardinality(late) <= scenario.stale
              /\ stales' = stales + Cardinality(late)
              /\ queue' = [s \in Streams |-> SubSeq(queue[s], out[s].taken + 1, Len(queue[s]))]
              /\ IF \E s \in Streams : states[s].kind = "Error"
                 THEN mode' = "Undetermined" /\ st' = states /\ UNCHANGED history
                 ELSE IF NoneLeft(states)
                 THEN mode' = "NoReadySynchronizers" /\ st' = states /\ UNCHANGED history
                 ELSE UpdateHistory(states)
    /\ UNCHANGED <<env, sources>>

Next ==
    \/ Produce \/ Start \/ HandleNextMessage
    \/ \E s \in Streams : Forward(s) \/ Lose(s) \/ Die(s)

Spec == Init /\ [][Next]_vars

\* A block or a message is never held up for ever, and the loop keeps turning.
FairSpec ==
    /\ Spec
    /\ WF_vars(Produce) /\ WF_vars(Start) /\ WF_vars(HandleNextMessage)
    /\ \A s \in Streams : WF_vars(Forward(s))

-----------------------------------------------------------------------------
(* Properties *)

\* With streams of full blocks the retained headers form a chain: each one is the
\* parent of the next, at the height before it, in whatever order rounds, reverts,
\* lost messages and reinitialisations come (BlockHistory::push and new).
HistoryIsChain ==
    ~Partial =>
        \A i \in 1 .. Len(history.chain) - 1 :
            /\ history.chain[i + 1].parent = history.chain[i].hash
            /\ history.chain[i + 1].number = history.chain[i].number + 1

\* Between two rounds no stream is Advanced: the reinitialisation in the same
\* round makes it Ready or Delayed (reinit_block_history), so the catch-up of
\* the other streams never skips its wait.
NoneAdvanced == mode = "running" => ~AnyAdvanced

\* At least two retained headers are canonical: the block the branches fork at
\* and its parent.
ForkRetained ==
    Cardinality({i \in DOMAIN history.chain :
                    \E j \in DOMAIN canon : history.chain[i].hash = Final(canon[j].id)}) >= 2

\* As long as no stream has ended or gone stale, a reorg ends the feed with a
\* history error only when the history does not hold the fork point and its parent
\* any more (push, determine_block_position).
FeedSurvivesReorg ==
    /\ mode \in {"HistoryExceeded", "Undetermined"}
    /\ stales = 0 /\ \A s \in Streams : ~dead[s]
    => ~ForkRetained

\* A feed that goes on gets to the canonical tip and every stream with it, even
\* when streams lagged or lost messages, or when the history was on a branch
\* that was given up, once every stream has received a block after its last
\* reconnection (try_catch_up, reinit_block_history).
SettlesOnTip ==
    <>[] (mode = "running" /\ (\A s \in Streams : resync[s] = -1) =>
            /\ history.chain # <<>> /\ Latest(history).hash = Final(canon[Len(canon)].id)
            /\ \A s \in Streams : st[s].header.hash = Latest(history).hash)

=============================================================================
