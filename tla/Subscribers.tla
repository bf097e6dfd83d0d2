----------------------------- MODULE Subscribers -----------------------------
(***************************************************************************)
(* The subscribers of an extractor: ExtractorHandle::subscribe and the     *)
(* runner's subscriptions (tycho-indexer/src/extractor/runner.rs), and the *)
(* stream that the websocket actor makes of a subscription                 *)
(* (services/ws.rs), composed with the extractor.  The runner sends every  *)
(* message to every subscriber; the stream drops what its client did not   *)
(* ask for: partial blocks or full ones.                                   *)
(***************************************************************************)
EXTENDS ProtocolExtractor

CONSTANTS
    Readers,            \* websocket subscriptions
    PartialReaders,     \* those that asked for partial blocks
    ControlCapacity,    \* of the runner's control channel
    ChannelCapacity     \* of a subscription channel

ASSUME SubscribersAssumption ==
    /\ PartialReaders \subseteq Readers
    /\ ControlCapacity \in Nat \ {0} /\ ChannelCapacity \in Nat \ {0}

VARIABLES
    control,        \* control channel: the readers that asked to subscribe
    subscriptions,  \* the readers the runner sends to
    sent,           \* those that the message being propagated was sent to
    reader,         \* "idle", "calling", "open", "panicked" or "gone"
    chan,           \* the subscription channels
    view            \* what each reader was told: blocks, with the part they end in

subscribers == <<control, subscriptions, sent, reader, chan, view>>
subVars == <<vars, subscribers>>

SubInit ==
    /\ Init
    /\ control = <<>> /\ subscriptions = {} /\ sent = {}
    /\ reader = [r \in Readers |-> "idle"]
    /\ chan = [r \in Readers |-> <<>>]
    /\ view = [r \in Readers |-> <<>>]

(***************************************************************************)
(* ExtractorHandle::subscribe: the receiver is returned as soon as the     *)
(* runner's control channel has taken the request.                         *)
(***************************************************************************)
Call(r) ==
    /\ reader[r] = "idle"
    /\ reader' = [reader EXCEPT ![r] = "calling"]
    /\ UNCHANGED <<vars, control, subscriptions, sent, chan, view>>

Request(r) ==
    /\ reader[r] = "calling" /\ Len(control) < ControlCapacity
    /\ control' = Append(control, r)
    /\ reader' = [reader EXCEPT ![r] = "open"]
    /\ UNCHANGED <<vars, subscriptions, sent, chan, view>>

RequestTimeout(r) ==
    /\ reader[r] = "calling" /\ Len(control) >= ControlCapacity
    /\ reader' = [reader EXCEPT ![r] = "panicked"]
    /\ UNCHANGED <<vars, control, subscriptions, sent, chan, view>>

(***************************************************************************)
(* The runner.                                                             *)
(***************************************************************************)
Subscribe ==
    /\ Ready /\ control # <<>>
    /\ subscriptions' = subscriptions \cup {Head(control)}
    /\ control' = Tail(control)
    /\ UNCHANGED <<vars, sent, reader, chan, view>>

\* Mutants: the propagation starts over when a subscriber is gone; a subscriber that
\* is gone is not noticed; and a full channel does not hold up the runner.
SendAgain(r) ==
    IF reader[r] = "gone"
    THEN subscriptions' = subscriptions \ {r} /\ sent' = {} /\ UNCHANGED chan
    ELSE /\ Len(chan[r]) < ChannelCapacity
         /\ chan' = [chan EXCEPT ![r] = Append(@, out[1])]
         /\ sent' = sent \cup {r}
         /\ UNCHANGED subscriptions

SendBlind(r) ==
    /\ Len(chan[r]) < ChannelCapacity
    /\ chan' = [chan EXCEPT ![r] = Append(@, out[1])]
    /\ sent' = sent \cup {r}
    /\ UNCHANGED subscriptions

TrySend(r) ==
    /\ chan' = IF Len(chan[r]) < ChannelCapacity
               THEN [chan EXCEPT ![r] = Append(@, out[1])]
               ELSE chan
    /\ sent' = sent \cup {r}
    /\ UNCHANGED subscriptions

\* The send of one message to one subscriber waits for room; a subscriber that is
\* gone is removed.
SendTo(r) ==
    IF reader[r] = "gone"
    THEN subscriptions' = subscriptions \ {r} /\ UNCHANGED <<chan, sent>>
    ELSE /\ Len(chan[r]) < ChannelCapacity
         /\ chan' = [chan EXCEPT ![r] = Append(@, out[1])]
         /\ sent' = sent \cup {r}
         /\ UNCHANGED subscriptions

Send(r) ==
    /\ mode = "running" /\ pc = "idle" /\ out # <<>>
    /\ r \in subscriptions \ sent
    /\ SendTo(r)
    /\ UNCHANGED <<vars, control, reader, view>>

Propagated ==
    /\ sent = subscriptions
    /\ Propagate
    /\ sent' = {}
    /\ UNCHANGED <<control, subscriptions, reader, chan, view>>

(***************************************************************************)
(* The stream of a subscription.                                           *)
(***************************************************************************)
Forwards(r, m) ==
    IF m.revert THEN m.part = None \/ r \in PartialReaders
    ELSE (m.part # None) = (r \in PartialReaders)

Entry(m) == [hash |-> m.block.hash, parent |-> m.block.parent, part |-> m.part]

\* What a client makes of a message.
Told(v, m) ==
    IF ~m.revert THEN Append(v, Entry(m))
    ELSE SubSeq(v, 1, LastIndex(v, {i \in DOMAIN v : v[i].hash = m.block.hash}))

Read(r) ==
    /\ reader[r] = "open" /\ chan[r] # <<>>
    /\ chan' = [chan EXCEPT ![r] = Tail(@)]
    /\ view' = IF Forwards(r, Head(chan[r]))
               THEN [view EXCEPT ![r] = Told(@, Head(chan[r]))]
               ELSE view
    /\ UNCHANGED <<vars, control, subscriptions, sent, reader>>

\* The websocket is closed or the client unsubscribes: the receiver is dropped.
Leave(r) ==
    /\ reader[r] = "open"
    /\ reader' = [reader EXCEPT ![r] = "gone"]
    /\ chan' = [chan EXCEPT ![r] = <<>>]
    /\ view' = [view EXCEPT ![r] = <<>>]
    /\ UNCHANGED <<vars, control, subscriptions, sent>>

RestartSubscribers ==
    /\ Restart
    /\ control' = <<>> /\ subscriptions' = {} /\ sent' = {}
    /\ reader' = [r \in Readers |-> "idle"]
    /\ chan' = [r \in Readers |-> <<>>]
    /\ view' = [r \in Readers |-> <<>>]

ExtractorStep ==
    \/ DeliverBlock \/ DeliverEmpty
    \/ DeliverPartial(FALSE) \/ DeliverPartial(TRUE)
    \/ JoinCommit \/ Emit \/ Undo
    \/ CommitBlock \/ CommitFails \/ CommitDone

SubNext ==
    \/ ExtractorStep /\ UNCHANGED subscribers
    \/ Subscribe \/ Propagated \/ RestartSubscribers
    \/ \E r \in Readers :
          \/ Call(r) \/ Request(r) \/ RequestTimeout(r)
          \/ Send(r) \/ Read(r) \/ Leave(r)

SubSpec == SubInit /\ [][SubNext]_subVars

\* tokio polls what can go on: the handler, the runner's sends, the actors and the
\* commit task, which the database answers.  Nobody has to leave.
SubFairSpec ==
    /\ SubSpec
    /\ WF_subVars((JoinCommit \/ Emit) /\ UNCHANGED subscribers)
    /\ WF_subVars((CommitBlock \/ CommitFails \/ CommitDone) /\ UNCHANGED subscribers)
    /\ WF_subVars(Propagated)
    /\ \A r \in Readers : WF_subVars(Send(r)) /\ WF_subVars(Read(r))

-----------------------------------------------------------------------------
(* Properties *)

\* One entry of a view follows another: the next part of the same block, or the
\* start of the next block.
Follows(e, d) ==
    \/ e.hash = d.hash /\ d.part # None /\ e.part = d.part + 1
    \/ e.parent = d.hash /\ e.part \in {None, 0}

\* A client that subscribed at any time, to full blocks or to partial ones, is told
\* one chain: each block follows the one before, none is left out or told twice, and
\* a revert that the client is not told of reverts nothing it was told.
FeedConnected ==
    \A r \in Readers : \A i \in 1 .. Len(view[r]) - 1 : Follows(view[r][i + 1], view[r][i])

\* A client that has read all there is holds the extractor's newest block, or its
\* newest partial block.
Newest(r) ==
    IF r \in PartialReaders /\ partial # <<>>
    THEN partial[1].block.hash ELSE chain[pos].hash

UpToDate ==
    Ready => \A r \in subscriptions :
        chan[r] = <<>> /\ view[r] # <<>> => view[r][Len(view[r])].hash = Newest(r)

\* A message is propagated to everyone whatever the subscribers do, leaving while
\* the runner waits for them included, and the runner gets back to its stream.
RunnerReturns == (pc # "idle" \/ out # <<>>) ~> (Ready \/ mode = "failed")

=============================================================================
