--------------------------- MODULE WsSubscription ---------------------------
(***************************************************************************)
(* The subscriptions of one extractor over one websocket connection: the   *)
(* server's actor (services/ws.rs, WsActor), the client's shared state and *)
(* message handler (tycho-client/src/deltas.rs, Inner and WsDeltasClient), *)
(* the calls of subscribe and unsubscribe, and the readers of the          *)
(* channels that subscribe returns.                                        *)
(*                                                                         *)
(* A subscription is named after the call whose command created it.  The   *)
(* server's confirmation names the extractor, so the client gives it to    *)
(* whichever call is pending.  The contents of the extractor's messages    *)
(* are left out.                                                           *)
(*                                                                         *)
(* Variables: c2s and s2c, what the connection carries; starting and       *)
(* serving, the server's subscriptions; pending, subs and buf, the         *)
(* client's Inner (buf, how many messages the channel of a subscription    *)
(* holds); forced, the subscription that force_unsubscribe is waiting for  *)
(* under the lock of Inner; call, the calls of subscribe; reader, the      *)
(* receivers of the channels; drops, the connections lost.                 *)
(***************************************************************************)
EXTENDS Naturals, Sequences

CONSTANTS
    Calls,         \* calls of subscribe
    BufferSize,    \* subscription_buffer_size
    MaxWire,       \* bound on the messages under way to the client
    MaxDrops,      \* bound on the connections lost
    None           \* a value that is not a call

VARIABLES
    c2s, s2c, starting, serving,
    pending, subs, buf, forced, call, reader, drops

wire == <<c2s, s2c>>
server == <<starting, serving>>
client == <<pending, subs, buf, forced>>
users == <<call, reader>>
vars == <<wire, server, client, users, drops>>

Msg(op, id) == [op |-> op, id |-> id]

Init ==
    /\ c2s = <<>> /\ s2c = <<>>
    /\ starting = {} /\ serving = {}
    /\ pending = None
    /\ subs = [c \in Calls |-> "none"]
    /\ buf = [c \in Calls |-> 0]
    /\ forced = None
    /\ call = [c \in Calls |-> "idle"]
    /\ reader = [c \in Calls |-> "none"]
    /\ drops = 0

(***************************************************************************)
(* The server.                                                             *)
(***************************************************************************)
\* The extractor is looked up at once; the rest is left to a future.
ServerSubscribe ==
    /\ c2s # <<>> /\ Head(c2s).op = "subscribe"
    /\ c2s' = Tail(c2s)
    /\ \/ starting' = starting \cup {Head(c2s).id} /\ UNCHANGED s2c
       \/ s2c' = Append(s2c, Msg("error", Head(c2s).id)) /\ UNCHANGED starting
    /\ UNCHANGED <<serving, client, users, drops>>

\* Mutant: a failure to subscribe is only logged.
SubscribedSilent(c) ==
    /\ c \in starting
    /\ starting' = starting \ {c}
    /\ \/ serving' = serving \cup {c} /\ s2c' = Append(s2c, Msg("new", c))
       \/ UNCHANGED <<serving, s2c>>
    /\ UNCHANGED <<c2s, client, users, drops>>

\* The future completes.
Subscribed(c) ==
    /\ c \in starting
    /\ starting' = starting \ {c}
    /\ \/ serving' = serving \cup {c} /\ s2c' = Append(s2c, Msg("new", c))
       \/ s2c' = Append(s2c, Msg("error", c)) /\ UNCHANGED serving
    /\ UNCHANGED <<c2s, client, users, drops>>

ServerUnsubscribe ==
    /\ c2s # <<>> /\ Head(c2s).op = "unsubscribe"
    /\ c2s' = Tail(c2s)
    /\ LET id == Head(c2s).id
       IN /\ s2c' = Append(s2c, Msg(IF id \in serving THEN "ended" ELSE "notfound", id))
          /\ serving' = serving \ {id}
    /\ UNCHANGED <<starting, client, users, drops>>

\* The stream of a subscription yields a message.
Emit(c) ==
    /\ c \in serving /\ Len(s2c) < MaxWire
    /\ s2c' = Append(s2c, Msg("delta", c))
    /\ UNCHANGED <<c2s, starting, serving, client, users, drops>>

(***************************************************************************)
(* The client's message handler, which holds the lock of Inner.            *)
(***************************************************************************)
Incoming(op) ==
    forced = None /\ s2c # <<>> /\ Head(s2c).op = op /\ s2c' = Tail(s2c)

MarkActive ==
    /\ Incoming("new")
    /\ IF pending = None
       THEN UNCHANGED <<pending, subs, call, reader>>
       ELSE /\ pending' = None
            /\ subs' = [subs EXCEPT ![Head(s2c).id] = "active"]
            /\ call' = [call EXCEPT ![pending] = IF @ = "waiting" THEN "done" ELSE @]
            /\ reader' = [reader EXCEPT ![Head(s2c).id] =
                             IF call[pending] = "waiting" THEN "reading" ELSE "gone"]
    /\ UNCHANGED <<c2s, server, buf, forced, drops>>

CancelPending ==
    /\ Incoming("error")
    /\ pending' = None
    /\ call' = [c \in Calls |->
                  IF c = pending /\ call[c] = "waiting" THEN "failed" ELSE call[c]]
    /\ UNCHANGED <<c2s, server, subs, buf, forced, reader, drops>>

RemoveSubscription ==
    /\ Incoming("ended") \/ Incoming("notfound")
    /\ subs' = [subs EXCEPT ![Head(s2c).id] = "none"]
    /\ UNCHANGED <<c2s, server, pending, buf, forced, users, drops>>

\* Whether the channel of a subscription takes a message.
Open(id) == reader[id] \in {"reading", "leaving"}
Accepts(id) == Open(id) /\ buf[id] < BufferSize

\* Mutant: the command to end the subscription is not sent.
ForceUnsubscribeUnsent(id) ==
    /\ subs' = [subs EXCEPT ![id] = "ending"]
    /\ forced' = id
    /\ UNCHANGED c2s

ForceUnsubscribe(id) ==
    /\ subs' = [subs EXCEPT ![id] = "ending"]
    /\ c2s' = Append(c2s, Msg("unsubscribe", id))
    /\ forced' = id

HandleBlockChanges ==
    /\ Incoming("delta")
    /\ LET id == Head(s2c).id
       IN IF subs[id] # "none" /\ Accepts(id)
          THEN /\ buf' = [buf EXCEPT ![id] = @ + 1]
               /\ UNCHANGED <<c2s, subs, forced>>
          ELSE /\ IF subs[id] = "active"
                  THEN ForceUnsubscribe(id)
                  ELSE UNCHANGED <<c2s, subs, forced>>
               /\ UNCHANGED buf
    /\ UNCHANGED <<server, pending, users, drops>>

\* force_unsubscribe is told that the subscription has ended, or has waited for
\* five seconds.
ForceUnsubscribeReturns ==
    /\ forced # None /\ forced' = None
    /\ UNCHANGED <<wire, server, pending, subs, buf, users, drops>>

(***************************************************************************)
(* The calls of subscribe and unsubscribe, and the readers.                *)
(***************************************************************************)
\* Mutant: a pending subscription is replaced by the new one.
NewSubscriptionReplaces(c) ==
    /\ pending' = c
    /\ c2s' = Append(c2s, Msg("subscribe", c))
    /\ call' = [call EXCEPT ![c] = "waiting"]

NewSubscription(c) ==
    IF pending # None
    THEN call' = [call EXCEPT ![c] = "failed"] /\ UNCHANGED <<pending, c2s>>
    ELSE /\ pending' = c
         /\ c2s' = Append(c2s, Msg("subscribe", c))
         /\ call' = [call EXCEPT ![c] = "waiting"]

Subscribe(c) ==
    /\ forced = None /\ call[c] = "idle"
    /\ NewSubscription(c)
    /\ UNCHANGED <<s2c, server, subs, buf, forced, reader, drops>>

\* Thirty seconds have passed, or the caller has gone.
SubscribeTimeout(c) ==
    /\ call[c] = "waiting"
    /\ call' = [call EXCEPT ![c] = "failed"]
    /\ UNCHANGED <<wire, server, client, reader, drops>>

\* The call returns when its oneshot fires or is dropped, and after five seconds.
Unsubscribe(c) ==
    /\ forced = None /\ reader[c] = "reading"
    /\ subs' = [subs EXCEPT ![c] = IF @ = "active" THEN "ending" ELSE @]
    /\ c2s' = Append(c2s, Msg("unsubscribe", c))
    /\ reader' = [reader EXCEPT ![c] = "leaving"]
    /\ UNCHANGED <<s2c, server, pending, buf, forced, call, drops>>

Receive(c) ==
    /\ Open(c) /\ buf[c] > 0
    /\ buf' = [buf EXCEPT ![c] = @ - 1]
    /\ UNCHANGED <<wire, server, pending, subs, forced, call, reader, drops>>

DropReceiver(c) ==
    /\ Open(c)
    /\ reader' = [reader EXCEPT ![c] = "gone"]
    /\ buf' = [buf EXCEPT ![c] = 0]
    /\ UNCHANGED <<wire, server, pending, subs, forced, call, drops>>

\* The connection is lost and made again: the actor stops, Inner is a new one, and
\* what was waiting on the old one is told.
Reconnect ==
    /\ forced = None /\ drops < MaxDrops
    /\ drops' = drops + 1
    /\ c2s' = <<>> /\ s2c' = <<>>
    /\ starting' = {} /\ serving' = {}
    /\ pending' = None
    /\ subs' = [c \in Calls |-> "none"]
    /\ call' = [c \in Calls |->
                  IF c = pending /\ call[c] = "waiting" THEN "failed" ELSE call[c]]
    /\ UNCHANGED <<buf, forced, reader>>

Server ==
    \/ ServerSubscribe \/ ServerUnsubscribe
    \/ \E c \in Calls : Subscribed(c)

Handler ==
    \/ MarkActive \/ CancelPending \/ RemoveSubscription \/ HandleBlockChanges
    \/ ForceUnsubscribeReturns

User(c) ==
    \/ Subscribe(c) \/ SubscribeTimeout(c) \/ Unsubscribe(c)
    \/ Receive(c) \/ DropReceiver(c)

Next ==
    \/ Server \/ Handler \/ Reconnect
    \/ \E c \in Calls : Emit(c) \/ User(c)

\* The actor and the handler's task are polled and the extractor goes on producing
\* messages (strongly fair, for MaxWire disables Emit now and then); nothing obliges
\* the users or the faults.
Spec ==
    /\ Init /\ [][Next]_vars
    /\ WF_vars(Server) /\ WF_vars(Handler)
    /\ \A c \in Calls : SF_vars(Emit(c))

-----------------------------------------------------------------------------
(* Properties *)

\* The client never loses track of a subscription that the server serves: it has
\* a sender for it or is about to read its confirmation.  Messages of a
\* subscription without a sender are ignored (Inner::send), so the server would
\* stream it for as long as the connection lives.
ServedIsKnown ==
    \A c \in serving :
        \/ subs[c] # "none"
        \/ \E i \in DOMAIN s2c : s2c[i] = Msg("new", c)

\* "If the receiver was deallocated though, the first message from the subscription
\* will remove it again" (DeltasClient::subscribe): a subscription without a
\* reader, be it that subscribe timed out, ends on the server too.
OrphanRemoved == \A c \in Calls :
    reader[c] = "gone" /\ c \in serving ~> c \notin serving

\* A pending subscription is confirmed or refused, so that one that its caller has
\* given up does not keep later calls out for ever.
PendingResolved == \A c \in Calls : pending = c ~> pending # c

\* A subscription that is to end, asked for or forced by a full buffer, does end,
\* and with it the channel.
EndingEnds == \A c \in Calls : subs[c] = "ending" ~> subs[c] = "none"

=============================================================================
