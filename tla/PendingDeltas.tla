---------------------------- MODULE PendingDeltas ----------------------------
(***************************************************************************)
(* The RPC service's view of the blocks that are not in the database yet   *)
(* (tycho-indexer/src/services/deltas_buffer.rs), composed with the        *)
(* extractor that feeds it.  The runner sends every message over a bounded *)
(* channel; PendingDeltas keeps the full-block messages in a reorg buffer  *)
(* of its own, purges it on reverts and drops what the extractor reports   *)
(* as committed.                                                           *)
(***************************************************************************)
EXTENDS ProtocolExtractor

CONSTANT ChannelCapacity    \* of the subscription channel

ASSUME ChannelAssumption == ChannelCapacity \in Nat \ {0}

VARIABLES
    chan,       \* the subscription channel
    pending,    \* the reorg buffer of PendingDeltas
    alive,      \* FALSE once the receiving task panicked
    seen        \* ghost: every block accepted so far, on PendingDeltas' branch

service == <<chan, pending, alive, seen>>
pdVars == <<vars, service>>

PdInit == Init /\ chan = <<>> /\ pending = <<>> /\ alive = TRUE /\ seen = <<>>

(***************************************************************************)
(* propagate_msg awaits room in the channel; a subscriber whose receiver   *)
(* is gone is dropped from the subscriptions.                              *)
(***************************************************************************)
\* Mutants: a send that does not wait for room, and a try_send that drops the
\* message when there is none.
SendWithoutRoom ==
    /\ Propagate
    /\ chan' = IF alive THEN Append(chan, out[1]) ELSE chan
    /\ UNCHANGED <<pending, alive, seen>>

TrySend ==
    /\ Propagate
    /\ chan' = IF alive /\ Len(chan) < ChannelCapacity THEN Append(chan, out[1]) ELSE chan
    /\ UNCHANGED <<pending, alive, seen>>

Send ==
    /\ Propagate
    /\ alive => Len(chan) < ChannelCapacity
    /\ chan' = IF alive THEN Append(chan, out[1]) ELSE chan
    /\ UNCHANGED <<pending, alive, seen>>

(***************************************************************************)
(* The receiving loop of run, with insert.  Messages of partial blocks and *)
(* of partial reverts are skipped; an error panics (unwrap).               *)
(***************************************************************************)
\* Mutant: messages of partial blocks are inserted like the others.
SkippedNone(m) == FALSE

Skipped(m) == m.part # None

InsertFails(m) ==
    IF m.revert THEN PurgeFails(pending, m.block.hash)
    ELSE \/ ~CanInsert(pending, m.block)
         \/ /\ m.committed # None
            /\ DrainFails(InsertBlock(pending, m.block), m.committed + 1)

\* Mutants: a revert that purges nothing, and a drain one block too far.
InsertedUnpurged(m) ==
    LET buf == InsertBlock(pending, m.block)
    IN  CASE m.revert -> pending
          [] ~m.revert /\ m.committed = None -> buf
          [] OTHER -> Retained(buf, m.committed + 1)

InsertedTooFar(m) ==
    LET buf == InsertBlock(pending, m.block)
    IN  CASE m.revert -> Unpurged(pending, m.block.hash)
          [] ~m.revert /\ m.committed = None -> buf
          [] OTHER -> Retained(buf, m.committed + 2)

Inserted(m) ==
    LET buf == InsertBlock(pending, m.block)
    IN  CASE m.revert -> Unpurged(pending, m.block.hash)
          [] ~m.revert /\ m.committed = None -> buf
          [] OTHER -> Retained(buf, m.committed + 1)

Receive ==
    /\ alive /\ chan # <<>>
    /\ LET m == Head(chan)
       IN  IF Skipped(m) THEN UNCHANGED <<pending, alive, seen>>
           ELSE IF InsertFails(m) THEN alive' = FALSE /\ UNCHANGED <<pending, seen>>
           ELSE /\ pending' = Inserted(m)
                /\ seen' = IF m.revert THEN Unpurged(seen, m.block.hash)
                           ELSE Append(seen, m.block)
                /\ UNCHANGED alive
    /\ chan' = Tail(chan)
    /\ UNCHANGED vars

\* The service lives in the same process: PendingDeltas subscribes before the
\* extractor's first message and is lost with it.
RestartService ==
    /\ Restart
    /\ chan' = <<>> /\ pending' = <<>> /\ alive' = TRUE /\ seen' = db

-----------------------------------------------------------------------------
(* Properties *)

\* Every variable keeps its type, and the subscription channel of the runner never
\* holds more than its capacity.
PdTypeOK ==
    /\ TypeOK
    /\ chan \in Seq(Msg) /\ Len(chan) <= ChannelCapacity
    /\ pending \in Seq(Block) /\ alive \in BOOLEAN /\ seen \in Seq(Block)

Elements(s) == {s[i] : i \in DOMAIN s}

\* No sequence of blocks, partials, reverts, commits and restarts makes
\* insert fail, whose error the receiving loop unwraps: although the two reorg
\* buffers are drained at different times, a revert's target is in both, and the
\* height reported as committed is never ahead of what PendingDeltas holds.
PendingNeverPanics == alive

\* What PendingDeltas holds is the newest part of what it accepted, in order.
PendingIsSuffix ==
    Len(pending) <= Len(seen) /\ Slice(pending, seen, Len(seen) - Len(pending))

\* PendingDeltas only forgets a block that has reached the database gateway:
\* until a write fails, every accepted block is in the database, in the
\* gateway's open transaction, or still pending.
DroppedOnlyWhenHandedOver ==
    task.state # "failed" =>
        Elements(seen) \subseteq Elements(db) \cup Elements(openTx) \cup Elements(pending)

\* Once it has received everything, PendingDeltas and the extractor agree on
\* the branch.
CaughtUp == alive /\ chan = <<>> /\ out = <<>> /\ pc = "idle" /\ mode = "running"

AgreesWhenCaughtUp == CaughtUp => seen = SubSeq(chain, 1, pos)

=============================================================================
