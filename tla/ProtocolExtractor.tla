-------------------------- MODULE ProtocolExtractor --------------------------
(***************************************************************************)
(* One extractor (tycho-indexer/src/extractor/protocol_extractor.rs) driven *)
(* by its runner (runner.rs): block messages and undo signals from the     *)
(* substreams provider go through the reorg buffer, are drained once they  *)
(* are final, and are written to the database by a commit task that runs   *)
(* beside the message loop; every handled message becomes an update for    *)
(* the subscribers.                                                        *)
(*                                                                         *)
(* The provider is the environment.  chain is the canonical chain as far   *)
(* as it has been streamed, pos the number of its blocks delivered since   *)
(* the last start (a restart resumes after the last persisted block), fin  *)
(* the height the provider considers final.                                *)
(***************************************************************************)
EXTENDS ReorgBuffer

CONSTANTS
    \* the data of one component and one account, by kind of key
    Attrs,          \* protocol attributes of the component
    Balances,       \* token balances of the component
    Slots,          \* storage slots of the account
    AccBalances,    \* token balances of the account
    Txs,            \* transactions: [comp : BOOLEAN, chg : [Keys -> Kinds]]
    StartBlock,     \* config.start_block
    InitialFinal,   \* the final height when the extractor first starts
    BatchSize,      \* commit_batch_size (--database-insert-batch-size)
    PartialBlocks,  \* partial blocks enabled on the stream
    \* bounds on the environment
    MaxHash,        \* blocks the provider ever produces
    MaxFinal,       \* greatest final height
    MaxPartials,    \* partial messages per block
    MaxEmpty,       \* messages without block data
    MaxFaults       \* failed database writes, plus process crashes

Keys == Attrs \cup Balances \cup Slots \cup AccBalances
Kinds == {"none", "create", "update", "delete"}
None == -1

ASSUME ConstantsAssumption ==
    /\ StartBlock \in Nat \ {0}
    /\ InitialFinal \in Nat
    /\ InitialFinal <= StartBlock
    /\ BatchSize \in Nat
    /\ PartialBlocks \in BOOLEAN
    /\ MaxHash \in Nat /\ MaxFinal \in Nat /\ MaxPartials \in Nat
    /\ MaxEmpty \in Nat /\ MaxFaults \in Nat
    /\ Txs \subseteq [comp : BOOLEAN, chg : [Keys -> Kinds]]

VARIABLES
    \* the provider
    chain, pos, tip, fin, nextHash, empties, faults,
    \* the extractor and its runner
    mode,       \* "running", or "failed" once the runner returned an error
    pc,         \* where process_full_block_message is: "idle", "join", "emit"
    cur,        \* the block it works on, with its reported final height
    batch,      \* blocks_to_commit while it is a local of that function
    buffer,     \* reorg_buffer
    partial,    \* partial_block_buffer: <<>> or one merged partial block
    cursor, last, first,    \* Inner
    out,        \* messages the runner has still to propagate
    \* the commit task and the gateway
    task, committed, openTx, db

provider == <<chain, pos, tip, fin, nextHash, empties, faults>>
extractor == <<mode, pc, cur, batch, buffer, partial, cursor, last, first, out>>
gateway == <<task, committed, openTx, db>>
vars == <<provider, extractor, gateway>>

-----------------------------------------------------------------------------
(* A key's value is the hash of the block that wrote it, 0 when it is absent. *)

\* The last change of key k by a sequence of transactions.
Effect(txs, k) ==
    LET i == LastIndex(txs, {j \in DOMAIN txs : txs[j].chg[k] # "none"})
    IN  IF i = 0 THEN "none" ELSE txs[i].chg[k]

\* into_aggregated and ProtocolComponentStateDelta::merge: the value a block
\* leaves a key with, None when it does not touch it.
Delta(b, k) ==
    CASE Effect(b.txs, k) = "none" -> None
      [] Effect(b.txs, k) = "delete" -> 0
      [] OTHER -> b.hash

\* What the database, or a client, holds after applying blocks in order.
ValueAt(blocks, k) ==
    LET i == LastIndex(blocks, {j \in DOMAIN blocks : Delta(blocks[j], k) # None})
    IN  IF i = 0 THEN 0 ELSE Delta(blocks[i], k)

CreatesComponent(b) == \E i \in DOMAIN b.txs : b.txs[i].comp

HasComponent(blocks) == \E i \in DOMAIN blocks : CreatesComponent(blocks[i])

\* A client applies updated attributes, then removes the deleted ones.
Apply(delta, v) == IF delta = None THEN v ELSE delta

\* The lookups of the reorg buffer: the newest buffered write of a key;
\* deletions are not looked at.
Writes(b, k) == \E i \in DOMAIN b.txs : b.txs[i].chg[k] \in {"create", "update"}

Lookup(buf, k) ==
    LET i == LastIndex(buf, {j \in DOMAIN buf : Writes(buf[j], k)})
    IN  IF i = 0 THEN None ELSE buf[i].hash

-----------------------------------------------------------------------------
(* The messages sent to subscribers (BlockAggregatedChanges).              *)

Message(b, revert, part, height, delta) ==
    [block |-> b, revert |-> revert, part |-> part,
     committed |-> height, delta |-> delta]

UpdateMessage(b, part, height) ==
    Message(b, FALSE, part, height, [k \in Keys |-> Delta(b, k)])

-----------------------------------------------------------------------------
NoTask == [state |-> "none", blocks |-> <<>>, sync |-> FALSE, height |-> None]
NoBlock == [hash |-> 0, parent |-> 0, number |-> 0, txs |-> <<>>]
Genesis == [hash |-> 0, number |-> StartBlock - 1]

Min(x, y) == IF x <= y THEN x ELSE y

Init ==
    /\ chain = <<>> /\ pos = 0 /\ tip = Genesis
    /\ fin = InitialFinal /\ nextHash = 1 /\ empties = 0 /\ faults = 0
    /\ mode = "running" /\ pc = "idle" /\ cur = [block |-> NoBlock, final |-> 0]
    /\ batch = <<>> /\ buffer = <<>> /\ partial = <<>>
    /\ cursor = 0 /\ last = None /\ first = FALSE /\ out = <<>>
    /\ task = NoTask /\ committed = None /\ openTx = <<>> /\ db = <<>>

\* The runner takes the next stream event once it has propagated the messages
\* of the previous one.
Ready == mode = "running" /\ pc = "idle" /\ out = <<>>

\* A handler returned an error: the runner's task ends, and with it the
\* process.  What the handler had changed in memory by then is never read
\* again, so it is left as it was.
Fail ==
    /\ mode' = "failed"
    /\ UNCHANGED <<pc, cur, batch, buffer, partial, cursor, last, first, out>>

(***************************************************************************)
(* process_full_block_message, up to the await on the previous commit.     *)
(***************************************************************************)
Due(buf, f) == CountBlocksBefore(buf, f) >= BatchSize

Rejected(b, f) ==
    \/ f > b.number
    \/ ~CanInsert(buffer, b)
    \/ Due(InsertBlock(buffer, b), f) /\ DrainFails(InsertBlock(buffer, b), f)

ToCommit(buf, f) == IF Due(buf, f) THEN Drained(buf, f) ELSE <<>>

ToKeep(buf, f) == IF Due(buf, f) THEN Retained(buf, f) ELSE buf

InsertAndDrain(b, f) ==
    LET buf == InsertBlock(buffer, b)
    IN  /\ cur' = [block |-> b, final |-> f]
        /\ batch' = ToCommit(buf, f)
        /\ buffer' = ToKeep(buf, f)
        /\ pc' = IF batch' = <<>> THEN "emit" ELSE "join"
        /\ UNCHANGED <<mode, last>>

(***************************************************************************)
(* The provider's next block: after a restart the final blocks that had    *)
(* been streamed before come again, otherwise a new block on the tip.      *)
(***************************************************************************)
History == SubSeq(chain, 1, pos) \o [i \in DOMAIN partial |-> partial[i].block]

\* Substreams derive the change kinds of attributes from their stores; the
\* other keys are only ever written.
WellFormed(tx, hist) ==
    /\ tx.comp => ~HasComponent(hist)
    /\ \A k \in Keys \ Attrs : tx.chg[k] \in {"none", "update"}
    /\ \A k \in Balances : tx.chg[k] = "update" => tx.comp \/ HasComponent(hist)
    /\ \A a \in Attrs :
          /\ tx.chg[a] = "create" =>
                ValueAt(hist, a) = 0 /\ (tx.comp \/ HasComponent(hist))
          /\ tx.chg[a] \in {"update", "delete"} => ValueAt(hist, a) # 0

NewTxs == {tx \in Txs : WellFormed(tx, History)}

NewBlock(txs) ==
    [hash |-> nextHash, parent |-> tip.hash, number |-> tip.number + 1, txs |-> txs]

NextBlocks ==
    IF pos < Len(chain) THEN {chain[pos + 1]}
    ELSE {NewBlock(<<tx>>) : tx \in {t \in NewTxs : nextHash <= MaxHash}}

\* The provider has streamed block b.
Streamed(b) ==
    /\ chain' = IF pos < Len(chain) THEN chain ELSE Append(chain, b)
    /\ nextHash' = IF pos < Len(chain) THEN nextHash ELSE nextHash + 1
    /\ pos' = pos + 1
    /\ tip' = [hash |-> b.hash, number |-> b.number]
    /\ UNCHANGED <<empties, faults>>

(***************************************************************************)
(* handle_tick_scoped_data with a full block.  A block at or below the     *)
(* final height is reported as final itself, so that the extractor takes   *)
(* itself to be syncing.                                                   *)
(***************************************************************************)
DeliverBlock ==
    /\ Ready /\ partial = <<>>
    /\ \E b \in NextBlocks, f \in fin .. MaxFinal :
          /\ fin' = f
          /\ \/ /\ Rejected(b, Min(f, b.number))
                /\ Fail
                /\ UNCHANGED <<chain, pos, tip, nextHash, empties, faults>>
             \/ /\ ~Rejected(b, Min(f, b.number))
                /\ Streamed(b)
                /\ InsertAndDrain(b, Min(f, b.number))
                /\ UNCHANGED <<partial, cursor, first, out>>
    /\ UNCHANGED gateway

(***************************************************************************)
(* handle_tick_scoped_data with a message that holds no block             *)
(* (ExtractionError::Empty): only the cursor moves.                        *)
(***************************************************************************)
DeliverEmpty ==
    /\ Ready /\ partial = <<>> /\ pos = Len(chain)
    /\ empties < MaxEmpty /\ nextHash <= MaxHash
    /\ tip' = [hash |-> nextHash, number |-> tip.number + 1]
    /\ nextHash' = nextHash + 1
    /\ empties' = empties + 1
    /\ cursor' = nextHash
    /\ first' = TRUE
    /\ UNCHANGED <<chain, pos, fin, faults, mode, pc, cur, batch, buffer,
                   partial, last, out, gateway>>

(***************************************************************************)
(* handle_tick_scoped_data with a partial block: it is merged into the     *)
(* partial buffer and sent on at once.  After the last partial the runner  *)
(* calls collect_and_process_full_block, which empties the partial buffer. *)
(***************************************************************************)
MergePartial(tx) ==
    IF partial = <<>>
    THEN [block |-> NewBlock(<<tx>>), idx |-> 0]
    ELSE [block |-> [partial[1].block EXCEPT !.txs = Append(@, tx)],
          idx |-> partial[1].idx + 1]

DeliverPartial(isLast) ==
    /\ PartialBlocks /\ Ready /\ pos = Len(chain) /\ nextHash <= MaxHash
    /\ \E tx \in NewTxs, f \in fin .. Min(tip.number, MaxFinal) :
          LET p == MergePartial(tx)
              fails == committed > f \/ (isLast /\ Rejected(p.block, f))
          IN  /\ p.idx < MaxPartials
              /\ fin' = f
              /\ IF fails THEN Fail
                 ELSE
                    /\ cursor' = p.block.hash
                    /\ first' = TRUE
                    /\ out' = <<UpdateMessage(NewBlock(<<tx>>), p.idx, committed)>>
                    /\ IF isLast
                       THEN partial' = <<>> /\ InsertAndDrain(p.block, f)
                       ELSE /\ partial' = <<p>>
                            /\ UNCHANGED <<mode, pc, cur, batch, buffer, last>>
              /\ IF isLast /\ ~fails THEN Streamed(p.block)
                 ELSE UNCHANGED <<chain, pos, tip, nextHash, empties, faults>>
    /\ UNCHANGED gateway

(***************************************************************************)
(* process_full_block_message, second part: await the previous commit task *)
(* and return its error, or spawn the task for the drained blocks.         *)
(***************************************************************************)
\* Mutant: the result of the previous commit task is not looked at.
JoinFailedIgnored == FALSE

JoinFailed == task.state = "failed"

JoinCommit ==
    /\ mode = "running" /\ pc = "join" /\ task.state # "running"
    /\ \/ /\ JoinFailed
          /\ Fail
          /\ UNCHANGED task
       \/ /\ ~JoinFailed
          /\ task' = [state |-> "running", blocks |-> batch,
                      sync |-> cur.final = cur.block.number,
                      height |-> batch[Len(batch)].number]
          /\ batch' = <<>>
          /\ pc' = "emit"
          /\ UNCHANGED <<mode, cur, buffer, partial, cursor, last, first, out>>
    /\ UNCHANGED <<provider, committed, openTx, db>>

(***************************************************************************)
(* process_full_block_message, last part: update the extractor's state and *)
(* aggregate the block with the committed height of this moment.  The      *)
(* runner adds a partial copy of a full block when partials are enabled.   *)
(***************************************************************************)
Emit ==
    /\ mode = "running" /\ pc = "emit"
    /\ LET msg == UpdateMessage(cur.block, None, committed)
       IN  IF committed > cur.final THEN Fail
           ELSE
              /\ out' = IF out # <<>> THEN Append(out, msg)
                        ELSE IF PartialBlocks THEN <<[msg EXCEPT !.part = 0], msg>>
                        ELSE <<msg>>
              /\ last' = cur.block.number
              /\ cursor' = cur.block.hash
              /\ first' = TRUE
              /\ pc' = "idle"
              /\ UNCHANGED <<mode, cur, batch, buffer, partial>>
    /\ UNCHANGED <<provider, gateway>>

\* ExtractorRunner::propagate_msg, one message to every subscriber.
Propagate ==
    /\ mode = "running" /\ pc = "idle" /\ out # <<>>
    /\ out' = Tail(out)
    /\ UNCHANGED <<provider, mode, pc, cur, batch, buffer, partial, cursor,
                   last, first, gateway>>

(***************************************************************************)
(* handle_revert: what the revert message says about a key.  reverted are  *)
(* the purged blocks and the partial block, buf is what stays buffered.    *)
(* The database is read as it is: a commit in flight is not awaited.       *)
(***************************************************************************)
Changes(b, k, kinds) == \E i \in DOMAIN b.txs : b.txs[i].chg[k] \in kinds

Changed(reverted, k, kinds) == \E i \in DOMAIN reverted : Changes(reverted[i], k, kinds)

\* reverted_created_attrs
CreatedAttrs(reverted) ==
    {k \in Attrs : ~HasComponent(reverted) /\ Changed(reverted, k, {"create"})}

\* reverted_protocol_state_keys: the filter applies to the updated attributes
\* only, the deleted ones are chained after it.
LookupAttrs(reverted) ==
    {k \in Attrs :
        /\ ~HasComponent(reverted)
        /\ \/ Changed(reverted, k, {"create", "update"}) /\ k \notin CreatedAttrs(reverted)
           \/ Changed(reverted, k, {"delete"})}

\* get_protocol_states finds no state for a component that is not stored.
ComponentMissing(reverted, buf) ==
    ~HasComponent(db) /\ \E k \in LookupAttrs(reverted) : Lookup(buf, k) = None

\* First the buffer, then the database; absent in both is empty or deleted.
\* Mutant: the reorg buffer is not consulted.
PreviousFromDb(buf, k) == ValueAt(db, k)

Previous(buf, k) == IF Lookup(buf, k) # None THEN Lookup(buf, k) ELSE ValueAt(db, k)

RevertAttr(reverted, buf, k) ==
    CASE HasComponent(reverted) -> 0        \* the whole component is deleted
      [] k \in CreatedAttrs(reverted) -> 0  \* deletions are applied last
      [] k \in LookupAttrs(reverted) \ CreatedAttrs(reverted) -> Previous(buf, k)
      [] OTHER -> None

RevertBalance(reverted, buf, k) ==
    CASE HasComponent(reverted) -> 0
      [] ~HasComponent(reverted) /\ Changed(reverted, k, {"update"}) -> Previous(buf, k)
      [] OTHER -> None

RevertSlot(reverted, buf, k) ==
    IF Changed(reverted, k, {"update"}) THEN Previous(buf, k) ELSE None

\* Only accounts that have an account delta, that is a reverted slot.
RevertAccBalance(reverted, buf, k) ==
    IF /\ Changed(reverted, k, {"update"})
       /\ \E s \in Slots : Changed(reverted, s, {"update"})
    THEN Previous(buf, k)
    ELSE None

RevertDelta(reverted, buf) ==
    [k \in Keys |->
        CASE k \in Attrs -> RevertAttr(reverted, buf, k)
          [] k \in Balances -> RevertBalance(reverted, buf, k)
          [] k \in Slots -> RevertSlot(reverted, buf, k)
          [] k \in AccBalances -> RevertAccBalance(reverted, buf, k)]

(***************************************************************************)
(* The undo signals the provider may send: to a block of the current       *)
(* branch that is not below the final height.  As a first message it can   *)
(* only confirm the position the stream starts from.                       *)
(***************************************************************************)
BlockRef(b) == [hash |-> b.hash, number |-> b.number]

UndoTargets ==
    IF ~first THEN {tip}
    ELSE {t \in {BlockRef(chain[i]) : i \in 1 .. pos} \cup {Genesis} :
              t.number >= fin /\ (t.number < tip.number \/ partial # <<>>)}

HandleRevert(t) ==
    LET reverted == Purged(buffer, t.hash) \o [i \in DOMAIN partial |-> partial[i].block]
        buf == Unpurged(buffer, t.hash)
        part == IF Purged(buffer, t.hash) = <<>> /\ partial # <<>>
                THEN partial[1].idx ELSE None
    IN  IF PurgeFails(buffer, t.hash) \/ reverted = <<>> \/ ComponentMissing(reverted, buf)
        THEN Fail /\ UNCHANGED provider
        ELSE
           /\ buffer' = buf
           /\ partial' = <<>>
           /\ out' = <<Message(buf[Len(buf)], TRUE, part, None, RevertDelta(reverted, buf))>>
           /\ last' = buf[Len(buf)].number
           /\ cursor' = t.hash
           /\ first' = TRUE
           /\ pos' = pos - Len(Purged(buffer, t.hash))
           /\ chain' = SubSeq(chain, 1, pos')
           /\ tip' = t
           /\ nextHash' = nextHash + Len(partial)
           /\ UNCHANGED <<fin, empties, faults, mode, pc, cur, batch>>

Undo ==
    /\ Ready
    /\ \E t \in UndoTargets :
          IF ~first
          THEN /\ cursor' = t.hash
               /\ first' = TRUE
               /\ UNCHANGED <<provider, mode, pc, cur, batch, buffer, partial, last, out>>
          ELSE HandleRevert(t)
    /\ UNCHANGED gateway

(***************************************************************************)
(* The commit task: ExtractorPgGateway::advance for every block, in order. *)
(* advance opens (or extends) the gateway's transaction, and flushes it    *)
(* when forced or when it holds enough operations; how many operations a   *)
(* block has is left open.  Only the last block of a batch is forced, and  *)
(* none while syncing.  The task outlives a runner that failed.            *)
(***************************************************************************)
Forced(t) == ~t.sync /\ Len(t.blocks) = 1

\* Mutant: a flush writes its own block and drops what was staged before.
CommitBlockDropsStaged ==
    /\ task.state = "running" /\ task.blocks # <<>>
    /\ task' = [task EXCEPT !.blocks = Tail(@)]
    /\ \/ /\ ~Forced(task)
          /\ openTx' = Append(openTx, Head(task.blocks))
          /\ UNCHANGED db
       \/ /\ openTx' = <<>>
          /\ db' = Append(db, Head(task.blocks))
    /\ UNCHANGED <<provider, extractor, committed>>

CommitBlock ==
    /\ task.state = "running" /\ task.blocks # <<>>
    /\ task' = [task EXCEPT !.blocks = Tail(@)]
    /\ LET staged == Append(openTx, Head(task.blocks))
       IN  \/ /\ ~Forced(task)
              /\ openTx' = staged
              /\ UNCHANGED db
           \/ /\ openTx' = <<>>
              /\ db' = db \o staged
    /\ UNCHANGED <<provider, extractor, committed>>

\* CachedGateway::commit_transaction with an error from the write executor:
\* the open transaction is lost and advance fails.
\* Mutant: the transaction stays open after a failed write.
CommitFailsKeepsTx ==
    /\ task.state = "running" /\ task.blocks # <<>>
    /\ faults < MaxFaults
    /\ faults' = faults + 1
    /\ task' = [task EXCEPT !.state = "failed", !.blocks = <<>>]
    /\ UNCHANGED <<chain, pos, tip, fin, nextHash, empties, extractor, committed,
                   openTx, db>>

CommitFails ==
    /\ task.state = "running" /\ task.blocks # <<>>
    /\ faults < MaxFaults
    /\ faults' = faults + 1
    /\ openTx' = <<>>
    /\ task' = [task EXCEPT !.state = "failed", !.blocks = <<>>]
    /\ UNCHANGED <<chain, pos, tip, fin, nextHash, empties, extractor, committed, db>>

\* Mutant: reports the height of the first block that is not committed.
CommitDoneOneAhead ==
    /\ task.state = "running" /\ task.blocks = <<>>
    /\ task' = [task EXCEPT !.state = "ok"]
    /\ committed' = task.height + 1
    /\ UNCHANGED <<provider, extractor, openTx, db>>

CommitDone ==
    /\ task.state = "running" /\ task.blocks = <<>>
    /\ task' = [task EXCEPT !.state = "ok"]
    /\ committed' = task.height
    /\ UNCHANGED <<provider, extractor, openTx, db>>

(***************************************************************************)
(* The process ends (a failed runner ends it) and is started again.        *)
(* ProtocolExtractor::new loads the last persisted block; into_runner asks *)
(* for the stream from the block after it, without a cursor.  What was     *)
(* streamed and is final will be streamed again, the rest may change.      *)
(***************************************************************************)
PersistedHeight == IF db = <<>> THEN None ELSE db[Len(db)].number

Restart ==
    /\ mode = "failed" \/ faults < MaxFaults
    /\ faults' = IF mode = "failed" THEN faults ELSE faults + 1
    /\ \E n \in Len(db) .. Len(chain) :
          /\ \A i \in 1 .. n : chain[i].number <= fin
          /\ \A i \in n + 1 .. Len(chain) : chain[i].number > fin
          /\ chain' = SubSeq(chain, 1, n)
    /\ pos' = Len(db)
    /\ tip' = IF db = <<>> THEN Genesis ELSE BlockRef(db[Len(db)])
    /\ nextHash' = nextHash + Len(partial)
    /\ mode' = "running" /\ pc' = "idle" /\ cur' = [block |-> NoBlock, final |-> 0]
    /\ batch' = <<>> /\ buffer' = <<>> /\ partial' = <<>>
    /\ cursor' = IF db = <<>> THEN 0 ELSE db[Len(db)].hash
    /\ last' = PersistedHeight /\ first' = FALSE /\ out' = <<>>
    /\ task' = NoTask /\ committed' = PersistedHeight /\ openTx' = <<>>
    /\ UNCHANGED <<fin, empties, db>>

Next ==
    \/ DeliverBlock \/ DeliverEmpty
    \/ DeliverPartial(FALSE) \/ DeliverPartial(TRUE)
    \/ JoinCommit \/ Emit \/ Propagate \/ Undo
    \/ CommitBlock \/ CommitFails \/ CommitDone
    \/ Restart

Spec == Init /\ [][Next]_vars

-----------------------------------------------------------------------------
(* Properties *)

Block == [hash : Nat, parent : Nat, number : Nat, txs : Seq(Txs)]
Partial == [block : Block, idx : Nat]
Msg == [block : Block, revert : BOOLEAN, part : Int, committed : Int, delta : [Keys -> Int]]
Task == [state : {"none", "running", "ok", "failed"}, blocks : Seq(Block),
         sync : BOOLEAN, height : Int]

TypeOK ==
    /\ chain \in Seq(Block) /\ pos \in 0 .. Len(chain)
    /\ tip \in [hash : Nat, number : Nat]
    /\ fin \in Nat /\ nextHash \in Nat /\ empties \in Nat /\ faults \in Nat
    /\ mode \in {"running", "failed"} /\ pc \in {"idle", "join", "emit"}
    /\ cur \in [block : Block, final : Nat]
    /\ batch \in Seq(Block) /\ buffer \in Seq(Block)
    /\ partial \in Seq(Partial) /\ Len(partial) <= 1
    /\ cursor \in Nat /\ last \in Int /\ first \in BOOLEAN /\ out \in Seq(Msg)
    /\ task \in Task /\ committed \in Int
    /\ openTx \in Seq(Block) /\ db \in Seq(Block)

\* s is the part of big that starts after the first off elements.
Slice(s, big, off) ==
    off + Len(s) <= Len(big) /\ \A i \in 1 .. Len(s) : s[i] = big[off + i]

\* No block is lost, doubled or reordered on its way to the database: while no
\* write has failed, database, open transaction, commit task, drained batch and
\* reorg buffer together are exactly the blocks delivered on the current branch
\* (process_full_block_message, advance, handle_revert).
Pipeline ==
    task.state # "failed" =>
        SubSeq(chain, 1, pos) = db \o openTx \o task.blocks \o batch \o buffer

\* Whatever fails and whenever the process restarts, the database holds the
\* canonical chain from the start block on without a gap: a failed commit is
\* noticed before a later batch can be written.
DbIsChainPrefix == Slice(db, chain, 0)

\* Only blocks below the final height leave the reorg buffer, so the block after
\* the last persisted one is final and a restart may resume there (into_runner).
OnlyFinalLeavesBuffer ==
    /\ \A i \in 1 .. Len(db) : db[i].number < fin
    /\ \A i \in 1 .. Len(openTx) : openTx[i].number < fin
    /\ \A i \in 1 .. Len(task.blocks) : task.blocks[i].number < fin
    /\ \A i \in 1 .. Len(batch) : batch[i].number < fin

\* An undo signal for a delivered block always finds its target in the reorg
\* buffer, however much has been drained since: purge in handle_revert only
\* fails for a target before the start block.
UndoTargetIsBuffered ==
    Ready /\ first =>
        \A t \in UndoTargets : t # Genesis => ~PurgeFails(buffer, t.hash)

\* The height reported as committed is below the finality reported with the
\* block (into_aggregated would refuse the block otherwise), also when the
\* commit task finishes while the handler is between two awaits.
CommittedBelowFinality == pc = "emit" => committed < cur.final

(***************************************************************************)
(* Reverts.  A revert step leaves one revert message in out.               *)
(***************************************************************************)
RevertStep == out = <<>> /\ out' # <<>> /\ out'[1].revert

RevertedBlocks == SubSeq(History, pos' + 1, Len(History))

\* A client that applies the revert message is back at the undo target.
Restores(k) == Apply(out'[1].delta[k], ValueAt(History, k)) = ValueAt(History', k)

\* Nothing that left the reorg buffer is still on its way to the database.
NothingInFlight == task.state \in {"none", "ok"} /\ openTx = <<>>

\* With no commit in flight, handle_revert's message restores the value that
\* every key had at the target block: the buffered one, the stored one, or
\* none.  Left out are an attribute deleted and created again in the reverted
\* range, and a balance of an account without a reverted slot (see the README).
RevertRestoresState ==
    [][RevertStep /\ NothingInFlight =>
          \A k \in Keys :
             \/ Restores(k)
             \/ k \in CreatedAttrs(RevertedBlocks) /\ ValueAt(History', k) # 0
             \/ k \in AccBalances /\ \A s \in Slots : ~Changed(RevertedBlocks, s, {"update"})
      ]_vars

\* "Returns component balances at the tip of the reorg buffer": the balances in
\* a revert message are those of the target block, commit in flight or not.
RevertBalancesAtTip == [][RevertStep => \A k \in Balances : Restores(k)]_vars

(***************************************************************************)
(* The inductive invariant behind the safety properties.  The storages are *)
(* consecutive slices of the delivered chain; after a failed write there   *)
(* is a gap below the drained blocks, which the next join turns into an    *)
(* error before anything can be written across it.                         *)
(***************************************************************************)
Ordered ==
    /\ \A i, j \in 1 .. Len(chain) : i < j => chain[i].number < chain[j].number
    /\ \A i \in 1 .. pos : chain[i].number <= tip.number

Hashed ==
    /\ nextHash >= 1
    /\ \A i \in 1 .. Len(chain) : chain[i].hash >= 1 /\ chain[i].hash < nextHash
    /\ \A i, j \in 1 .. Len(chain) : i # j => chain[i].hash # chain[j].hash
    /\ \A i \in 1 .. Len(partial) : partial[i].block.hash = nextHash

Stored == Len(db) + Len(openTx) + Len(task.blocks)

Conveyor ==
    /\ Slice(db, chain, 0)
    /\ Slice(openTx, chain, Len(db))
    /\ Slice(task.blocks, chain, Len(db) + Len(openTx))
    /\ Slice(batch, chain, pos - Len(buffer) - Len(batch))
    /\ Slice(buffer, chain, pos - Len(buffer))
    /\ Stored <= pos - Len(buffer) - Len(batch)
    /\ task.state # "failed" => Stored = pos - Len(buffer) - Len(batch)

Control ==
    /\ task.state # "running" => task.blocks = <<>>
    /\ task.state = "failed" => openTx = <<>>
    /\ pc = "join" <=> batch # <<>>
    /\ partial # <<>> => pos = Len(chain) /\ partial[1].block.number = tip.number + 1
    /\ pc # "idle" => /\ buffer # <<>> /\ cur.block = buffer[Len(buffer)]
                      /\ cur.final = Min(fin, cur.block.number)

FinalOutsideBuffer ==
    \A i \in 1 .. pos - Len(buffer) : chain[i].number < fin

\* What is, or is about to be, reported as committed has left the buffer.
Handed(h) == \E i \in 1 .. pos - Len(buffer) - Len(batch) : chain[i].number = h

CommittedHanded ==
    /\ committed = None \/ Handed(committed)
    /\ task.state = "running" => Handed(task.height)

IndInv ==
    /\ TypeOK /\ Ordered /\ Hashed /\ Conveyor /\ Control
    /\ FinalOutsideBuffer /\ CommittedHanded

=============================================================================
