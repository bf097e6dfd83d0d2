----------------------------- MODULE ReorgBuffer -----------------------------
(***************************************************************************)
(* The reorg buffer (tycho-indexer/src/extractor/reorg_buffer.rs): the     *)
(* double-ended queue of blocks that are not in the database yet.  It is   *)
(* held by the extractor (full BlockChanges) and, a second time, by the    *)
(* RPC service's PendingDeltas (aggregated changes).                       *)
(*                                                                         *)
(* A buffer is a sequence of blocks, oldest first.  A block is a record    *)
(* with at least the fields hash, parent and number; txs is its sequence   *)
(* of transactions.  A method that can return an error is modelled by a    *)
(* pair of operators: one that says when it fails, one with its effect.    *)
(* Nothing here is recursive, so that the proof modules can build on it.   *)
(***************************************************************************)
EXTENDS Integers, Sequences

\* The least, and the greatest, index of s that is in I; 0 when there is none.
FirstIndex(s, I) ==
    LET IsFirst(i) == i \in I /\ \A j \in 1 .. i - 1 : j \notin I
    IN  IF \E i \in DOMAIN s : IsFirst(i) THEN CHOOSE i \in DOMAIN s : IsFirst(i) ELSE 0

LastIndex(s, I) ==
    LET IsLast(i) == i \in I /\ \A j \in i + 1 .. Len(s) : j \notin I
    IN  IF \E i \in DOMAIN s : IsLast(i) THEN CHOOSE i \in DOMAIN s : IsLast(i) ELSE 0

(***************************************************************************)
(* insert_block: the new block's parent must be the newest buffered block. *)
(***************************************************************************)
CanInsert(buf, b) == buf = <<>> \/ buf[Len(buf)].hash = b.parent

InsertBlock(buf, b) == Append(buf, b)

(***************************************************************************)
(* count_blocks_before: a take_while over block numbers.                   *)
(***************************************************************************)
CountBlocksBefore(buf, n) ==
    LET i == FirstIndex(buf, {j \in DOMAIN buf : buf[j].number >= n})
    IN  IF i = 0 THEN Len(buf) ELSE i - 1

(***************************************************************************)
(* drain_blocks_until (never called with strict): removes the blocks older *)
(* than height n and returns them.  Without a block of height n it drains  *)
(* nothing when the oldest block (height 0 for an empty buffer) is below   *)
(* n, and fails otherwise.                                                 *)
(***************************************************************************)
FindNumber(buf, n) == FirstIndex(buf, {j \in DOMAIN buf : buf[j].number = n})

FirstNumber(buf) == IF buf = <<>> THEN 0 ELSE buf[1].number

DrainFails(buf, n) == FindNumber(buf, n) = 0 /\ FirstNumber(buf) >= n

\* Mutant: split_off one past the target, so the block of height n goes too.
DrainCountInclusive(buf, n) == FindNumber(buf, n)

DrainCount(buf, n) ==
    LET i == FindNumber(buf, n) IN IF i = 0 THEN 0 ELSE i - 1

Drained(buf, n) == SubSeq(buf, 1, DrainCount(buf, n))

Retained(buf, n) == SubSeq(buf, DrainCount(buf, n) + 1, Len(buf))

(***************************************************************************)
(* purge: removes the blocks newer than the newest block with the target   *)
(* hash and returns them, oldest first; fails when the target is absent.   *)
(***************************************************************************)
\* Mutant: the search starts one block too early and misses the newest block.
FindHashSkipsNewest(buf, h) ==
    LastIndex(buf, {j \in DOMAIN buf : j < Len(buf) /\ buf[j].hash = h})

FindHash(buf, h) == LastIndex(buf, {j \in DOMAIN buf : buf[j].hash = h})

PurgeFails(buf, h) == FindHash(buf, h) = 0

Purged(buf, h) == SubSeq(buf, FindHash(buf, h) + 1, Len(buf))

Unpurged(buf, h) == SubSeq(buf, 1, FindHash(buf, h))

(***************************************************************************)
(* get_commit_status of a block number.  The oldest buffered block counts  *)
(* as committed: greater_than is strict and it is the first comparison.    *)
(***************************************************************************)
CommitStatus(buf, v) ==
    IF buf = <<>> THEN "None"
    ELSE IF v <= buf[1].number THEN "Committed"
    ELSE IF v <= buf[Len(buf)].number THEN "Uncommitted"
    ELSE "Unseen"

(***************************************************************************)
(* get_block_range(None, Some(v)): the buffered blocks from the oldest one *)
(* up to and including the first one at or above v; fails when all are     *)
(* below v.                                                                *)
(***************************************************************************)
\* Mutant: the range goes on to the first block above v.
RangeEndBeyond(buf, v) == FirstIndex(buf, {j \in DOMAIN buf : buf[j].number > v})

RangeEnd(buf, v) == FirstIndex(buf, {j \in DOMAIN buf : buf[j].number >= v})

RangeFails(buf, v) == RangeEnd(buf, v) = 0

BlockRange(buf, v) == SubSeq(buf, 1, RangeEnd(buf, v))

=============================================================================
