---------------------------- MODULE BlockHistory ----------------------------
(***************************************************************************)
(* The client's block history (tycho-client/src/feed/block_history.rs):    *)
(* the recent block headers of all streams, against which each header that *)
(* arrives is placed.                                                      *)
(*                                                                         *)
(* A header is a record with fields hash, parent, number, revert and part  *)
(* (the partial block index, -1 for a full block).  A history is a record: *)
(* chain, the retained headers, oldest first, and reverts, the hashes of   *)
(* the headers that were popped.  A method that can return an error is a   *)
(* pair of operators, one that says when it fails and one with its effect. *)
(***************************************************************************)
EXTENDS ReorgBuffer, FiniteSets

IsPartial(b) == b.part >= 0

Latest(h) == h.chain[Len(h.chain)]

Oldest(h) == h.chain[1]

HashInHistory(h, x) == \E i \in DOMAIN h.chain : h.chain[i].hash = x

(***************************************************************************)
(* BlockHistory::new: the highest header and the headers connected below   *)
(* it.  The sort is stable and then reversed, so of several headers that   *)
(* fit the last one given is taken.                                        *)
(***************************************************************************)
TipIndex(blocks) ==
    LastIndex(blocks, {i \in DOMAIN blocks :
                          \A j \in DOMAIN blocks : blocks[j].number <= blocks[i].number})

\* Mutant: the parent is looked for by its number only.
ParentByNumber(blocks, b) ==
    LastIndex(blocks, {i \in DOMAIN blocks : blocks[i].number = b.number - 1})

\* 0 when there is none.
ParentIndex(blocks, b) ==
    LastIndex(blocks, {i \in DOMAIN blocks :
                          blocks[i].hash = b.parent /\ blocks[i].number = b.number - 1})

Connected(blocks) ==
    LET parent == [i \in 0 .. Len(blocks) |->
                      IF i = 0 THEN 0 ELSE ParentIndex(blocks, blocks[i])]
        up[n \in 0 .. Len(blocks)] == IF n = 0 THEN TipIndex(blocks) ELSE parent[up[n - 1]]
        depth == Cardinality({n \in DOMAIN up : up[n] # 0})
    IN  [k \in 1 .. depth |-> blocks[up[depth - k]]]

NewHistory(blocks) ==
    [chain |-> IF blocks = <<>> THEN <<>> ELSE Connected(blocks), reverts |-> {}]

(***************************************************************************)
(* determine_block_position: the tests in the order of the code.           *)
(***************************************************************************)
PartialPosition(latest, b) ==
    IF IsPartial(latest) /\ b.part > latest.part THEN "NextPartial"
    ELSE IF IsPartial(latest) /\ b.part = latest.part THEN "Latest"
    ELSE "Delayed"

\* Mutant: a sibling of a retained header is detached.
PositionBelowDetached(h, b) ==
    IF b.number < Oldest(h).number THEN "Delayed"
    ELSE IF HashInHistory(h, b.hash) THEN IF b.revert THEN "NextExpected" ELSE "Delayed"
    ELSE IF ~b.revert /\ IsPartial(b) THEN "Delayed"
    ELSE "Undetermined"

\* A block at or below the tip that none of the first tests has placed.
PositionBelow(h, b) ==
    IF b.number < Oldest(h).number THEN "Delayed"
    ELSE IF HashInHistory(h, b.hash) THEN IF b.revert THEN "NextExpected" ELSE "Delayed"
    ELSE IF ~b.revert /\ (IsPartial(b) \/ HashInHistory(h, b.parent)) THEN "Delayed"
    ELSE "Undetermined"

Position(h, b) ==
    IF h.chain = <<>> THEN "Undetermined"      \* EmptyHistory
    ELSE IF b.parent = Latest(h).hash THEN "NextExpected"
    ELSE IF b.number = Latest(h).number /\ IsPartial(b) THEN PartialPosition(Latest(h), b)
    ELSE IF b.hash = Latest(h).hash /\ ~b.revert THEN "Latest"
    ELSE IF b.hash \in h.reverts THEN "Delayed"
    ELSE IF b.number <= Latest(h).number THEN PositionBelow(h, b)
    ELSE "Advanced"

(***************************************************************************)
(* push.  A revert pops the newest headers until the block's parent is the *)
(* newest, and fails when the history runs out first.                      *)
(***************************************************************************)
ForkIndex(h, b) ==
    IF b.revert
    THEN LastIndex(h.chain, {i \in DOMAIN h.chain : h.chain[i].hash = b.parent})
    ELSE Len(h.chain)

PushFails(h, b) ==
    LET p == Position(h, b)
    IN  \/ p = "Undetermined"
        \/ p = "NextExpected" /\ ForkIndex(h, b) = 0
        \/ p = "NextPartial" /\ ~IsPartial(Latest(h))

Bounded(chain, size) == IF Len(chain) > size THEN Tail(chain) ELSE chain

Hashes(chain) == {chain[i].hash : i \in DOMAIN chain}

PushNext(h, b, size) ==
    LET kept == SubSeq(h.chain, 1, ForkIndex(h, b))
    IN  [chain |-> Bounded(Append(kept, b), size),
         reverts |-> h.reverts \cup Hashes(SubSeq(h.chain, Len(kept) + 1, Len(h.chain)))]

DropTip(h) == SubSeq(h.chain, 1, Len(h.chain) - 1)

Push(h, b, size) ==
    LET p == Position(h, b)
    IN  IF p = "NextExpected" THEN PushNext(h, b, size)
        ELSE IF p = "NextPartial" THEN [h EXCEPT !.chain = Append(DropTip(h), b)]
        ELSE IF p = "Latest" /\ b.revert /\ IsPartial(Latest(h))
        THEN [chain |-> DropTip(h), reverts |-> h.reverts \cup {Latest(h).hash}]
        ELSE h

=============================================================================
