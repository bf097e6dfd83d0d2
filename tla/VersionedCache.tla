--------------------------- MODULE VersionedCache ---------------------------
(***************************************************************************)
(* The cache of the dynamic contract indexer                               *)
(* (tycho-indexer/src/extractor/dynamic_contract_indexer/cache.rs): a      *)
(* permanent map and one layer of changes per block that may be reverted.  *)
(*                                                                         *)
(* DCICache holds nine such caches and makes every change of layers to all *)
(* of them; they are one cache here, with the keys of all nine.  SetKeys   *)
(* are the keys of the caches whose values are sets that are merged        *)
(* (MergeStrategy::Custom), the values of the others are replaced.  A      *)
(* cache is a record: permanent, a map, and pending, the layers, oldest    *)
(* first; a layer is a record of its block and data, a map.  A map has the *)
(* value None for an absent key.                                           *)
(***************************************************************************)
EXTENDS ReorgBuffer

CONSTANTS Keys, SetKeys, None

Empty == [k \in Keys |-> None]

NewCache == [permanent |-> Empty, pending |-> <<>>]

Newest(c) == c.pending[Len(c.pending)]

(***************************************************************************)
(* validate_and_ensure_block_layer_internal                                *)
(***************************************************************************)
LayerFails(c, b) ==
    /\ c.pending # <<>> /\ Newest(c).block # b
    /\ Newest(c).block.hash # b.parent

EnsureLayer(c, b) ==
    IF c.pending # <<>> /\ Newest(c).block = b THEN c
    ELSE [c EXCEPT !.pending = Append(@, [block |-> b, data |-> Empty])]

(***************************************************************************)
(* insert_pending for a plain key, pending_entry for a set: the layer of   *)
(* the block at hand is always the newest one.                             *)
(***************************************************************************)
Joined(k, old, v) == IF k \in SetKeys /\ old # None THEN old \cup v ELSE v

Put(c, k, v) == [c EXCEPT !.pending[Len(c.pending)].data[k] = Joined(k, @, v)]

(***************************************************************************)
(* get and get_all: the newest value of a key, or all its values, among    *)
(* the first n layers and the permanent map.                               *)
(***************************************************************************)
Holders(c, n, k) == {i \in 1 .. n : c.pending[i].data[k] # None}

\* Mutant: the oldest layer that has the key wins.
GetOldest(c, n, k) ==
    LET i == FirstIndex(c.pending, Holders(c, n, k))
    IN  IF i = 0 THEN c.permanent[k] ELSE c.pending[i].data[k]

Get(c, n, k) ==
    LET i == LastIndex(c.pending, Holders(c, n, k))
    IN  IF i = 0 THEN c.permanent[k] ELSE c.pending[i].data[k]

\* The value of a set key is the union of all its values, None if there is none.
GetAll(c, n, k) ==
    IF Holders(c, n, k) = {} THEN c.permanent[k]
    ELSE (UNION {c.pending[i].data[k] : i \in Holders(c, n, k)})
         \cup (IF c.permanent[k] = None THEN {} ELSE c.permanent[k])

Read(c, n, k) == IF k \in SetKeys THEN GetAll(c, n, k) ELSE Get(c, n, k)

(***************************************************************************)
(* handle_finality: the layers below the finalized block are merged into   *)
(* the permanent map, oldest first; the finalized block keeps its layer.   *)
(***************************************************************************)
LayerOfHeight(c, n) ==
    FirstIndex(c.pending, {i \in DOMAIN c.pending : c.pending[i].block.number = n})

FinalityFails(c, n) == c.pending # <<>> /\ LayerOfHeight(c, n) = 0

\* Mutant: the finalized layer is moved as well.
FinalizedCountInclusive(c, n) == LayerOfHeight(c, n)

\* The number of layers that are moved.
FinalizedCount(c, n) == IF c.pending = <<>> THEN 0 ELSE LayerOfHeight(c, n) - 1

\* Mutant: every set key gets an entry in the permanent map.
HandleFinalityDefault(c, n) ==
    LET Merged(k) == Read(c, FinalizedCount(c, n), k)
    IN  [permanent |-> [k \in Keys |-> IF k \in SetKeys /\ Merged(k) = None THEN {}
                                      ELSE Merged(k)],
         pending |-> SubSeq(c.pending, FinalizedCount(c, n) + 1, Len(c.pending))]

HandleFinality(c, n) ==
    [permanent |-> [k \in Keys |-> Read(c, FinalizedCount(c, n), k)],
     pending |-> SubSeq(c.pending, FinalizedCount(c, n) + 1, Len(c.pending))]

(***************************************************************************)
(* revert_to: the layers above the target are dropped.  The target may be  *)
(* the parent of the oldest layer's block, which has no layer itself.      *)
(***************************************************************************)
LayerOfHash(c, h) ==
    LastIndex(c.pending, {i \in DOMAIN c.pending : c.pending[i].block.hash = h})

RevertFails(c, h) ==
    c.pending # <<>> /\ LayerOfHash(c, h) = 0 /\ c.pending[1].block.parent # h

RevertTo(c, h) ==
    [c EXCEPT !.pending = SubSeq(c.pending, 1, LayerOfHash(c, h))]

=============================================================================
