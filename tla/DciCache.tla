------------------------------ MODULE DciCache ------------------------------
(***************************************************************************)
(* DCICache under any sequence of calls, and the map with checkpoints that *)
(* it implements.  A call that returns an error changes nothing, and ends  *)
(* the extractor in the composed system (DciExtractor).                    *)
(***************************************************************************)
EXTENDS VersionedCache

CONSTANTS
    Blocks,         \* the blocks that may arrive, of any branches
    Elements        \* plain values, and the elements of set values

\* A set is never empty: it is there since its first element was inserted.
Values(k) ==
    IF k \in SetKeys THEN {s \cup {e} : s \in SUBSET Elements, e \in Elements}
    ELSE Elements

\* All maps from the keys to values that fit them.
Maps ==
    {m \in [Keys -> (UNION {Values(k) : k \in Keys}) \cup {None}] :
        \A k \in Keys : m[k] = None \/ m[k] \in Values(k)}

Hashes == {b.hash : b \in Blocks} \cup {b.parent : b \in Blocks}

ASSUME CacheAssumption ==
    /\ SetKeys \subseteq Keys
    /\ \A k \in Keys : \A v \in Values(k) : v # None

VARIABLE cache

\* initialize fills the permanent map from the database.
Init == cache \in [permanent : Maps, pending : {<<>>}]

TryInsertBlockLayer(b) == ~LayerFails(cache, b) /\ cache' = EnsureLayer(cache, b)

Write(k, v) == cache.pending # <<>> /\ cache' = Put(cache, k, v)

Finality(n) == ~FinalityFails(cache, n) /\ cache' = HandleFinality(cache, n)

Revert(h) == ~RevertFails(cache, h) /\ cache' = RevertTo(cache, h)

Next ==
    \/ \E b \in Blocks : TryInsertBlockLayer(b)
    \/ \E k \in Keys : \E v \in Values(k) : Write(k, v)
    \/ \E b \in Blocks : Finality(b.number)
    \/ \E h \in Hashes : Revert(h)

Spec == Init /\ [][Next]_cache

-----------------------------------------------------------------------------
(* Properties *)

\* The map that is read at the n-th layer, and the checkpoints of all layers.
MapAt(c, n) == [k \in Keys |-> Read(c, n, k)]

Versions(c) ==
    [i \in DOMAIN c.pending |-> [block |-> c.pending[i].block, map |-> MapAt(c, i)]]

Map == INSTANCE BlockMap WITH base <- MapAt(cache, 0), versions <- Versions(cache)

\* What get and get_all return is a map with checkpoints: finality changes no
\* value that is read at a retained block, a write only those at the newest one,
\* and a revert gives back the map as it was at its target, across all layers
\* and both merge strategies.
ImplementsBlockMap == Map!Spec

\* Every map of the cache holds, for each key, no value or one that fits it.
TypeOK ==
    cache \in [permanent : Maps, pending : Seq([block : Blocks, data : Maps])]

=============================================================================
