------------------------------ MODULE BlockMap ------------------------------
(***************************************************************************)
(* What the dynamic contract indexer may expect of its cache: a map with a *)
(* checkpoint per block.  versions are the blocks that can be reverted,    *)
(* oldest first, each with the whole map as it is (or was) at that block;  *)
(* base is the map before the first of them.                               *)
(***************************************************************************)
EXTENDS Integers, Sequences

CONSTANTS Keys, SetKeys, None, Blocks, Hashes, Values(_), Maps

VARIABLES base, versions

Current == IF versions = <<>> THEN base ELSE versions[Len(versions)].map

Top == versions[Len(versions)]

Init == base \in Maps /\ versions = <<>>

\* A block starts with the map of its parent; to start it again changes nothing.
Open(b) ==
    /\ \/ versions # <<>> /\ Top.block = b /\ UNCHANGED versions
       \/ /\ versions = <<>> \/ Top.block.hash = b.parent
          /\ versions' = Append(versions, [block |-> b, map |-> Current])
    /\ UNCHANGED base

\* Only the newest block is written to; sets grow, other values are replaced.
Put(k, v) ==
    /\ versions # <<>>
    /\ versions' = [versions EXCEPT ![Len(versions)].map[k] =
                        IF k \in SetKeys /\ @ # None THEN @ \cup v ELSE v]
    /\ UNCHANGED base

\* The checkpoints below height n are given up: no other map changes.
Finalize(n) ==
    \/ versions = <<>> /\ UNCHANGED <<base, versions>>
    \/ \E i \in DOMAIN versions :
          /\ versions[i].block.number = n
          /\ base' = IF i = 1 THEN base ELSE versions[i - 1].map
          /\ versions' = SubSeq(versions, i, Len(versions))

\* The map is again what it was at block h, or before the first block.
Revert(h) ==
    /\ \/ versions = <<>> /\ UNCHANGED versions
       \/ \E i \in DOMAIN versions :
             versions[i].block.hash = h /\ versions' = SubSeq(versions, 1, i)
       \/ /\ versions # <<>> /\ versions[1].block.parent = h
          /\ \A i \in DOMAIN versions : versions[i].block.hash # h
          /\ versions' = <<>>
    /\ UNCHANGED base

Next ==
    \/ \E b \in Blocks : Open(b)
    \/ \E k \in Keys : \E v \in Values(k) : Put(k, v)
    \/ \E b \in Blocks : Finalize(b.number)
    \/ \E h \in Hashes : Revert(h)

Spec == Init /\ [][Next]_<<base, versions>>

=============================================================================
