--------------------------- MODULE ExtractorLemmas ---------------------------
(***************************************************************************)
(* Lemmas about the operators the extractor is built from: the types of    *)
(* the operators on block data, the drain of the reorg buffer, the shifts  *)
(* of the slices of the streamed chain, and the initial states.            *)
(***************************************************************************)
EXTENDS ProtocolExtractor, IndexLemmas

\* The last change of a key by a block's transactions is one of the change kinds.
LEMMA EffectType ==
    ASSUME NEW txs \in Seq(Txs), NEW k \in Keys
    PROVE  Effect(txs, k) \in Kinds
<1> DEFINE i == LastIndex(txs, {j \in DOMAIN txs : txs[j].chg[k] # "none"})
<1>1. i \in 0 .. Len(txs)  BY LastIndexFound
<1>2. CASE i = 0  BY <1>2 DEF Effect, Kinds
<1>3. CASE i # 0
  <2>1. txs[i] \in Txs  BY <1>1, <1>3
  <2>2. txs[i].chg[k] \in Kinds  BY <2>1, ConstantsAssumption
  <2> QED  BY <1>3, <2>2 DEF Effect
<1> QED  BY <1>2, <1>3

\* The aggregated change of a key (into_aggregated).
LEMMA DeltaType ==
    ASSUME NEW b \in Block, NEW k \in Keys
    PROVE  Delta(b, k) \in Int
<1>1. b.txs \in Seq(Txs) /\ b.hash \in Nat  BY DEF Block
<1>2. Effect(b.txs, k) \in Kinds  BY <1>1, EffectType
<1> QED  BY <1>1, <1>2 DEF Delta, None, Kinds

\* The value the database holds for a key.
LEMMA ValueAtType ==
    ASSUME NEW blocks \in Seq(Block), NEW k \in Keys
    PROVE  ValueAt(blocks, k) \in Int
<1> DEFINE i == LastIndex(blocks, {j \in DOMAIN blocks : Delta(blocks[j], k) # None})
<1>1. i \in 0 .. Len(blocks)  BY LastIndexFound
<1>2. CASE i = 0  BY <1>2 DEF ValueAt
<1>3. CASE i # 0
  <2>1. blocks[i] \in Block  BY <1>1, <1>3
  <2> QED  BY <1>3, <2>1, DeltaType DEF ValueAt
<1> QED  BY <1>2, <1>3

\* The value the reorg buffer's lookups return for a key.
LEMMA LookupType ==
    ASSUME NEW blocks \in Seq(Block), NEW k \in Keys
    PROVE  Lookup(blocks, k) \in Int
<1> DEFINE i == LastIndex(blocks, {j \in DOMAIN blocks : Writes(blocks[j], k)})
<1>1. i \in 0 .. Len(blocks)  BY LastIndexFound
<1>2. CASE i = 0  BY <1>2 DEF Lookup, None
<1>3. CASE i # 0
  <2>1. blocks[i] \in Block  BY <1>1, <1>3
  <2> QED  BY <1>3, <2>1 DEF Lookup, Block
<1> QED  BY <1>2, <1>3

\* The message process_full_block_message builds is a message.
LEMMA UpdateMessageType ==
    ASSUME NEW b \in Block, NEW part \in Int, NEW height \in Int
    PROVE  UpdateMessage(b, part, height) \in Msg
<1>1. [k \in Keys |-> Delta(b, k)] \in [Keys -> Int]  BY DeltaType
<1> QED  BY <1>1 DEF UpdateMessage, Message, Msg

\* The changes handle_revert puts into its message.
LEMMA RevertDeltaType ==
    ASSUME NEW reverted, NEW buf \in Seq(Block), db \in Seq(Block)
    PROVE  RevertDelta(reverted, buf) \in [Keys -> Int]
<1> SUFFICES ASSUME NEW k \in Keys
             PROVE  RevertDelta(reverted, buf)[k] \in Int
  BY Zenon DEF RevertDelta
<1>1. Previous(buf, k) \in Int  BY ValueAtType, LookupType DEF Previous
<1>2. RevertAttr(reverted, buf, k) \in Int  BY <1>1 DEF RevertAttr, None
<1>3. RevertBalance(reverted, buf, k) \in Int  BY <1>1 DEF RevertBalance, None
<1>4. RevertSlot(reverted, buf, k) \in Int  BY <1>1 DEF RevertSlot, None
<1>5. RevertAccBalance(reverted, buf, k) \in Int  BY <1>1 DEF RevertAccBalance, None
<1> QED  BY <1>2, <1>3, <1>4, <1>5 DEF RevertDelta, Keys

\* What drain_blocks_until takes from an ordered, non-empty buffer lies below
\* the final height, and the newest block stays.
LEMMA DrainSplits ==
    ASSUME NEW buf \in Seq(Block), NEW f \in Nat, buf # <<>>,
           \A i, j \in 1 .. Len(buf) : i < j => buf[i].number < buf[j].number
    PROVE  \E c \in 0 .. Len(buf) - 1 :
              /\ ToCommit(buf, f) \in Seq(Block) /\ ToKeep(buf, f) \in Seq(Block)
              /\ Len(ToCommit(buf, f)) = c /\ Len(ToKeep(buf, f)) = Len(buf) - c
              /\ \A i \in 1 .. c : ToCommit(buf, f)[i] = buf[i] /\ buf[i].number < f
              /\ \A i \in 1 .. Len(buf) - c : ToKeep(buf, f)[i] = buf[c + i]
<1> DEFINE n == FindNumber(buf, f)
           c == IF Due(buf, f) THEN DrainCount(buf, f) ELSE 0
<1>1. /\ n \in 0 .. Len(buf)
      /\ n # 0 => n \in {j \in DOMAIN buf : buf[j].number = f}
  BY FirstIndexFound DEF FindNumber
<1>2. DrainCount(buf, f) \in 0 .. Len(buf) - 1
  BY <1>1 DEF DrainCount
<1>3. c \in 0 .. Len(buf) - 1
  BY <1>2
<1>4. ASSUME NEW i \in 1 .. c PROVE buf[i].number < f
  <2>1. n # 0 /\ i < n /\ i \in 1 .. Len(buf) /\ n \in 1 .. Len(buf)
    BY <1>1, <1>3 DEF DrainCount
  <2>2. buf[i].number < buf[n].number  BY <2>1
  <2> QED  BY <1>1, <2>1, <2>2
<1>5. ToCommit(buf, f) = SubSeq(buf, 1, c)
  <2>1. SubSeq(buf, 1, 0) = <<>>  BY SubSeqEmpty
  <2> QED  BY <2>1, Zenon DEF ToCommit, Drained
<1>6. ToKeep(buf, f) = SubSeq(buf, c + 1, Len(buf))
  <2>1. CASE Due(buf, f)  BY <2>1, Zenon DEF ToKeep, Retained
  <2>2. CASE ~Due(buf, f)
    <3>1. SubSeq(buf, 1, Len(buf)) = buf  BY SubSeqFull
    <3>2. c + 1 = 1  BY <2>2
    <3> QED  BY <2>2, <3>1, <3>2 DEF ToKeep
  <2> QED  BY <2>1, <2>2
<1>7. /\ SubSeq(buf, 1, c) \in Seq(Block)
      /\ Len(SubSeq(buf, 1, c)) = c
      /\ \A i \in 1 .. c : SubSeq(buf, 1, c)[i] = buf[i]
  BY <1>3, SubSeqFacts
<1>8. /\ SubSeq(buf, c + 1, Len(buf)) \in Seq(Block)
      /\ Len(SubSeq(buf, c + 1, Len(buf))) = Len(buf) - c
      /\ \A i \in 1 .. Len(buf) - c : SubSeq(buf, c + 1, Len(buf))[i] = buf[c + i]
  <2>1. c + 1 \in Nat /\ c + 1 >= 1 /\ c + 1 <= Len(buf) + 1 /\ Len(buf) \in Nat
    BY <1>3
  <2>2. Len(buf) - (c + 1) + 1 = Len(buf) - c  BY <1>3
  <2>3. \A i \in 1 .. Len(buf) - c : c + 1 + i - 1 = c + i  BY <1>3
  <2> HIDE DEF c
  <2>4. /\ SubSeq(buf, c + 1, Len(buf)) \in Seq(Block)
        /\ Len(SubSeq(buf, c + 1, Len(buf))) = Len(buf) - (c + 1) + 1
        /\ \A i \in 1 .. Len(buf) - (c + 1) + 1 :
              SubSeq(buf, c + 1, Len(buf))[i] = buf[c + 1 + i - 1]
    BY <2>1, SubSeqFacts
  <2> QED  BY <2>2, <2>3, <2>4
<1> HIDE DEF c
<1> QED  BY <1>3, <1>4, <1>5, <1>6, <1>7, <1>8, Zenon

\* ProtocolExtractor::new on an empty database.
LEMMA InitIndInv == Init => IndInv
<1> SUFFICES ASSUME Init PROVE IndInv  OBVIOUS
<1>1. NoBlock \in Block /\ NoTask \in Task /\ Genesis \in [hash : Nat, number : Nat]
  BY ConstantsAssumption DEF NoBlock, NoTask, Genesis, Block, Task, None
<1>2. TypeOK
  <2>1. chain \in Seq(Block) /\ batch \in Seq(Block) /\ buffer \in Seq(Block)
    BY DEF Init
  <2>2. openTx \in Seq(Block) /\ db \in Seq(Block) /\ out \in Seq(Msg)
    BY DEF Init
  <2>3. partial \in Seq(Partial) /\ Len(partial) <= 1
    BY DEF Init
  <2>4. cur \in [block : Block, final : Nat] /\ task \in Task /\ tip \in [hash : Nat, number : Nat]
    BY <1>1 DEF Init
  <2>5. pos \in 0 .. Len(chain) /\ fin \in Nat /\ last \in Int /\ committed \in Int
    BY ConstantsAssumption DEF Init, None
  <2> QED  BY <2>1, <2>2, <2>3, <2>4, <2>5, Zenon DEF Init, TypeOK
<1>3. Ordered /\ Hashed /\ FinalOutsideBuffer
  BY DEF Init, Ordered, Hashed, FinalOutsideBuffer
<1>4. Conveyor
  <2>1. /\ Len(db) = 0 /\ Len(openTx) = 0 /\ Len(task.blocks) = 0 /\ Len(batch) = 0
        /\ Len(buffer) = 0 /\ Len(chain) = 0 /\ pos = 0
    BY DEF Init, NoTask
  <2> QED  BY <2>1 DEF Conveyor, Stored, Slice
<1>5. Control /\ CommittedHanded
  BY DEF Init, Control, CommittedHanded, NoTask
<1> QED  BY <1>2, <1>3, <1>4, <1>5 DEF IndInv

\* The blocks of a sequence of blocks have natural heights and hashes.
LEMMA BlockFields ==
    ASSUME NEW s \in Seq(Block), NEW i \in 1 .. Len(s)
    PROVE  s[i] \in Block /\ s[i].number \in Nat /\ s[i].hash \in Nat
<1>1. s[i] \in Block  OBVIOUS
<1> QED  BY <1>1, SMTT(30) DEF Block

\* What appending a block to a sequence of blocks gives.
LEMMA AppendedBlock ==
    ASSUME NEW s \in Seq(Block), NEW b \in Block
    PROVE  /\ Append(s, b) \in Seq(Block) /\ Len(Append(s, b)) = Len(s) + 1
           /\ \A i \in 1 .. Len(s) : Append(s, b)[i] = s[i]
           /\ Append(s, b)[Len(s) + 1] = b
OBVIOUS

\* The indices of a sequence that is one element longer.
LEMMA OneMoreIndex ==
    ASSUME NEW n \in Nat
    PROVE  \A i \in 1 .. n + 1 : i \in 1 .. n \/ i = n + 1
OBVIOUS

\* The indices of a slice, shifted by its offset, are indices of the whole, and
\* the slice still fits when the whole grows.
LEMMA SliceIndices ==
    ASSUME NEW o \in Nat, NEW l \in Nat, NEW n \in Nat, NEW m \in Nat, o + l <= n, m >= n
    PROVE  (\A i \in 1 .. l : o + i \in 1 .. n) /\ o + l <= m
OBVIOUS

\* A number below another one is not above it and differs from it.
LEMMA LessDiffers ==
    ASSUME NEW x \in Nat, NEW y \in Nat, x < y
    PROVE  x <= y /\ x # y
OBVIOUS

\* What is at most y is below the successor of y.
LEMMA BelowSuccessor ==
    ASSUME NEW x \in Nat, NEW y \in Nat, NEW z \in Nat, x <= y, z = y + 1
    PROVE  x < z
OBVIOUS

\* The storages on the way to the database have a length.
LEMMA Lengths ==
    ASSUME IndInv
    PROVE  /\ Len(db) \in Nat /\ Len(openTx) \in Nat /\ Len(task.blocks) \in Nat
           /\ Len(batch) \in Nat /\ Len(buffer) \in Nat /\ Len(chain) \in Nat
           /\ Len(partial) \in Nat
<1>1. task.blocks \in Seq(Block)  BY DEF IndInv, TypeOK, Task
<1> QED  BY <1>1, SMTT(30) DEF IndInv, TypeOK

\* A block moved from the front of one slice of the chain to the end of the
\* slice before it leaves two adjacent slices.
LEMMA SliceShift ==
    ASSUME NEW S, NEW big \in Seq(S), NEW s \in Seq(S), NEW t \in Seq(S), NEW off \in Nat,
           Slice(s, big, off), Slice(t, big, off + Len(s)), t # <<>>
    PROVE  /\ Slice(Append(s, Head(t)), big, off)
           /\ Slice(Tail(t), big, off + Len(Append(s, Head(t))))
           /\ Len(Tail(t)) = Len(t) - 1 /\ Len(Append(s, Head(t))) = Len(s) + 1
           /\ Tail(t) \in Seq(S) /\ Append(s, Head(t)) \in Seq(S)
<1>1. Len(t) \in Nat /\ Len(t) >= 1 /\ Len(s) \in Nat /\ Len(big) \in Nat  OBVIOUS
<1>2. /\ Head(t) \in S /\ Head(t) = t[1] /\ Tail(t) \in Seq(S) /\ Len(Tail(t)) = Len(t) - 1
      /\ \A i \in 1 .. Len(t) - 1 : Tail(t)[i] = t[i + 1]
  BY <1>1
<1>3. /\ Append(s, Head(t)) \in Seq(S) /\ Len(Append(s, Head(t))) = Len(s) + 1
      /\ \A i \in 1 .. Len(s) : Append(s, Head(t))[i] = s[i]
      /\ Append(s, Head(t))[Len(s) + 1] = Head(t)
  BY <1>2
<1>4. /\ off + Len(s) + Len(t) <= Len(big)
      /\ \A i \in 1 .. Len(s) : s[i] = big[off + i]
      /\ \A i \in 1 .. Len(t) : t[i] = big[off + Len(s) + i]
  BY DEF Slice
<1>5. Slice(Append(s, Head(t)), big, off)
  <2>1. off + (Len(s) + 1) <= Len(big)  BY <1>1, <1>4
  <2>2. ASSUME NEW i \in 1 .. Len(s) + 1
        PROVE  Append(s, Head(t))[i] = big[off + i]
    <3>1. CASE i \in 1 .. Len(s)  BY <1>3, <1>4, <3>1, Zenon
    <3>2. CASE i = Len(s) + 1
      <4>1. t[1] = big[off + Len(s) + 1] /\ off + Len(s) + 1 = off + i  BY <1>1, <1>4, <3>2
      <4> QED  BY <1>2, <1>3, <3>2, <4>1
    <3> QED  BY <1>1, <3>1, <3>2
  <2> QED  BY <1>3, <2>1, <2>2, SMTT(30) DEF Slice
<1>6. Slice(Tail(t), big, off + (Len(s) + 1))
  <2>1. off + (Len(s) + 1) + (Len(t) - 1) <= Len(big)  BY <1>1, <1>4
  <2>2. ASSUME NEW i \in 1 .. Len(t) - 1
        PROVE  Tail(t)[i] = big[off + (Len(s) + 1) + i]
    <3>1. t[i + 1] = big[off + Len(s) + (i + 1)]  BY <1>1, <1>4
    <3>2. off + Len(s) + (i + 1) = off + (Len(s) + 1) + i  BY <1>1
    <3> QED  BY <1>2, <3>1, <3>2
  <2> QED  BY <1>2, <2>1, <2>2 DEF Slice
<1> QED  BY <1>2, <1>3, <1>5, <1>6

\* Two adjacent slices make one.
LEMMA SliceJoin ==
    ASSUME NEW S, NEW big \in Seq(S), NEW s \in Seq(S), NEW t \in Seq(S), NEW off \in Nat,
           Slice(s, big, off), Slice(t, big, off + Len(s))
    PROVE  /\ Slice(s \o t, big, off)
           /\ s \o t \in Seq(S) /\ Len(s \o t) = Len(s) + Len(t)
<1>1. Len(t) \in Nat /\ Len(s) \in Nat /\ Len(big) \in Nat  OBVIOUS
<1>2. /\ s \o t \in Seq(S) /\ Len(s \o t) = Len(s) + Len(t)
      /\ \A i \in 1 .. Len(s) + Len(t) :
            (s \o t)[i] = IF i <= Len(s) THEN s[i] ELSE t[i - Len(s)]
  OBVIOUS
<1>3. /\ off + Len(s) + Len(t) <= Len(big)
      /\ \A i \in 1 .. Len(s) : s[i] = big[off + i]
      /\ \A i \in 1 .. Len(t) : t[i] = big[off + Len(s) + i]
  BY DEF Slice
<1>4. off + (Len(s) + Len(t)) <= Len(big)  BY <1>1, <1>3
<1>5. ASSUME NEW i \in 1 .. Len(s) + Len(t)
      PROVE  (s \o t)[i] = big[off + i]
  <2>1. CASE i <= Len(s)  BY <1>1, <1>2, <1>3, <2>1
  <2>2. CASE ~(i <= Len(s))
    <3>1. i - Len(s) \in 1 .. Len(t)  BY <1>1, <2>2
    <3>2. t[i - Len(s)] = big[off + Len(s) + (i - Len(s))]  BY <1>3, <3>1
    <3>3. off + Len(s) + (i - Len(s)) = off + i  BY <1>1
    <3> QED  BY <1>2, <2>2, <3>2, <3>3
  <2> QED  BY <2>1, <2>2
<1> QED  BY <1>2, <1>4, <1>5 DEF Slice

\* The same for a part of the chain that starts at its first block.
LEMMA PrefixJoin ==
    ASSUME NEW s \in Seq(Block), NEW t \in Seq(Block), chain \in Seq(Block),
           Slice(s, chain, 0), Slice(t, chain, Len(s))
    PROVE  /\ Slice(s \o t, chain, 0)
           /\ s \o t \in Seq(Block) /\ Len(s \o t) = Len(s) + Len(t)
<1>1. 0 + Len(s) = Len(s)  OBVIOUS
<1>2. Slice(t, chain, 0 + Len(s))  BY <1>1
<1> QED  BY <1>2, SliceJoin

\* A slice of the chain that ends within a prefix is a slice of the prefix.
LEMMA SliceOfPrefix ==
    ASSUME NEW S, NEW big \in Seq(S), NEW s \in Seq(S), NEW off \in Nat, NEW n \in Nat,
           Slice(s, big, off), off + Len(s) <= n, n <= Len(big)
    PROVE  Slice(s, SubSeq(big, 1, n), off)
<1>1. Len(s) \in Nat /\ Len(big) \in Nat  OBVIOUS
<1>2. /\ Len(SubSeq(big, 1, n)) = n
      /\ \A i \in 1 .. n : SubSeq(big, 1, n)[i] = big[i]
  BY SubSeqFacts
<1>3. \A i \in 1 .. Len(s) : off + i \in 1 .. n  BY <1>1
<1> QED  BY <1>2, <1>3 DEF Slice

\* Hashes and heights of a prefix of the chain.
LEMMA PrefixKeepsOrder ==
    ASSUME NEW n \in 0 .. Len(chain), chain \in Seq(Block)
    PROVE  LET pre == SubSeq(chain, 1, n)
           IN  /\ pre \in Seq(Block) /\ Len(pre) = n
               /\ \A i \in 1 .. n : pre[i] = chain[i]
               /\ Ordered => \A i, j \in 1 .. n : i < j => pre[i].number < pre[j].number
               /\ Hashed => /\ \A i \in 1 .. n : pre[i].hash >= 1 /\ pre[i].hash < nextHash
                            /\ \A i, j \in 1 .. n : i # j => pre[i].hash # pre[j].hash
<1> DEFINE pre == SubSeq(chain, 1, n)
<1>1. /\ pre \in Seq(Block) /\ Len(pre) = n
      /\ \A i \in 1 .. n : pre[i] = chain[i]
  BY SubSeqFacts
<1>2. 1 .. n \subseteq 1 .. Len(chain)  OBVIOUS
<1> HIDE DEF pre
<1>3. Ordered => \A i, j \in 1 .. n : i < j => pre[i].number < pre[j].number
  BY <1>1, <1>2 DEF Ordered
<1>4. Hashed => /\ \A i \in 1 .. n : pre[i].hash >= 1 /\ pre[i].hash < nextHash
                /\ \A i, j \in 1 .. n : i # j => pre[i].hash # pre[j].hash
  BY <1>1, <1>2 DEF Hashed
<1> QED  BY <1>1, <1>3, <1>4, Zenon DEF pre

=============================================================================
