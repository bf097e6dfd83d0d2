----------------------- MODULE ProtocolExtractorProofs -----------------------
(***************************************************************************)
(* Theorems about ProtocolExtractor, for every value of the constants: the *)
(* inductive invariant from its preservation by each action, and the       *)
(* safety invariants that follow from it.                                  *)
(***************************************************************************)
EXTENDS ExtractorCommitProofs, ExtractorUndoProofs, ExtractorBlockProofs

\* The extractor's invariant does not depend on what is outside the extractor.
LEMMA StutterPreserves ==
    ASSUME IndInv, UNCHANGED vars
    PROVE  IndInv'
<1>1. UNCHANGED <<chain, pos, tip, fin, nextHash, empties, faults, mode, pc, cur, batch,
                  buffer, partial, cursor, last, first, out, task, committed, openTx, db>>
  BY DEF vars, provider, extractor, gateway
<1>2. TypeOK'  BY <1>1 DEF IndInv, TypeOK
<1>3. Ordered' /\ Hashed' /\ FinalOutsideBuffer' /\ CommittedHanded'
  BY <1>1 DEF IndInv, Ordered, Hashed, FinalOutsideBuffer, CommittedHanded, Handed
<1>4. Conveyor' /\ Control'
  BY <1>1, Zenon DEF IndInv, Conveyor, Stored, Slice, Control, Min
<1> QED  BY <1>2, <1>3, <1>4 DEF IndInv

\* The inductive invariant holds in every reachable state, for every choice of
\* transactions, start block, batch size and bounds on the environment.
THEOREM Invariance == Spec => []IndInv
<1>1. IndInv /\ [Next]_vars => IndInv'
  <2> SUFFICES ASSUME IndInv, [Next]_vars PROVE IndInv'  OBVIOUS
  <2>1. CASE DeliverBlock  BY <2>1, DeliverBlockPreserves
  <2>2. CASE DeliverEmpty  BY <2>2, DeliverEmptyPreserves
  <2>3. CASE DeliverPartial(FALSE)  BY <2>3, DeliverPartialPreserves, Zenon
  <2>4. CASE DeliverPartial(TRUE)  BY <2>4, DeliverPartialPreserves, Zenon
  <2>5. CASE JoinCommit  BY <2>5, JoinCommitPreserves
  <2>6. CASE Emit  BY <2>6, EmitPreserves
  <2>7. CASE Propagate  BY <2>7, PropagatePreserves
  <2>8. CASE Undo  BY <2>8, UndoPreserves
  <2>9. CASE CommitBlock  BY <2>9, CommitBlockPreserves
  <2>10. CASE CommitFails  BY <2>10, CommitFailsPreserves
  <2>11. CASE CommitDone  BY <2>11, CommitDonePreserves
  <2>12. CASE Restart  BY <2>12, RestartPreserves
  <2>13. CASE UNCHANGED vars  BY <2>13, StutterPreserves
  <2> QED  BY <2>1, <2>2, <2>3, <2>4, <2>5, <2>6, <2>7, <2>8, <2>9, <2>10, <2>11, <2>12,
              <2>13 DEF Next
<1> QED  BY <1>1, InitIndInv, PTL DEF Spec

\* Every variable of the extractor, its gateway and the provider keeps its type.
THEOREM TypeCorrect == Spec => []TypeOK
<1>1. IndInv => TypeOK  BY DEF IndInv
<1> QED  BY <1>1, Invariance, PTL

\* Whatever write fails and whenever the process restarts, the database holds
\* the canonical chain from the start block on, without a gap (advance and
\* process_full_block_message).
THEOREM NoGapInDb == Spec => []DbIsChainPrefix
<1>1. IndInv => DbIsChainPrefix  BY DEF IndInv, Conveyor, DbIsChainPrefix
<1> QED  BY <1>1, Invariance, PTL

\* No block is lost, doubled or reordered between the stream and the database.
THEOREM NothingLost == Spec => []Pipeline
<1>1. IndInv => Pipeline
  <2> SUFFICES ASSUME IndInv, task.state # "failed"
               PROVE  SubSeq(chain, 1, pos) = db \o openTx \o task.blocks \o batch \o buffer
    BY Zenon DEF Pipeline
  <2> DEFINE s1 == db \o openTx  s2 == s1 \o task.blocks  s3 == s2 \o batch  s4 == s3 \o buffer
  <2>1. /\ chain \in Seq(Block) /\ db \in Seq(Block) /\ openTx \in Seq(Block)
        /\ task.blocks \in Seq(Block) /\ batch \in Seq(Block) /\ buffer \in Seq(Block)
        /\ pos \in Nat /\ pos <= Len(chain)
    <3>1. task.blocks \in Seq(Block)  BY DEF IndInv, TypeOK, Task
    <3> QED  BY <3>1 DEF IndInv, TypeOK
  <2>2. /\ Slice(db, chain, 0) /\ Slice(openTx, chain, Len(db))
        /\ Slice(task.blocks, chain, Len(db) + Len(openTx))
        /\ Slice(batch, chain, pos - Len(buffer) - Len(batch))
        /\ Slice(buffer, chain, pos - Len(buffer))
        /\ Len(db) + Len(openTx) + Len(task.blocks) = pos - Len(buffer) - Len(batch)
    BY Zenon DEF IndInv, Conveyor, Stored
  <2>3. Slice(s1, chain, 0) /\ s1 \in Seq(Block) /\ Len(s1) = Len(db) + Len(openTx)
    BY <2>1, <2>2, PrefixJoin
  <2> HIDE DEF s1
  <2>4. Slice(s2, chain, 0) /\ s2 \in Seq(Block) /\ Len(s2) = Len(s1) + Len(task.blocks)
    <3>1. Slice(task.blocks, chain, Len(s1))  BY <2>2, <2>3, Zenon
    <3> QED  BY <2>1, <2>3, <3>1, PrefixJoin, Zenon
  <2> HIDE DEF s2
  <2>5. Len(s2) = pos - Len(buffer) - Len(batch) /\ Len(s2) \in Nat
    <3>1. Len(s2) = Len(db) + Len(openTx) + Len(task.blocks)  BY <2>3, <2>4, Zenon
    <3>2. Len(s2) \in Nat  BY <2>4
    <3> QED  BY <2>2, <3>1, <3>2, Zenon
  <2>6. Slice(s3, chain, 0) /\ s3 \in Seq(Block) /\ Len(s3) = Len(s2) + Len(batch)
    <3>1. Slice(batch, chain, Len(s2))  BY <2>2, <2>5, Zenon
    <3> QED  BY <2>1, <2>4, <3>1, PrefixJoin, Zenon
  <2> HIDE DEF s3
  <2>7. Len(s3) = pos - Len(buffer) /\ Len(s3) \in Nat
    <3>1. Len(buffer) \in Nat /\ Len(batch) \in Nat  BY <2>1
    <3> QED  BY <2>1, <2>5, <2>6, <3>1
  <2>8. Slice(s4, chain, 0) /\ s4 \in Seq(Block) /\ Len(s4) = Len(s3) + Len(buffer)
    <3>1. Slice(buffer, chain, Len(s3))  BY <2>2, <2>7, Zenon
    <3> QED  BY <2>1, <2>6, <3>1, PrefixJoin, Zenon
  <2> HIDE DEF s4
  <2>9. Len(s4) = pos
    <3>1. Len(buffer) \in Nat  BY <2>1
    <3> QED  BY <2>1, <2>7, <2>8, <3>1
  <2>10. /\ SubSeq(chain, 1, pos) \in Seq(Block) /\ Len(SubSeq(chain, 1, pos)) = pos
         /\ \A i \in 1 .. pos : SubSeq(chain, 1, pos)[i] = chain[i]
    BY <2>1, SubSeqFacts
  <2>11. \A i \in 1 .. pos : s4[i] = chain[i]
    <3>1. \A i \in 1 .. pos : s4[i] = chain[0 + i]  BY <2>8, <2>9 DEF Slice
    <3>2. \A i \in 1 .. pos : 0 + i = i  OBVIOUS
    <3> QED  BY <3>1, <3>2
  <2>12. SubSeq(chain, 1, pos) = s4
    BY <2>8, <2>9, <2>10, <2>11, SeqEqual, SMTT(30)
  <2> QED  BY <2>12, Zenon DEF s1, s2, s3, s4
<1> QED  BY <1>1, Invariance, PTL

\* Only blocks below the final height leave the reorg buffer, which is what lets
\* into_runner resume after the last persisted block without a cursor.
THEOREM FinalityOfDrained == Spec => []OnlyFinalLeavesBuffer
<1>1. IndInv => OnlyFinalLeavesBuffer
  <2> SUFFICES ASSUME IndInv PROVE OnlyFinalLeavesBuffer  OBVIOUS
  <2>1. ASSUME NEW s, NEW o \in Nat, Slice(s, chain, o), Len(s) \in Nat,
               o + Len(s) <= pos - Len(buffer)
        PROVE  \A i \in 1 .. Len(s) : s[i].number < fin
    <3>1. pos - Len(buffer) \in Int  BY Lengths DEF IndInv, TypeOK
    <3>2. \A i \in 1 .. Len(s) : o + i \in 1 .. pos - Len(buffer)  BY <2>1, <3>1
    <3>3. \A i \in 1 .. Len(s) : s[i] = chain[o + i]  BY <2>1 DEF Slice
    <3> QED  BY <3>2, <3>3 DEF IndInv, FinalOutsideBuffer
  <2> DEFINE a == Len(db)  b == Len(openTx)  c == Len(task.blocks)
             d == Len(buffer)  e == Len(batch)
  <2>2. /\ a \in Nat /\ b \in Nat /\ c \in Nat /\ d \in Nat /\ e \in Nat /\ pos \in Nat
        /\ a + b + c <= pos - d - e
    <3>1. a + b + c <= pos - d - e  BY Zenon DEF IndInv, Conveyor, Stored
    <3>2. pos \in Nat  BY DEF IndInv, TypeOK
    <3> QED  BY <3>1, <3>2, Lengths, Zenon
  <2>3. /\ Slice(db, chain, 0) /\ Slice(openTx, chain, a) /\ Slice(task.blocks, chain, a + b)
        /\ Slice(batch, chain, pos - d - e)
    BY DEF IndInv, Conveyor
  <2> HIDE DEF a, b, c, d, e
  <2>4. /\ 0 + a <= pos - d /\ a + b <= pos - d /\ a + b + c <= pos - d
        /\ pos - d - e + e <= pos - d /\ pos - d - e \in Nat /\ a + b \in Nat
    BY <2>2
  <2>5. \A i \in 1 .. Len(db) : db[i].number < fin
    BY <2>1, <2>2, <2>3, <2>4, Zenon DEF a, b, c, d, e
  <2>6. \A i \in 1 .. Len(openTx) : openTx[i].number < fin
    BY <2>1, <2>2, <2>3, <2>4, Zenon DEF a, b, c, d, e
  <2>7. \A i \in 1 .. Len(task.blocks) : task.blocks[i].number < fin
    BY <2>1, <2>2, <2>3, <2>4, Zenon DEF a, b, c, d, e
  <2>8. \A i \in 1 .. Len(batch) : batch[i].number < fin
    BY <2>1, <2>2, <2>3, <2>4, Zenon DEF a, b, c, d, e
  <2> QED  BY <2>5, <2>6, <2>7, <2>8 DEF OnlyFinalLeavesBuffer
<1> QED  BY <1>1, Invariance, PTL

\* The reorg buffer always holds the target of an undo signal, so purge in
\* handle_revert finds it, whatever has been drained since it was delivered.
THEOREM UndoFindsTarget == Spec => []UndoTargetIsBuffered
<1>1. IndInv => UndoTargetIsBuffered
  <2> SUFFICES ASSUME IndInv, first, NEW t \in UndoTargets, t # Genesis
               PROVE  ~PurgeFails(buffer, t.hash)
    BY DEF UndoTargetIsBuffered
  <2>1. PICK i \in 1 .. pos : t = BlockRef(chain[i]) /\ t.number >= fin
    BY DEF UndoTargets
  <2> DEFINE j == i - (pos - Len(buffer))
  <2>2. /\ chain \in Seq(Block) /\ buffer \in Seq(Block) /\ fin \in Nat
        /\ pos \in Nat /\ pos <= Len(chain) /\ Len(buffer) \in Nat /\ Len(chain) \in Nat
    BY SMTT(30) DEF IndInv, TypeOK
  <2>3. pos - Len(buffer) >= 0
    <3>1. Len(db) + Len(openTx) + Len(task.blocks) <= pos - Len(buffer) - Len(batch)
      BY Zenon DEF IndInv, Conveyor, Stored
    <3>2. \A a, b, c, d, e, q \in Nat : a + b + c <= q - d - e => q - d >= 0  OBVIOUS
    <3> QED  BY <2>2, <3>1, <3>2, Lengths, Zenon
  <2>4. ~(i \in 1 .. pos - Len(buffer))
    <3> SUFFICES ASSUME i \in 1 .. pos - Len(buffer) PROVE FALSE  OBVIOUS
    <3>1. chain[i].number < fin  BY DEF IndInv, FinalOutsideBuffer
    <3>2. chain[i].number >= fin  BY <2>1 DEF BlockRef
    <3>3. i \in 1 .. Len(chain)  BY <2>2
    <3>4. chain[i].number \in Nat  BY <2>2, <3>3, BlockFields
    <3> QED  BY <2>2, <3>1, <3>2, <3>4
  <2>5. j \in 1 .. Len(buffer) /\ pos - Len(buffer) + j = i
    BY <2>2, <2>3, <2>4
  <2> HIDE DEF j
  <2>6. \A m \in 1 .. Len(buffer) :
           buffer[m] = chain[pos - Len(buffer) + m] /\ pos - Len(buffer) + m \in 1 .. Len(chain)
    <3>1. \A m \in 1 .. Len(buffer) : buffer[m] = chain[pos - Len(buffer) + m]
      BY DEF IndInv, Conveyor, Slice
    <3>2. \A m \in 1 .. Len(buffer) : pos - Len(buffer) + m \in 1 .. Len(chain)
      BY <2>2, <2>3
    <3> QED  BY <3>1, <3>2
  <2>7. buffer[j].hash = t.hash
    BY <2>1, <2>5, <2>6 DEF BlockRef
  <2>8. ASSUME NEW m \in j + 1 .. Len(buffer) PROVE buffer[m].hash # t.hash
    <3>1. m \in 1 .. Len(buffer) /\ pos - Len(buffer) + m # pos - Len(buffer) + j
      BY <2>2, <2>5
    <3>2. \A x, y \in 1 .. Len(chain) : x # y => chain[x].hash # chain[y].hash
      BY DEF IndInv, Hashed
    <3> QED  BY <2>5, <2>6, <2>7, <3>1, <3>2, SMTT(30)
  <2> DEFINE I == {m \in DOMAIN buffer : buffer[m].hash = t.hash}
             IsLast(x) == x \in I /\ \A y \in x + 1 .. Len(buffer) : y \notin I
  <2>9. j \in DOMAIN buffer /\ IsLast(j)
    BY <2>2, <2>5, <2>7, <2>8
  <2>10. LastIndex(buffer, I) = CHOOSE x \in DOMAIN buffer : IsLast(x)
    BY <2>9, Zenon DEF LastIndex
  <2>11. LastIndex(buffer, I) \in DOMAIN buffer
    <3> HIDE DEF I, IsLast
    <3> QED  BY <2>9, <2>10
  <2>12. FindHash(buffer, t.hash) # 0
    <3>1. FindHash(buffer, t.hash) = LastIndex(buffer, I)  BY DEF FindHash
    <3> HIDE DEF I
    <3> QED  BY <2>2, <2>11, <3>1
  <2> QED  BY <2>12 DEF PurgeFails
<1> QED  BY <1>1, Invariance, PTL

\* The committed height that goes into a message is below the message's final
\* height, so into_aggregated never refuses a block.
THEOREM CommittedIsFinal == Spec => []CommittedBelowFinality
<1>1. IndInv => CommittedBelowFinality
  <2> SUFFICES ASSUME IndInv, pc = "emit" PROVE committed < cur.final
    BY DEF CommittedBelowFinality
  <2>1. /\ buffer # <<>> /\ cur.block = buffer[Len(buffer)]
        /\ cur.final = Min(fin, cur.block.number)
    BY DEF IndInv, Control
  <2>2. /\ chain \in Seq(Block) /\ buffer \in Seq(Block) /\ fin \in Nat
        /\ pos \in Nat /\ pos <= Len(chain) /\ Len(buffer) \in Nat /\ Len(chain) \in Nat
        /\ Len(batch) \in Nat
    BY DEF IndInv, TypeOK
  <2>3. Len(buffer) \in 1 .. Len(buffer)  BY <2>1, <2>2
  <2>4. cur.block = chain[pos]
    <3>1. buffer[Len(buffer)] = chain[pos - Len(buffer) + Len(buffer)]
      BY <2>3 DEF IndInv, Conveyor, Slice
    <3>2. pos - Len(buffer) + Len(buffer) = pos  BY <2>2
    <3> QED  BY <2>1, <3>1, <3>2, SMTT(30)
  <2>5. cur.block.number \in Nat  BY DEF IndInv, TypeOK, Block
  <2>6. CASE committed = None
    BY <2>1, <2>2, <2>5, <2>6 DEF Min, None
  <2>7. CASE Handed(committed)
    <3>1. PICK i \in 1 .. pos - Len(buffer) - Len(batch) : chain[i].number = committed
      BY <2>7 DEF Handed
    <3>2. /\ i \in 1 .. pos - Len(buffer) /\ i < pos
          /\ i \in 1 .. Len(chain) /\ pos \in 1 .. Len(chain)
      BY <2>2, <2>3
    <3>3. committed < fin  BY <3>1, <3>2 DEF IndInv, FinalOutsideBuffer
    <3>4. committed < cur.block.number  BY <2>4, <3>1, <3>2 DEF IndInv, Ordered
    <3> QED  BY <2>1, <3>3, <3>4 DEF Min
  <2> QED  BY <2>6, <2>7 DEF IndInv, CommittedHanded
<1> QED  BY <1>1, Invariance, PTL

=============================================================================
