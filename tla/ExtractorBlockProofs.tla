------------------------ MODULE ExtractorBlockProofs -------------------------
(***************************************************************************)
(* The delivery of a block, of a partial block and of an empty block       *)
(* preserves the inductive invariant.                                      *)
(***************************************************************************)
EXTENDS ExtractorLemmas

\* A message without a block moves only the cursor.
LEMMA DeliverEmptyPreserves == IndInv /\ DeliverEmpty => IndInv'
<1> SUFFICES ASSUME IndInv, DeliverEmpty PROVE IndInv'  OBVIOUS
<1>1. /\ UNCHANGED <<chain, pos, fin, faults, mode, pc, cur, batch, buffer, partial>>
      /\ UNCHANGED <<last, out, task, committed, openTx, db>>
      /\ tip' = [hash |-> nextHash, number |-> tip.number + 1]
      /\ nextHash' = nextHash + 1 /\ empties' = empties + 1 /\ cursor' = nextHash
      /\ first' = TRUE /\ partial = <<>>
  BY Zenon DEF DeliverEmpty, gateway
<1>2. nextHash \in Nat /\ tip.number \in Nat /\ empties \in Nat  BY DEF IndInv, TypeOK
<1>3. TypeOK'
  <2>1. /\ tip' \in [hash : Nat, number : Nat] /\ nextHash' \in Nat
        /\ empties' \in Nat /\ cursor' \in Nat
    BY <1>1, <1>2
  <2> QED  BY <1>1, <2>1 DEF IndInv, TypeOK
<1>4. Ordered'
  <2>1. tip'.number = tip.number + 1  BY <1>1
  <2>2. \A i \in 1 .. pos : chain[i].number \in Nat
    <3>1. \A i \in 1 .. pos : chain[i] \in Block  BY SMTT(30) DEF IndInv, TypeOK
    <3> QED  BY <3>1 DEF Block
  <2> QED  BY <1>1, <1>2, <2>1, <2>2 DEF IndInv, Ordered
<1>5. Hashed'
  <2>1. \A i \in 1 .. Len(chain) : chain[i].hash \in Nat
    <3>1. \A i \in 1 .. Len(chain) : chain[i] \in Block  BY DEF IndInv, TypeOK
    <3> QED  BY <3>1 DEF Block
  <2>2. Len(partial) = 0  BY <1>1
  <2> QED  BY <1>1, <1>2, <2>1, <2>2 DEF IndInv, Hashed
<1>6. FinalOutsideBuffer' /\ CommittedHanded'
  BY <1>1 DEF IndInv, FinalOutsideBuffer, CommittedHanded, Handed
<1>7. Conveyor'
  BY <1>1, Zenon DEF IndInv, Conveyor, Stored, Slice
<1>8. Control'
  BY <1>1 DEF IndInv, Control, Min
<1> QED  BY <1>3, <1>4, <1>5, <1>6, <1>7, <1>8 DEF IndInv

\* No partial block is left and there is a message to emit.
Handled ==
    partial' = <<>> /\ out' \in Seq(Msg) /\ cursor' \in Nat /\ first' \in BOOLEAN

\* process_full_block_message up to the join: whatever part of the reorg buffer
\* is drained, the blocks stay in their places and below the final height.
LEMMA InsertPreserves ==
    ASSUME IndInv, Ready, NEW b \in Block, NEW f \in Nat, Streamed(b), InsertAndDrain(b, f),
           fin' \in Nat, fin' >= fin, f = Min(fin', b.number),
           pos < Len(chain) => b = chain[pos + 1],
           pos = Len(chain) => b.hash = nextHash /\ b.number = tip.number + 1,
           Handled, UNCHANGED gateway
    PROVE  IndInv'
<1> DEFINE buf == InsertBlock(buffer, b)
           off == pos - Len(buffer)
           L == Len(buffer)
<1>1. /\ pos' = pos + 1 /\ tip' = [hash |-> b.hash, number |-> b.number]
      /\ chain' = (IF pos < Len(chain) THEN chain ELSE Append(chain, b))
      /\ nextHash' = (IF pos < Len(chain) THEN nextHash ELSE nextHash + 1)
      /\ UNCHANGED <<empties, faults>>
  BY Zenon DEF Streamed
<1>2. /\ cur' = [block |-> b, final |-> f] /\ batch' = ToCommit(buf, f)
      /\ buffer' = ToKeep(buf, f) /\ pc' = (IF batch' = <<>> THEN "emit" ELSE "join")
      /\ UNCHANGED <<mode, last>>
  BY Zenon DEF InsertAndDrain
<1>3. UNCHANGED <<task, committed, openTx, db>>  BY DEF gateway
<1>4. /\ chain \in Seq(Block) /\ buffer \in Seq(Block) /\ Len(chain) \in Nat /\ L \in Nat
      /\ pos \in Nat /\ pos <= Len(chain) /\ nextHash \in Nat /\ fin \in Nat
      /\ tip.number \in Nat /\ b.number \in Nat /\ b.hash \in Nat
  <2>1. b.number \in Nat /\ b.hash \in Nat  BY DEF Block
  <2>2. TypeOK  BY DEF IndInv
  <2>3. tip.number \in Nat  BY <2>2 DEF TypeOK
  <2>4. chain \in Seq(Block) /\ buffer \in Seq(Block) /\ pos \in 0 .. Len(chain)
    BY <2>2, Zenon DEF TypeOK
  <2>5. nextHash \in Nat /\ fin \in Nat  BY <2>2, Zenon DEF TypeOK
  <2> QED  BY <2>1, <2>3, <2>4, <2>5
<1>5. batch = <<>> /\ Len(batch) = 0
  BY DEF IndInv, Control, Ready
<1>6. /\ off \in Nat /\ Stored <= off /\ (task.state # "failed" => Stored = off)
      /\ off - 0 = off
  <2>1. /\ Len(db) \in Nat /\ Len(openTx) \in Nat /\ Len(task.blocks) \in Nat
    BY Lengths, Zenon
  <2>2. Stored \in Nat
    <3>1. \A x, y, z \in Nat : x + y + z \in Nat  OBVIOUS
    <3> QED  BY <2>1, <3>1, Zenon DEF Stored
  <2>3. /\ Stored <= pos - L - 0
        /\ task.state # "failed" => Stored = pos - L - 0
    BY <1>5 DEF IndInv, Conveyor
  <2> HIDE DEF L
  <2>4. pos - L \in Int /\ pos - L - 0 = pos - L  BY <1>4, SMTT(30)
  <2> QED  BY <2>2, <2>3, <2>4 DEF L
<1>7. /\ chain' \in Seq(Block) /\ Len(chain') \in Nat
      /\ Len(chain') = IF pos < Len(chain) THEN Len(chain) ELSE pos + 1
      /\ \A i \in 1 .. Len(chain) : chain'[i] = chain[i]
      /\ chain'[pos + 1] = b
  <2>1. CASE pos < Len(chain)  BY <1>1, <1>4, <2>1
  <2>2. CASE ~(pos < Len(chain))
    <3>1. pos = Len(chain) /\ chain' = Append(chain, b)  BY <1>1, <1>4, <2>2
    <3> QED  BY <1>4, <2>2, <3>1
  <2> QED  BY <2>1, <2>2
<1>8. Len(chain') >= pos + 1 /\ Len(chain') >= Len(chain)
  BY <1>4, <1>7, SMTT(30)
<1>9. \A i, j \in 1 .. Len(chain') : i < j => chain'[i].number < chain'[j].number
  <2>1. CASE pos < Len(chain)
    BY <1>7, <2>1 DEF IndInv, Ordered
  <2>2. CASE ~(pos < Len(chain))
    <3>1. pos = Len(chain) /\ Len(chain') = pos + 1 /\ b.number = tip.number + 1
      BY <1>4, <1>7, <2>2
    <3>2. ASSUME NEW i \in 1 .. pos + 1, NEW j \in 1 .. pos + 1, i < j
          PROVE  chain'[i].number < chain'[j].number
      <4>1. i \in 1 .. pos /\ chain'[i] = chain[i]  BY <1>4, <1>7, <3>1, <3>2, SMTT(30)
      <4>2. CASE j \in 1 .. pos
        <5>1. chain'[j] = chain[j]  BY <1>7, <3>1, <4>2
        <5> QED  BY <3>1, <3>2, <4>1, <4>2, <5>1 DEF IndInv, Ordered
      <4>3. CASE j = pos + 1
        <5>1. chain[i].number <= tip.number  BY <4>1 DEF IndInv, Ordered
        <5>2. chain[i].number \in Nat  BY <1>4, <3>1, <4>1, BlockFields
        <5>3. chain[i].number < b.number
          BY <1>4, <3>1, <5>1, <5>2, BelowSuccessor, Zenon
        <5> QED  BY <1>7, <4>1, <4>3, <5>3
      <4> QED  BY <1>4, <4>2, <4>3
    <3> QED  BY <3>1, <3>2
  <2> QED  BY <2>1, <2>2
<1>10. /\ buf \in Seq(Block) /\ Len(buf) = L + 1
       /\ \A i \in 1 .. L + 1 : buf[i] = chain'[off + i]
       /\ buf[L + 1] = b
  <2>1. /\ buf \in Seq(Block) /\ Len(buf) = L + 1
        /\ \A i \in 1 .. L : buf[i] = buffer[i]
        /\ buf[L + 1] = b
    BY <1>4, AppendedBlock, Zenon DEF InsertBlock
  <2>2. \A i \in 1 .. L : buffer[i] = chain[off + i]
    BY DEF IndInv, Conveyor, Slice
  <2> HIDE DEF buf, L
  <2>3. off = pos - L  BY DEF L
  <2> HIDE DEF off
  <2>4. ASSUME NEW i \in 1 .. L + 1 PROVE buf[i] = chain'[off + i]
    <3>1. CASE i \in 1 .. L
      <4>1. off + i \in 1 .. Len(chain)  BY <1>4, <1>6, <2>3, <3>1
      <4> QED  BY <1>7, <2>1, <2>2, <3>1, <4>1, Zenon
    <3>2. CASE i = L + 1
      <4>1. off + i = pos + 1  BY <1>4, <2>3, <3>2
      <4> QED  BY <1>7, <2>1, <3>2, <4>1, Zenon
    <3> QED  BY <1>4, <3>1, <3>2, SMTT(30)
  <2> QED  BY <2>1, <2>4
<1>11. \A i, j \in 1 .. Len(buf) : i < j => buf[i].number < buf[j].number
  <2> HIDE DEF buf, L
  <2>1. off = pos - L  BY DEF L
  <2> HIDE DEF off
  <2>2. ASSUME NEW i \in 1 .. L + 1, NEW j \in 1 .. L + 1, i < j
        PROVE  buf[i].number < buf[j].number
    <3>1. /\ off + i \in 1 .. Len(chain') /\ off + j \in 1 .. Len(chain')
          /\ off + i < off + j
      BY <1>4, <1>6, <1>7, <1>8, <2>1, <2>2, SMTT(30)
    <3>2. buf[i] = chain'[off + i] /\ buf[j] = chain'[off + j]  BY <1>10
    <3> QED  BY <1>9, <3>1, <3>2
  <2> QED  BY <1>10, <2>2
<1> HIDE DEF buf
<1>12. PICK c \in 0 .. Len(buf) - 1 :
          /\ batch' \in Seq(Block) /\ buffer' \in Seq(Block)
          /\ Len(batch') = c /\ Len(buffer') = Len(buf) - c
          /\ \A i \in 1 .. c : batch'[i] = buf[i] /\ buf[i].number < f
          /\ \A i \in 1 .. Len(buf) - c : buffer'[i] = buf[c + i]
  <2>1. buf # <<>>  BY <1>4, <1>10
  <2>2. \E c \in 0 .. Len(buf) - 1 :
              /\ ToCommit(buf, f) \in Seq(Block) /\ ToKeep(buf, f) \in Seq(Block)
              /\ Len(ToCommit(buf, f)) = c /\ Len(ToKeep(buf, f)) = Len(buf) - c
              /\ \A i \in 1 .. c : ToCommit(buf, f)[i] = buf[i] /\ buf[i].number < f
              /\ \A i \in 1 .. Len(buf) - c : ToKeep(buf, f)[i] = buf[c + i]
    BY <1>10, <1>11, <2>1, DrainSplits, Zenon
  <2> QED  BY <1>2, <2>2
<1> HIDE DEF L
<1>13. off = pos - L  BY DEF L
<1>14. /\ c \in Nat /\ c <= L /\ Len(buffer') = L + 1 - c
       /\ pos' - Len(buffer') = off + c
       /\ pos' - Len(buffer') - Len(batch') = off
  <2> HIDE DEF off
  <2>1. Len(buf) = L + 1 /\ Len(buffer') = Len(buf) - c /\ Len(batch') = c /\ pos' = pos + 1
    BY <1>1, <1>10, <1>12, Zenon
  <2>2. L \in Nat /\ pos \in Nat /\ off \in Nat  BY <1>4, <1>6, Zenon
  <2>3. c \in 0 .. L + 1 - 1  BY <2>1, <2>2
  <2>4. c \in Nat /\ c <= L  BY <2>2, <2>3
  <2>5. pos + 1 - (L + 1 - c) = off + c  BY <1>13, <2>2, <2>4
  <2>6. off + c - c = off  BY <2>2, <2>4
  <2>7. Len(buffer') = L + 1 - c  BY <2>1, <2>2, <2>4
  <2>8. pos' - Len(buffer') = off + c  BY <2>1, <2>2, <2>4, <2>5, <2>7, SMTT(30)
  <2>9. pos' - Len(buffer') - Len(batch') = off  BY <2>1, <2>2, <2>4, <2>6, <2>8, SMTT(30)
  <2> QED  BY <2>4, <2>7, <2>8, <2>9, Zenon
<1>15. f <= fin' /\ f <= b.number
  BY <1>4, SMTT(30) DEF Min
<1> HIDE DEF off
<1>16. /\ off \in Nat /\ L \in Nat /\ c \in Nat /\ c <= L /\ pos \in Nat /\ off + L = pos
      /\ Len(chain) \in Nat /\ pos <= Len(chain) /\ Len(chain') \in Nat
      /\ pos + 1 <= Len(chain')
  <2>1. off \in Nat /\ L \in Nat /\ c \in Nat /\ pos \in Nat  BY <1>4, <1>6, <1>14, Zenon
  <2>2. off + L = pos  BY <1>13, <2>1
  <2>3. c <= L /\ Len(chain) \in Nat /\ pos <= Len(chain) /\ Len(chain') \in Nat
    BY <1>4, <1>7, <1>14, Zenon
  <2>4. pos + 1 <= Len(chain')  BY <1>8, <2>1, <2>3, SMTT(30)
  <2> QED  BY <2>1, <2>2, <2>3, <2>4
<1>17. TypeOK'
  <2>1. tip' \in [hash : Nat, number : Nat]  BY <1>1, <1>4, SMTT(30)
  <2>2. cur' \in [block : Block, final : Nat]  BY <1>2
  <2>3. pc' \in {"idle", "join", "emit"}  BY <1>2, Zenon
  <2>4. /\ partial' \in Seq(Partial) /\ Len(partial') <= 1 /\ out' \in Seq(Msg)
        /\ cursor' \in Nat /\ first' \in BOOLEAN
    BY SMTT(30) DEF Handled
  <2>5. pos' \in 0 .. Len(chain') /\ nextHash' \in Nat
    <3>1. pos' = pos + 1  BY <1>1, Zenon
    <3>2. nextHash' \in Nat
      <4>1. nextHash' = nextHash \/ nextHash' = nextHash + 1  BY <1>1, Zenon
      <4> QED  BY <1>4, <4>1, SMTT(30)
    <3> QED  BY <1>4, <1>7, <1>8, <3>1, <3>2, SMTT(30)
  <2>6. /\ empties' \in Nat /\ faults' \in Nat /\ mode' \in {"running", "failed"}
        /\ last' \in Int /\ task' \in Task /\ committed' \in Int
        /\ openTx' \in Seq(Block) /\ db' \in Seq(Block)
    <3>1. UNCHANGED <<empties, faults, mode, last>>  BY <1>1, <1>2, Zenon
    <3> QED  BY <1>3, <3>1 DEF IndInv, TypeOK
  <2> QED  BY <1>7, <1>12, <2>1, <2>2, <2>3, <2>4, <2>5, <2>6, SMTT(30) DEF TypeOK
<1>18. Ordered'
  <2>1. pos' = pos + 1 /\ tip'.number = b.number  BY <1>1
  <2>2. ASSUME NEW i \in 1 .. pos + 1 PROVE chain'[i].number <= b.number
    <3>1. i \in 1 .. Len(chain') /\ pos + 1 \in 1 .. Len(chain')  BY <1>4, <1>7, <1>8
    <3>2. i = pos + 1 \/ i < pos + 1  BY <1>4
    <3>3. i < pos + 1 => chain'[i].number < b.number  BY <1>7, <1>9, <3>1, SMTT(30)
    <3>4. chain'[i].number \in Nat  BY <1>7, <3>1, BlockFields, SMTT(30)
    <3>5. CASE i = pos + 1
      <4>1. chain'[i].number = b.number  BY <1>7, <3>5, Zenon
      <4> QED  BY <1>4, <4>1, SMTT(30)
    <3>6. CASE i < pos + 1
      BY <1>4, <3>3, <3>4, <3>6, LessDiffers, Zenon
    <3> QED  BY <3>2, <3>5, <3>6
  <2> QED  BY <1>9, <2>1, <2>2, SMTT(30) DEF Ordered
<1>19. Hashed'
  <2>1. Len(partial') = 0  BY DEF Handled
  <2>2. CASE pos < Len(chain)
    <3>1. chain' = chain /\ nextHash' = nextHash  BY <1>1, <2>2, Zenon
    <3> QED  BY <2>1, <3>1 DEF IndInv, Hashed
  <2>3. CASE ~(pos < Len(chain))
    <3>1. /\ pos = Len(chain) /\ Len(chain') = pos + 1 /\ b.hash = nextHash
          /\ nextHash' = nextHash + 1
      <4>1. nextHash' = nextHash + 1  BY <1>1, <2>3, Zenon
      <4> QED  BY <1>4, <1>7, <2>3, <4>1, SMTT(30)
    <3>2. nextHash >= 1  BY DEF IndInv, Hashed
    <3>3. ASSUME NEW i \in 1 .. pos
          PROVE  /\ chain'[i] = chain[i] /\ chain[i].hash \in Nat
                 /\ chain[i].hash >= 1 /\ chain[i].hash < nextHash
      <4>1. i \in 1 .. Len(chain)  BY <3>1
      <4> QED  BY <1>4, <1>7, <4>1, BlockFields, Zenon DEF IndInv, Hashed
    <3>4. \A i \in 1 .. pos + 1 : i \in 1 .. pos \/ i = pos + 1
      BY <1>4, OneMoreIndex, Zenon
    <3>5. \A i \in 1 .. pos + 1 : chain'[i].hash >= 1 /\ chain'[i].hash < nextHash + 1
      <4>1. \A x \in Nat : x < nextHash => x < nextHash + 1  BY <1>4
      <4>2. nextHash < nextHash + 1  BY <1>4
      <4>3. chain'[pos + 1].hash = nextHash  BY <1>7, <3>1
      <4> QED  BY <3>2, <3>3, <3>4, <4>1, <4>2, <4>3, SMTT(30)
    <3>6. ASSUME NEW i \in 1 .. pos + 1, NEW j \in 1 .. pos + 1, i # j
          PROVE  chain'[i].hash # chain'[j].hash
      <4>1. CASE i \in 1 .. pos /\ j \in 1 .. pos
        <5>1. i \in 1 .. Len(chain) /\ j \in 1 .. Len(chain)  BY <3>1, <4>1
        <5> QED  BY <3>3, <3>6, <4>1, <5>1, SMTT(30) DEF IndInv, Hashed
      <4>2. CASE i \in 1 .. pos /\ j = pos + 1
        <5>1. chain[i].hash # nextHash  BY <1>4, <3>3, <4>2, LessDiffers, Zenon
        <5> QED  BY <1>7, <3>1, <3>3, <4>2, <5>1
      <4>3. CASE j \in 1 .. pos /\ i = pos + 1
        <5>1. chain[j].hash # nextHash  BY <1>4, <3>3, <4>3, LessDiffers, Zenon
        <5> QED  BY <1>7, <3>1, <3>3, <4>3, <5>1, SMTT(30)
      <4> QED  BY <3>4, <3>6, <4>1, <4>2, <4>3, SMTT(30)
    <3>7. nextHash' >= 1  BY <1>4, <3>1, <3>2, SMTT(30)
    <3> QED  BY <2>1, <3>1, <3>5, <3>6, <3>7, SMTT(30) DEF Hashed
  <2> QED  BY <2>2, <2>3
<1>20. Conveyor'
  <2>1. \A s, o : Slice(s, chain, o) /\ Len(s) \in Nat /\ o \in Nat => Slice(s, chain', o)
    <3> SUFFICES ASSUME NEW s, NEW o \in Nat, Len(s) \in Nat, Slice(s, chain, o)
                 PROVE  Slice(s, chain', o)
      BY SMTT(30)
    <3>1. o + Len(s) <= Len(chain) /\ \A i \in 1 .. Len(s) : s[i] = chain[o + i]
      BY DEF Slice
    <3>2. /\ \A i \in 1 .. Len(s) : o + i \in 1 .. Len(chain)
          /\ o + Len(s) <= Len(chain')
      BY <1>4, <1>7, <1>8, <3>1, SliceIndices, Zenon
    <3> QED  BY <1>7, <3>1, <3>2, Zenon DEF Slice
  <2>2. /\ Len(db) \in Nat /\ Len(openTx) \in Nat /\ Len(task.blocks) \in Nat
        /\ Len(db) + Len(openTx) \in Nat
    <3>1. Len(db) \in Nat /\ Len(openTx) \in Nat /\ Len(task.blocks) \in Nat
      BY Lengths, Zenon
    <3>2. Len(db) + Len(openTx) \in Nat  BY <3>1
    <3> QED  BY <3>1, <3>2
  <2>3. /\ Slice(db, chain, 0) /\ Slice(openTx, chain, Len(db))
        /\ Slice(task.blocks, chain, Len(db) + Len(openTx))
    BY DEF IndInv, Conveyor
  <2>4. /\ Slice(db, chain', 0) /\ Slice(openTx, chain', Len(db))
        /\ Slice(task.blocks, chain', Len(db) + Len(openTx))
    BY <2>1, <2>2, <2>3, SMTT(30)
  <2>5. Slice(batch', chain', off)
    <3>1. off + c <= Len(chain')  BY <1>16
    <3>2. \A i \in 1 .. c : i \in 1 .. L + 1  BY <1>16
    <3> QED  BY <1>10, <1>12, <3>1, <3>2, Zenon DEF Slice
  <2>6. Slice(buffer', chain', off + c)
    <3>1. off + c + (L + 1 - c) <= Len(chain')
      BY <1>16
    <3>2. \A i \in 1 .. L + 1 - c : c + i \in 1 .. L + 1 /\ off + (c + i) = off + c + i
      BY <1>16
    <3>3. \A i \in 1 .. L + 1 - c : buffer'[i] = buf[c + i]
      <4>1. Len(buf) = L + 1  BY <1>10, Zenon
      <4>2. \A i \in 1 .. Len(buf) - c : buffer'[i] = buf[c + i]  BY <1>12, Zenon
      <4>3. Len(buf) - c = L + 1 - c  BY <1>16, <4>1
      <4> SUFFICES ASSUME NEW i \in 1 .. L + 1 - c PROVE buffer'[i] = buf[c + i]  OBVIOUS
      <4>4. i \in 1 .. Len(buf) - c  BY <4>3
      <4> QED  BY <4>2, <4>4, Zenon
    <3>4. \A i \in 1 .. L + 1 - c : buffer'[i] = chain'[off + c + i]
      BY <1>10, <3>2, <3>3, SMTT(30)
    <3> QED  BY <1>14, <3>1, <3>4, SMTT(30) DEF Slice
  <2>7. Stored' = Stored /\ task' = task /\ db' = db /\ openTx' = openTx
    BY <1>3, SMTT(30) DEF Stored
  <2> QED  BY <1>6, <1>14, <2>4, <2>5, <2>6, <2>7 DEF Conveyor
<1>21. Control'
  <2>1. pc' = "join" <=> batch' # <<>>  BY <1>2, Zenon
  <2>2. buffer' # <<>> /\ buffer'[Len(buffer')] = b
    <3>1. L + 1 - c \in 1 .. L + 1 - c /\ c + (L + 1 - c) = L + 1
      BY <1>16
    <3>2. buffer'[L + 1 - c] = buf[c + (L + 1 - c)]
      <4>1. Len(buf) = L + 1  BY <1>10, Zenon
      <4>2. \A i \in 1 .. Len(buf) - c : buffer'[i] = buf[c + i]  BY <1>12, Zenon
      <4> QED  BY <3>1, <4>1, <4>2, SMTT(30)
    <3>3. buffer'[Len(buffer')] = b  BY <1>10, <1>14, <3>1, <3>2, Zenon
    <3>4. Len(buffer') # 0  BY <1>4, <1>14, SMTT(30)
    <3> QED  BY <3>3, <3>4
  <2>3. cur'.block = b /\ cur'.final = Min(fin', b.number)  BY <1>2
  <2>4. partial' = <<>>  BY DEF Handled
  <2> QED  BY <1>3, <2>1, <2>2, <2>3, <2>4 DEF IndInv, Control
<1>22. FinalOutsideBuffer'
  <2>1. ASSUME NEW i \in 1 .. off + c PROVE chain'[i].number < fin'
    <3>1. CASE i \in 1 .. off
      <4>1. i \in 1 .. Len(chain)  BY <1>4, <1>6, <1>13, <3>1, SMTT(30)
      <4>2. chain'[i] = chain[i] /\ chain[i].number \in Nat
        BY <1>4, <1>7, <4>1, BlockFields, SMTT(30)
      <4>3. chain[i].number < fin
        BY <1>13, <3>1 DEF IndInv, FinalOutsideBuffer, L
      <4> QED  BY <1>4, <4>2, <4>3, SMTT(30)
    <3>2. CASE ~(i \in 1 .. off)
      <4>1. i - off \in 1 .. c /\ i - off \in 1 .. L + 1 /\ off + (i - off) = i
        BY <1>4, <1>6, <1>14, <3>2, SMTT(30)
      <4>2. buf[i - off].number < f /\ buf[i - off] = chain'[i]
        BY <1>10, <1>12, <4>1, SMTT(30)
      <4>3. chain'[i].number \in Nat
        <5>1. buf[i - off] \in Block  BY <1>10, <4>1
        <5> QED  BY <4>2, <5>1 DEF Block
      <4>4. chain'[i].number < f  BY <4>2, SMTT(30)
      <4> QED  BY <1>15, <4>3, <4>4
    <3> QED  BY <3>1, <3>2, SMTT(30)
  <2> QED  BY <1>14, <2>1 DEF FinalOutsideBuffer
<1>23. CommittedHanded'
  <2>1. \A h : Handed(h) => Handed(h)'
    <3>1. pos - Len(buffer) - Len(batch) = off  BY <1>5, <1>6, <1>13 DEF L
    <3>2. \A i \in 1 .. off : i \in 1 .. Len(chain)  BY <1>4, <1>6, <1>13, SMTT(30)
    <3> QED  BY <1>7, <1>14, <3>1, <3>2, SMTT(30) DEF Handed
  <2> QED  BY <1>3, <2>1, SMTT(30) DEF IndInv, CommittedHanded
<1> QED  BY <1>17, <1>18, <1>19, <1>20, <1>21, <1>22, <1>23 DEF IndInv

\* The final height only rises, so what is outside the buffer stays below it.
LEMMA FinalRises ==
    ASSUME IndInv, fin' \in Nat, fin' >= fin, UNCHANGED <<chain, pos, buffer>>
    PROVE  FinalOutsideBuffer'
<1>1. pos - Len(buffer) <= Len(chain)
  BY Lengths DEF IndInv, TypeOK
<1>2. \A i \in 1 .. pos - Len(buffer) : chain[i].number \in Nat
  <2>1. chain \in Seq(Block) /\ pos \in Nat  BY DEF IndInv, TypeOK
  <2>2. \A i \in 1 .. pos - Len(buffer) : i \in 1 .. Len(chain)  BY <1>1, <2>1, Lengths
  <2> QED  BY <2>1, <2>2, BlockFields
<1>3. \A i \in 1 .. pos - Len(buffer) : chain[i].number < fin
  BY DEF IndInv, FinalOutsideBuffer
<1>4. fin \in Nat  BY DEF IndInv, TypeOK
<1>5. \A i \in 1 .. pos - Len(buffer) : chain[i].number < fin'
  <2>1. \A x \in Nat : x < fin => x < fin'  BY <1>4
  <2> QED  BY <1>2, <1>3, <2>1, Zenon
<1> QED  BY <1>5 DEF FinalOutsideBuffer

\* A message that is refused while the final height moves up.
LEMMA RefusedPreserves ==
    ASSUME IndInv, Ready, fin' \in Nat, fin' >= fin, Fail, UNCHANGED gateway,
           UNCHANGED <<chain, pos, tip, nextHash, empties, faults>>
    PROVE  IndInv'
<1>1. /\ UNCHANGED <<pc, cur, batch, buffer, partial, cursor, last, first, out>>
      /\ UNCHANGED <<task, committed, openTx, db>>
      /\ mode' = "failed" /\ pc = "idle"
  BY DEF Fail, Ready, gateway
<1>2. TypeOK'
  BY <1>1, SMTT(30) DEF IndInv, TypeOK
<1>3. Ordered' /\ Hashed' /\ CommittedHanded'
  BY <1>1 DEF IndInv, Ordered, Hashed, CommittedHanded, Handed
<1>4. Conveyor'
  BY <1>1, ZenonT(60) DEF IndInv, Conveyor, Stored, Slice
<1>5. Control'
  BY <1>1 DEF IndInv, Control
<1>6. FinalOutsideBuffer'  BY <1>1, FinalRises
<1> QED  BY <1>2, <1>3, <1>4, <1>5, <1>6 DEF IndInv

\* A new block extends the tip.
LEMMA NewBlockType ==
    ASSUME IndInv, NEW tx \in Txs
    PROVE  /\ NewBlock(<<tx>>) \in Block /\ NewBlock(<<tx>>).hash = nextHash
           /\ NewBlock(<<tx>>).number = tip.number + 1
<1>1. nextHash \in Nat /\ tip.hash \in Nat /\ tip.number \in Nat
  BY DEF IndInv, TypeOK
<1>2. <<tx>> \in Seq(Txs)  OBVIOUS
<1> QED  BY <1>1, <1>2 DEF NewBlock, Block

\* handle_tick_scoped_data with a full block.
LEMMA DeliverBlockPreserves == IndInv /\ DeliverBlock => IndInv'
<1> SUFFICES ASSUME IndInv, DeliverBlock PROVE IndInv'  OBVIOUS
<1>1. PICK b \in NextBlocks, f \in fin .. MaxFinal :
         /\ fin' = f
         /\ \/ /\ Rejected(b, Min(f, b.number))
               /\ Fail
               /\ UNCHANGED <<chain, pos, tip, nextHash, empties, faults>>
            \/ /\ ~Rejected(b, Min(f, b.number))
               /\ Streamed(b)
               /\ InsertAndDrain(b, Min(f, b.number))
               /\ UNCHANGED <<partial, cursor, first, out>>
  BY Zenon DEF DeliverBlock
<1>2. Ready /\ partial = <<>> /\ UNCHANGED gateway  BY Zenon DEF DeliverBlock
<1>3. fin' \in Nat /\ fin' >= fin
  <2>1. fin \in Nat  BY DEF IndInv, TypeOK
  <2>2. fin' = f  BY <1>1, Zenon
  <2> QED  BY <2>1, <2>2, ConstantsAssumption
<1>4. CASE Rejected(b, Min(f, b.number))
  <2>1. Fail /\ UNCHANGED <<chain, pos, tip, nextHash, empties, faults>>  BY <1>1, <1>4, Zenon
  <2> QED  BY <1>2, <1>3, <2>1, RefusedPreserves
<1>5. CASE ~Rejected(b, Min(f, b.number))
  <2>1. /\ Streamed(b) /\ InsertAndDrain(b, Min(fin', b.number))
        /\ UNCHANGED <<partial, cursor, first, out>>
    BY <1>1, <1>5, Zenon
  <2>2. /\ b \in Block
        /\ pos < Len(chain) => b = chain[pos + 1]
        /\ pos = Len(chain) => b.hash = nextHash /\ b.number = tip.number + 1
    <3>1. chain \in Seq(Block) /\ pos \in Nat /\ Len(chain) \in Nat  BY DEF IndInv, TypeOK
    <3>2. CASE pos < Len(chain)
      <4>1. b = chain[pos + 1]  BY <3>2 DEF NextBlocks
      <4> QED  BY <3>1, <3>2, <4>1
    <3>3. CASE ~(pos < Len(chain))
      <4>1. PICK tx \in Txs : b = NewBlock(<<tx>>)  BY <3>3, Zenon DEF NextBlocks, NewTxs
      <4> QED  BY <3>3, <4>1, NewBlockType
    <3> QED  BY <3>2, <3>3
  <2>3. Handled  BY <1>2, <2>1 DEF IndInv, TypeOK, Handled
  <2>4. Min(fin', b.number) \in Nat
    <3>1. b.number \in Nat  BY <2>2 DEF Block
    <3> QED  BY <1>3, <3>1 DEF Min
  <2> QED  BY <1>2, <1>3, <2>1, <2>2, <2>3, <2>4, InsertPreserves
<1> QED  BY <1>4, <1>5

\* merge_partial keeps the block that the partial messages build up: it extends
\* the tip, whichever partial of it arrives.
LEMMA MergedPartial ==
    ASSUME IndInv, NEW tx \in Txs
    PROVE  /\ MergePartial(tx) \in Partial
           /\ MergePartial(tx).block.hash = nextHash
           /\ MergePartial(tx).block.number = tip.number + 1
<1>1. CASE partial = <<>>
  <2>1. MergePartial(tx) = [block |-> NewBlock(<<tx>>), idx |-> 0]  BY <1>1 DEF MergePartial
  <2> HIDE DEF NewBlock
  <2> QED  BY <2>1, NewBlockType DEF Partial
<1>2. CASE partial # <<>>
  <2>1. MergePartial(tx) = [block |-> [partial[1].block EXCEPT !.txs = Append(@, tx)],
                            idx |-> partial[1].idx + 1]
    BY <1>2 DEF MergePartial
  <2>2. partial[1] \in Partial /\ 1 \in 1 .. Len(partial)
    <3>1. partial \in Seq(Partial)  BY DEF IndInv, TypeOK
    <3> QED  BY <1>2, <3>1
  <2>3. /\ partial[1].block \in Block /\ partial[1].idx \in Nat
        /\ partial[1].block.txs \in Seq(Txs)
    BY <2>2 DEF Partial, Block
  <2>4. partial[1].block.hash = nextHash  BY <2>2 DEF IndInv, Hashed
  <2>5. partial[1].block.number = tip.number + 1  BY <1>2 DEF IndInv, Control
  <2> DEFINE q == partial[1].block
             r == [q EXCEPT !.txs = Append(@, tx)]
  <2>6. r \in Block /\ r.hash = q.hash /\ r.number = q.number
    <3>1. q \in Block /\ Append(q.txs, tx) \in Seq(Txs)  BY <2>3
    <3> HIDE DEF q
    <3> QED  BY <3>1, Zenon DEF Block
  <2> HIDE DEF r
  <2>7. MergePartial(tx) = [block |-> r, idx |-> partial[1].idx + 1]  BY <2>1, Zenon DEF r
  <2>8. partial[1].idx + 1 \in Nat  BY <2>3, SMTT(30)
  <2>9. /\ MergePartial(tx).block = r /\ MergePartial(tx) \in Partial
    BY <2>6, <2>7, <2>8 DEF Partial
  <2> QED  BY <2>4, <2>5, <2>6, <2>9
<1> QED  BY <1>1, <1>2

\* handle_tick_scoped_data with a partial block, the last one or not.
LEMMA DeliverPartialPreserves ==
    ASSUME NEW isLast \in BOOLEAN, IndInv, DeliverPartial(isLast)
    PROVE  IndInv'
<1> DEFINE fails(tx, f) ==
              committed > f \/ (isLast /\ Rejected(MergePartial(tx).block, f))
<1>1. PICK tx \in NewTxs, f \in fin .. Min(tip.number, MaxFinal) :
         /\ fin' = f
         /\ IF fails(tx, f) THEN Fail
            ELSE
               /\ cursor' = MergePartial(tx).block.hash
               /\ first' = TRUE
               /\ out' = <<UpdateMessage(NewBlock(<<tx>>), MergePartial(tx).idx, committed)>>
               /\ IF isLast
                  THEN partial' = <<>> /\ InsertAndDrain(MergePartial(tx).block, f)
                  ELSE /\ partial' = <<MergePartial(tx)>>
                       /\ UNCHANGED <<mode, pc, cur, batch, buffer, last>>
         /\ IF isLast /\ ~fails(tx, f) THEN Streamed(MergePartial(tx).block)
            ELSE UNCHANGED <<chain, pos, tip, nextHash, empties, faults>>
  BY Zenon DEF DeliverPartial
<1>2. Ready /\ pos = Len(chain) /\ UNCHANGED gateway  BY Zenon DEF DeliverPartial
<1>3. tx \in Txs  BY DEF NewTxs
<1> DEFINE p == MergePartial(tx)
           b == p.block
<1>4. p \in Partial /\ b \in Block /\ b.hash = nextHash /\ b.number = tip.number + 1
      /\ p.idx \in Nat
  BY <1>3, MergedPartial DEF Partial
<1>5. tip.number \in Nat /\ fin \in Nat /\ nextHash \in Nat  BY DEF IndInv, TypeOK
<1>6. fin' = f /\ f \in Nat /\ fin' >= fin /\ f <= tip.number
  <2>1. fin' = f  BY <1>1, Zenon
  <2>2. Min(tip.number, MaxFinal) \in Nat /\ Min(tip.number, MaxFinal) <= tip.number
    BY <1>5, ConstantsAssumption DEF Min
  <2> QED  BY <1>5, <2>1, <2>2
<1>7. CASE fails(tx, f)
  <2>1. Fail /\ UNCHANGED <<chain, pos, tip, nextHash, empties, faults>>  BY <1>1, <1>7, Zenon
  <2> QED  BY <1>2, <1>6, <2>1, RefusedPreserves
<1> HIDE DEF p, b
<1>8. CASE ~fails(tx, f)
  <2>1. /\ cursor' = b.hash /\ first' = TRUE
        /\ out' = <<UpdateMessage(NewBlock(<<tx>>), p.idx, committed)>>
    BY <1>1, <1>8, Zenon DEF p, b
  <2>2. cursor' \in Nat /\ first' \in BOOLEAN /\ out' \in Seq(Msg)
    <3>1. UpdateMessage(NewBlock(<<tx>>), p.idx, committed) \in Msg
      <4>1. NewBlock(<<tx>>) \in Block  BY <1>3, NewBlockType, SMTT(30)
      <4>2. p.idx \in Int /\ committed \in Int  BY <1>4, SMTT(30) DEF IndInv, TypeOK
      <4> QED  BY <4>1, <4>2, UpdateMessageType, SMTT(30)
    <3> DEFINE msg == UpdateMessage(NewBlock(<<tx>>), p.idx, committed)
    <3>2. out' = <<msg>> /\ msg \in Msg  BY <2>1, <3>1, Zenon
    <3> HIDE DEF msg
    <3>3. out' \in Seq(Msg)  BY <3>2
    <3>4. cursor' \in Nat /\ first' \in BOOLEAN
      <4>1. cursor' = b.hash /\ first' = TRUE  BY <2>1, Zenon
      <4> QED  BY <1>4, <1>5, <4>1
    <3> QED  BY <3>3, <3>4, SMTT(30)
  <2>3. CASE isLast
    <3>1. partial' = <<>> /\ InsertAndDrain(b, f) /\ Streamed(b)
      BY <1>1, <1>8, <2>3, Zenon DEF p, b
    <3>2. f = Min(fin', b.number)  BY <1>4, <1>5, <1>6 DEF Min
    <3>3. pos < Len(chain) => b = chain[pos + 1]
      <4>1. ~(pos < Len(chain))  BY <1>2, Lengths
      <4> QED  BY <4>1
    <3>4. Handled  BY <2>2, <3>1, SMTT(30) DEF Handled
    <3> QED  BY <1>2, <1>4, <1>6, <3>1, <3>2, <3>3, <3>4, InsertPreserves, SMTT(30)
  <2>4. CASE ~isLast
    <3>1. /\ partial' = <<p>> /\ UNCHANGED <<mode, pc, cur, batch, buffer, last>>
          /\ UNCHANGED <<chain, pos, tip, nextHash, empties, faults>>
      BY <1>1, <1>8, <2>4, Zenon DEF p
    <3>2. UNCHANGED <<task, committed, openTx, db>> /\ pc = "idle"  BY <1>2 DEF gateway, Ready
    <3>3. partial' \in Seq(Partial) /\ Len(partial') = 1 /\ partial'[1] = p
      <4>1. partial' = <<p>>  BY <3>1, Zenon
      <4> QED  BY <1>4, <4>1
    <3>4. TypeOK'
      <4>1. fin' \in Nat /\ Len(partial') <= 1  BY <1>6, <3>3
      <4> QED  BY <2>2, <3>1, <3>2, <3>3, <4>1, SMTT(30) DEF IndInv, TypeOK
    <3>5. Ordered' /\ CommittedHanded'
      BY <3>1, <3>2, Zenon DEF IndInv, Ordered, CommittedHanded, Handed
    <3>6. Hashed'
      <4>1. \A i \in 1 .. Len(partial') : partial'[i].block.hash = nextHash
        <5>1. p.block.hash = nextHash  BY <1>4, Zenon DEF b
        <5>2. \A i \in 1 .. Len(partial') : i = 1  BY <3>3
        <5> QED  BY <3>3, <5>1, <5>2, Zenon
      <4> QED  BY <3>1, <4>1, Zenon DEF IndInv, Hashed
    <3>7. Conveyor'
      BY <3>1, <3>2, ZenonT(60) DEF IndInv, Conveyor, Stored, Slice
    <3>8. Control'
      <4>1. partial'[1].block.number = tip'.number + 1 /\ pos' = Len(chain')
        BY <1>2, <1>4, <3>1, <3>3, Zenon DEF b
      <4> QED  BY <3>1, <3>2, <4>1, SMTT(30) DEF IndInv, Control
    <3>9. FinalOutsideBuffer'
      BY <1>6, <3>1, FinalRises
    <3> QED  BY <3>4, <3>5, <3>6, <3>7, <3>8, <3>9, SMTT(30) DEF IndInv
  <2> QED  BY <2>3, <2>4
<1> QED  BY <1>7, <1>8

=============================================================================
