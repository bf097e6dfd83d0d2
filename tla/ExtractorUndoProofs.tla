------------------------- MODULE ExtractorUndoProofs -------------------------
(***************************************************************************)
(* An undo signal and a restart, the two steps that go back on the chain,  *)
(* preserve the inductive invariant.                                       *)
(***************************************************************************)
EXTENDS ExtractorLemmas

\* A restart resumes after the last persisted block.
LEMMA RestartPreserves == IndInv /\ Restart => IndInv'
<1> SUFFICES ASSUME IndInv, Restart PROVE IndInv'  OBVIOUS
<1>1. /\ chain \in Seq(Block) /\ db \in Seq(Block) /\ Len(db) \in Nat /\ Len(chain) \in Nat
      /\ Len(partial) \in Nat /\ nextHash \in Nat
  BY DEF IndInv, TypeOK
<1>2. Len(db) <= Len(chain) /\ \A i \in 1 .. Len(db) : db[i] = chain[i]
  BY <1>1 DEF IndInv, Conveyor, Slice
<1>3. PICK n \in Len(db) .. Len(chain) : chain' = SubSeq(chain, 1, n)
  BY DEF Restart
<1>4. /\ chain' \in Seq(Block) /\ Len(chain') = n
      /\ \A i \in 1 .. n : chain'[i] = chain[i]
      /\ \A i, j \in 1 .. n : i < j => chain'[i].number < chain'[j].number
      /\ \A i \in 1 .. n : chain'[i].hash >= 1 /\ chain'[i].hash < nextHash
      /\ \A i, j \in 1 .. n : i # j => chain'[i].hash # chain'[j].hash
  <2>1. n \in 0 .. Len(chain)  BY <1>1
  <2> QED  BY <1>1, <1>3, <2>1, PrefixKeepsOrder DEF IndInv
<1>5. /\ pos' = Len(db) /\ nextHash' = nextHash + Len(partial)
      /\ tip' = IF db = <<>> THEN Genesis ELSE BlockRef(db[Len(db)])
      /\ mode' = "running" /\ pc' = "idle" /\ cur' = [block |-> NoBlock, final |-> 0]
      /\ batch' = <<>> /\ buffer' = <<>> /\ partial' = <<>>
      /\ cursor' = (IF db = <<>> THEN 0 ELSE db[Len(db)].hash)
      /\ last' = PersistedHeight /\ first' = FALSE /\ out' = <<>>
      /\ task' = NoTask /\ committed' = PersistedHeight /\ openTx' = <<>>
      /\ fin' = fin /\ empties' = empties /\ db' = db
      /\ faults' = IF mode = "failed" THEN faults ELSE faults + 1
  BY Zenon DEF Restart
<1>6. /\ Len(batch') = 0 /\ Len(buffer') = 0 /\ Len(partial') = 0 /\ Len(openTx') = 0
      /\ task'.blocks = <<>> /\ task'.state = "none" /\ Len(task'.blocks) = 0
  BY <1>5 DEF NoTask
<1>7. db # <<>> => /\ Len(db) \in 1 .. Len(db) /\ db[Len(db)] \in Block
                   /\ db[Len(db)] = chain[Len(db)]
  BY <1>1, <1>2
<1>8. TypeOK'
  <2>1. NoBlock \in Block /\ NoTask \in Task /\ Genesis \in [hash : Nat, number : Nat]
    BY ConstantsAssumption DEF NoBlock, NoTask, Genesis, Block, Task, None
  <2>2. tip' \in [hash : Nat, number : Nat] /\ cursor' \in Nat
    BY <1>5, <1>7, <2>1, SMTT(30) DEF BlockRef, Block
  <2>3. committed' \in Int /\ last' \in Int
    BY <1>5, <1>7 DEF PersistedHeight, None, Block
  <2>4. pos' \in 0 .. Len(chain')  BY <1>1, <1>4, <1>5
  <2>5. faults' \in Nat /\ nextHash' \in Nat  BY <1>1, <1>5 DEF IndInv, TypeOK
  <2>6. fin' \in Nat /\ empties' \in Nat /\ db' \in Seq(Block)  BY <1>5 DEF IndInv, TypeOK
  <2>7. cur' \in [block : Block, final : Nat] /\ task' \in Task  BY <1>5, <2>1
  <2>8. /\ batch' \in Seq(Block) /\ buffer' \in Seq(Block) /\ partial' \in Seq(Partial)
        /\ out' \in Seq(Msg) /\ openTx' \in Seq(Block) /\ Len(partial') <= 1
    BY <1>5, <1>6
  <2> QED  BY <1>4, <1>5, <2>2, <2>3, <2>4, <2>5, <2>6, <2>7, <2>8, Zenon DEF TypeOK
<1>9. Ordered'
  <2>1. ASSUME NEW i \in 1 .. Len(db) PROVE chain'[i].number <= tip'.number
    <3>1. /\ db # <<>> /\ tip'.number = chain[Len(db)].number /\ chain'[i] = chain[i]
          /\ i \in 1 .. Len(chain) /\ Len(db) \in 1 .. Len(chain)
      <4>1. db # <<>>  BY <1>1
      <4>2. tip'.number = db[Len(db)].number  BY <1>5, <4>1 DEF BlockRef
      <4>3. i \in 1 .. n  BY <1>1
      <4> QED  BY <1>1, <1>2, <1>4, <1>7, <4>1, <4>2, <4>3
    <3>2. chain[i].number \in Nat  BY <1>1, <3>1, BlockFields
    <3>3. i = Len(db) \/ i < Len(db)  BY <1>1
    <3>4. i < Len(db) => chain[i].number < chain[Len(db)].number
      BY <3>1 DEF IndInv, Ordered
    <3>5. chain[Len(db)].number \in Nat  BY <1>1, <3>1, BlockFields
    <3> QED  BY <3>1, <3>2, <3>3, <3>4, <3>5
  <2> QED  BY <1>4, <1>5, <2>1 DEF Ordered
<1>10. Hashed'
  <2>1. nextHash' >= nextHash /\ nextHash' >= 1
    BY <1>1, <1>5 DEF IndInv, Hashed
  <2>2. \A i \in 1 .. n : chain'[i].hash \in Nat
    <3>1. \A i \in 1 .. n : chain'[i] \in Block  BY <1>4
    <3> QED  BY <3>1 DEF Block
  <2>3. \A i \in 1 .. n : chain'[i].hash < nextHash'
    <3>1. nextHash' \in Nat  BY <1>1, <1>5
    <3> QED  BY <1>1, <1>4, <2>1, <2>2, <3>1
  <2> QED  BY <1>4, <1>6, <2>1, <2>3 DEF Hashed
<1>11. Conveyor'
  <2>1. Slice(db', chain', 0)
    <3>1. 0 + Len(db) <= Len(chain')  BY <1>1, <1>4
    <3>2. \A i \in 1 .. Len(db) : i \in 1 .. n /\ 0 + i = i  BY <1>1
    <3> QED  BY <1>2, <1>4, <1>5, <3>1, <3>2 DEF Slice
  <2>2. Len(db) <= Len(chain') /\ Len(chain') \in Nat  BY <1>1, <1>4
  <2> QED  BY <1>1, <1>5, <1>6, <2>1, <2>2 DEF Conveyor, Stored, Slice
<1>12. Control'
  BY <1>5, <1>6 DEF Control
<1>13. FinalOutsideBuffer'
  <2>1. Len(db) <= pos - Len(buffer)
    <3>1. /\ Len(openTx) \in Nat /\ Len(task.blocks) \in Nat /\ Len(batch) \in Nat
          /\ Len(buffer) \in Nat /\ pos \in Nat
      BY SMTT(30) DEF IndInv, TypeOK, Task
    <3>2. Len(db) + Len(openTx) + Len(task.blocks) <= pos - Len(buffer) - Len(batch)
      BY Zenon DEF IndInv, Conveyor, Stored
    <3>3. \A a, b, c, d, e, p \in Nat : a + b + c <= p - d - e => a <= p - d  OBVIOUS
    <3> QED  BY <1>1, <3>1, <3>2, <3>3, Zenon
  <2>2. \A i \in 1 .. Len(db) : i \in 1 .. pos - Len(buffer) /\ i \in 1 .. n
    <3>1. pos - Len(buffer) \in Int  BY DEF IndInv, TypeOK
    <3> QED  BY <1>1, <2>1, <3>1
  <2>3. \A i \in 1 .. Len(db) : chain'[i].number < fin
    BY <1>4, <2>2 DEF IndInv, FinalOutsideBuffer
  <2>4. pos' - Len(buffer') = Len(db)  BY <1>1, <1>5, <1>6
  <2> QED  BY <1>5, <2>3, <2>4 DEF FinalOutsideBuffer
<1>14. CommittedHanded'
  <2>1. pos' - Len(buffer') - Len(batch') = Len(db)  BY <1>1, <1>5, <1>6
  <2>2. db # <<>> => Len(db) \in 1 .. n /\ Len(db) \in 1 .. Len(db)  BY <1>1, <1>7
  <2>3. db # <<>> => chain'[Len(db)].number = committed'
    BY <1>4, <1>5, <1>7, <2>2 DEF PersistedHeight
  <2>4. db # <<>> => Handed(committed)'  BY <2>1, <2>2, <2>3 DEF Handed
  <2>5. db = <<>> => committed' = None  BY <1>5, SMTT(30) DEF PersistedHeight
  <2> QED  BY <1>6, <2>4, <2>5 DEF CommittedHanded
<1> QED  BY <1>8, <1>9, <1>10, <1>11, <1>12, <1>13, <1>14 DEF IndInv

\* The position of an undo target: purge cuts the reorg buffer exactly where the
\* provider cuts the chain.
LEMMA UndoPosition ==
    ASSUME IndInv, first, NEW t \in UndoTargets, ~PurgeFails(buffer, t.hash)
    PROVE  LET k == FindHash(buffer, t.hash)
           IN  /\ k \in 1 .. Len(buffer)
               /\ pos - Len(buffer) + k \in 1 .. pos
               /\ t = BlockRef(chain[pos - Len(buffer) + k])
<1> DEFINE k == FindHash(buffer, t.hash)
           m == pos - Len(buffer) + k
<1>1. /\ chain \in Seq(Block) /\ buffer \in Seq(Block)
      /\ Len(chain) \in Nat /\ Len(buffer) \in Nat /\ pos \in Nat /\ pos <= Len(chain)
  BY SMTT(30) DEF IndInv, TypeOK
<1>2. k \in 1 .. Len(buffer) /\ buffer[k].hash = t.hash
  <2>1. k \in 0 .. Len(buffer) /\ (k # 0 => k \in {j \in DOMAIN buffer : buffer[j].hash = t.hash})
    BY <1>1, LastIndexFound DEF FindHash
  <2>2. k # 0  BY DEF PurgeFails
  <2> QED  BY <1>1, <2>1, <2>2
<1>3. pos - Len(buffer) >= 0
  <2>1. /\ Len(db) \in Nat /\ Len(openTx) \in Nat /\ Len(task.blocks) \in Nat
        /\ Len(batch) \in Nat
    BY SMTT(30) DEF IndInv, TypeOK, Task
  <2>2. Len(db) + Len(openTx) + Len(task.blocks) <= pos - Len(buffer) - Len(batch)
    BY Zenon DEF IndInv, Conveyor, Stored
  <2>3. \A a, b, c, d, e, q \in Nat : a + b + c <= q - d - e => q - d >= 0  OBVIOUS
  <2> QED  BY <1>1, <2>1, <2>2, <2>3, Zenon
<1> HIDE DEF k
<1>4. m \in 1 .. pos /\ m \in 1 .. Len(chain)  BY <1>1, <1>2, <1>3
<1>5. buffer[k] = chain[m]  BY <1>2 DEF IndInv, Conveyor, Slice
<1> HIDE DEF m
<1>6. t # Genesis
  <2>1. chain[m].hash >= 1  BY <1>4 DEF IndInv, Hashed
  <2> QED  BY <1>2, <1>5, <2>1 DEF Genesis
<1>7. PICK i \in 1 .. pos : t = BlockRef(chain[i])
  BY <1>6 DEF UndoTargets
<1>8. i = m
  <2>1. chain[i].hash = chain[m].hash  BY <1>2, <1>5, <1>7 DEF BlockRef
  <2>2. i \in 1 .. Len(chain)  BY <1>1
  <2> QED  BY <1>4, <2>1, <2>2 DEF IndInv, Hashed
<1> QED  BY <1>2, <1>4, <1>7, <1>8, Zenon DEF k, m

\* handle_revert, whether it accepts the signal or fails.
LEMMA UndoPreserves == IndInv /\ Undo => IndInv'
<1> SUFFICES ASSUME IndInv, Undo PROVE IndInv'  OBVIOUS
<1>1. PICK t \in UndoTargets :
         IF ~first
         THEN /\ cursor' = t.hash
              /\ first' = TRUE
              /\ UNCHANGED <<provider, mode, pc, cur, batch, buffer, partial, last, out>>
         ELSE HandleRevert(t)
  BY Zenon DEF Undo
<1>2. UNCHANGED <<task, committed, openTx, db>> /\ pc = "idle"
  BY DEF Undo, gateway, Ready
<1>3. CASE ~first
  <2>1. /\ UNCHANGED <<provider, mode, pc, cur, batch, buffer, partial, last, out>>
        /\ cursor' = tip.hash /\ first' = TRUE
    BY <1>1, <1>3 DEF UndoTargets
  <2>2. TypeOK'
    BY <1>2, <2>1, SMTT(30) DEF IndInv, TypeOK, provider
  <2>3. Ordered' /\ Hashed' /\ FinalOutsideBuffer' /\ CommittedHanded'
    BY <1>2, <2>1 DEF IndInv, Ordered, Hashed, FinalOutsideBuffer, CommittedHanded, Handed,
                      provider
  <2>4. Conveyor' /\ Control'
    BY <1>2, <2>1, Zenon DEF IndInv, Conveyor, Stored, Slice, Control, Min, provider
  <2> QED  BY <2>2, <2>3, <2>4 DEF IndInv
<1> DEFINE reverted == Purged(buffer, t.hash) \o [i \in DOMAIN partial |-> partial[i].block]
           buf == Unpurged(buffer, t.hash)
           part == IF Purged(buffer, t.hash) = <<>> /\ partial # <<>>
                   THEN partial[1].idx ELSE None
           fails == \/ PurgeFails(buffer, t.hash) \/ reverted = <<>>
                    \/ ComponentMissing(reverted, buf)
<1>4. CASE first /\ fails
  <2>1. Fail /\ UNCHANGED provider  BY <1>1, <1>4, Zenon DEF HandleRevert
  <2>2. /\ UNCHANGED <<provider, pc, cur, batch, buffer, partial, cursor, last, first, out>>
        /\ mode' = "failed"
    BY <2>1 DEF Fail
  <2>3. TypeOK'
    BY <1>2, <2>2, SMTT(30) DEF IndInv, TypeOK, provider
  <2>4. Ordered' /\ Hashed' /\ FinalOutsideBuffer' /\ CommittedHanded'
    BY <1>2, <2>2 DEF IndInv, Ordered, Hashed, FinalOutsideBuffer, CommittedHanded, Handed,
                      provider
  <2>5. Conveyor' /\ Control'
    BY <1>2, <2>2, Zenon DEF IndInv, Conveyor, Stored, Slice, Control, Min, provider
  <2> QED  BY <2>3, <2>4, <2>5 DEF IndInv
<1>5. CASE first /\ ~fails
  <2> DEFINE k == FindHash(buffer, t.hash)
             n == pos - Len(buffer) + k
  <2>1. /\ buffer' = buf /\ partial' = <<>>
        /\ out' = <<Message(buf[Len(buf)], TRUE, part, None, RevertDelta(reverted, buf))>>
        /\ last' = buf[Len(buf)].number /\ cursor' = t.hash /\ first' = TRUE
        /\ pos' = pos - Len(Purged(buffer, t.hash))
        /\ chain' = SubSeq(chain, 1, pos') /\ tip' = t
        /\ nextHash' = nextHash + Len(partial)
        /\ UNCHANGED <<fin, empties, faults, mode, pc, cur, batch>>
    <3>1. HandleRevert(t)  BY <1>1, <1>5
    <3> QED  BY <1>5, <3>1, Zenon DEF HandleRevert
  <2>2. /\ chain \in Seq(Block) /\ buffer \in Seq(Block) /\ db \in Seq(Block)
        /\ batch \in Seq(Block) /\ openTx \in Seq(Block) /\ task.blocks \in Seq(Block)
        /\ partial \in Seq(Partial)
        /\ Len(chain) \in Nat /\ Len(buffer) \in Nat /\ Len(partial) \in Nat
        /\ pos \in Nat /\ pos <= Len(chain) /\ nextHash \in Nat
    BY SMTT(30) DEF IndInv, TypeOK, Task
  <2>3. k \in 1 .. Len(buffer) /\ n \in 1 .. pos /\ t = BlockRef(chain[n])
    BY <1>5, UndoPosition
  <2>4. /\ buf \in Seq(Block) /\ Len(buf) = k
        /\ \A i \in 1 .. k : buf[i] = buffer[i]
    <3> HIDE DEF k
    <3>1. buf = SubSeq(buffer, 1, k)  BY DEF Unpurged, k
    <3>2. k \in Nat /\ k <= Len(buffer)  BY <2>2, <2>3
    <3> HIDE DEF buf
    <3> QED  BY <2>2, <3>1, <3>2, SubSeqFacts, SMTT(30)
  <2>5. Len(Purged(buffer, t.hash)) = Len(buffer) - k
    <3> HIDE DEF k
    <3>1. Purged(buffer, t.hash) = SubSeq(buffer, k + 1, Len(buffer))  BY DEF Purged, k
    <3>2. k + 1 \in Nat /\ k + 1 >= 1 /\ k + 1 <= Len(buffer) + 1  BY <2>2, <2>3
    <3>3. Len(SubSeq(buffer, k + 1, Len(buffer))) = Len(buffer) - (k + 1) + 1
      BY <2>2, <3>2, SubSeqFacts, SMTT(30)
    <3>4. Len(buffer) - (k + 1) + 1 = Len(buffer) - k  BY <2>2, <2>3
    <3> QED  BY <3>1, <3>3, <3>4, Zenon
  <2> HIDE DEF k, buf, reverted, part, fails
  <2>6. pos' = n /\ n \in 0 .. Len(chain) /\ n - k = pos - Len(buffer)
    <3>1. pos' = pos - (Len(buffer) - k)  BY <2>1, <2>5, Zenon
    <3>2. k \in Nat  BY <2>2, <2>3, SMTT(30)
    <3> QED  BY <2>2, <2>3, <3>1, <3>2, SMTT(30)
  <2> HIDE DEF n
  <2>7. /\ chain' \in Seq(Block) /\ Len(chain') = n
        /\ \A i \in 1 .. n : chain'[i] = chain[i]
        /\ \A i, j \in 1 .. n : i < j => chain'[i].number < chain'[j].number
        /\ \A i \in 1 .. n : chain'[i].hash >= 1 /\ chain'[i].hash < nextHash
        /\ \A i, j \in 1 .. n : i # j => chain'[i].hash # chain'[j].hash
    <3>1. chain' = SubSeq(chain, 1, n)  BY <2>1, <2>6, Zenon
    <3> QED  BY <2>2, <2>6, <3>1, PrefixKeepsOrder, SMTT(30) DEF IndInv
  <2>8. Len(buffer') = k /\ pos' - Len(buffer') = pos - Len(buffer)
    BY <2>1, <2>4, <2>6
  <2>9. TypeOK'
    <3>1. buf[Len(buf)] \in Block  BY <2>2, <2>3, <2>4
    <3>2. part \in Int
      <4>1. partial # <<>> => partial[1] \in Partial  BY <2>2
      <4> QED  BY <4>1 DEF part, Partial, None
    <3>3. RevertDelta(reverted, buf) \in [Keys -> Int]  BY <2>2, <2>4, RevertDeltaType
    <3>4. Message(buf[Len(buf)], TRUE, part, None, RevertDelta(reverted, buf)) \in Msg
      BY <3>1, <3>2, <3>3 DEF Message, Msg, None
    <3>5. out' \in Seq(Msg)
      <4> DEFINE msg == Message(buf[Len(buf)], TRUE, part, None, RevertDelta(reverted, buf))
      <4>1. out' = <<msg>> /\ msg \in Msg  BY <2>1, <3>4, Zenon
      <4> HIDE DEF msg
      <4> QED  BY <4>1
    <3>6. last' \in Int  BY <2>1, <3>1 DEF Block
    <3>7. t \in [hash : Nat, number : Nat] /\ t.hash \in Nat
      <4>1. chain[n] \in Block  BY <2>2, <2>3, SMTT(30)
      <4> QED  BY <2>3, <4>1 DEF BlockRef, Block
    <3>8. pos' \in 0 .. Len(chain')  BY <2>2, <2>3, <2>6, <2>7
    <3>9. partial' \in Seq(Partial) /\ Len(partial') <= 1  BY <2>1
    <3>10. nextHash' \in Nat  BY <2>1, <2>2, SMTT(30)
    <3>11. /\ fin' \in Nat /\ empties' \in Nat /\ faults' \in Nat
           /\ mode' \in {"running", "failed"} /\ pc' \in {"idle", "join", "emit"}
           /\ cur' \in [block : Block, final : Nat] /\ batch' \in Seq(Block)
           /\ task' \in Task /\ committed' \in Int /\ openTx' \in Seq(Block)
           /\ db' \in Seq(Block)
      BY <1>2, <2>1, SMTT(30) DEF IndInv, TypeOK
    <3> QED  BY <2>1, <2>4, <2>7, <3>5, <3>6, <3>7, <3>8, <3>9, <3>10, <3>11, Zenon DEF TypeOK
  <2>10. Ordered'
    <3>1. ASSUME NEW i \in 1 .. n PROVE chain'[i].number <= tip'.number
      <4>1. tip'.number = chain'[n].number  BY <2>1, <2>3, <2>7 DEF BlockRef
      <4>2. n \in 1 .. Len(chain')  BY <2>3, <2>7, SMTT(30)
      <4>3. chain'[i].number \in Nat /\ chain'[n].number \in Nat
        BY <2>7, <4>2, BlockFields, SMTT(30)
      <4>4. i = n \/ i < n  BY <2>6
      <4>5. i < n => chain'[i].number < chain'[n].number  BY <2>3, <2>7, SMTT(30)
      <4> QED  BY <4>1, <4>3, <4>4, <4>5, SMTT(30)
    <3> QED  BY <2>6, <2>7, <3>1 DEF Ordered
  <2>11. Hashed'
    <3>1. nextHash' >= nextHash /\ nextHash' >= 1 /\ nextHash' \in Nat
      <4>1. nextHash' = nextHash + Len(partial)  BY <2>1, Zenon
      <4> QED  BY <2>2, <4>1 DEF IndInv, Hashed
    <3>2. \A i \in 1 .. n : chain'[i].hash \in Nat  BY <2>7, BlockFields
    <3>3. \A i \in 1 .. n : chain'[i].hash < nextHash'
      <4>1. \A x, y, z \in Nat : x < y /\ z >= y => x < z  OBVIOUS
      <4> QED  BY <2>2, <2>7, <3>1, <3>2, <4>1, Zenon
    <3>4. Len(partial') = 0  BY <2>1
    <3> QED  BY <2>7, <3>1, <3>3, <3>4, SMTT(30) DEF Hashed
  <2>12. Conveyor'
    <3>1. /\ Len(db) \in Nat /\ Len(openTx) \in Nat /\ Len(task.blocks) \in Nat
          /\ Len(batch) \in Nat /\ n \in Nat /\ k \in Nat /\ n <= Len(chain)
      BY <2>2, <2>3, <2>6, SMTT(30)
    <3>2. /\ Len(db) + Len(openTx) + Len(task.blocks) <= pos - Len(buffer) - Len(batch)
          /\ pos - Len(buffer) <= n
      <4>1. Len(db) + Len(openTx) + Len(task.blocks) <= pos - Len(buffer) - Len(batch)
        BY Zenon DEF IndInv, Conveyor, Stored
      <4>2. pos - Len(buffer) <= n
        <5>1. n \in Int /\ k \in Nat  BY <3>1
        <5>2. n - k <= n  BY <5>1
        <5> QED  BY <2>6, <5>2, Zenon
      <4> QED  BY <4>1, <4>2, Zenon
    <3>3. /\ 0 + Len(db) <= n /\ Len(db) + Len(openTx) <= n
          /\ Len(db) + Len(openTx) + Len(task.blocks) <= n
          /\ pos - Len(buffer) - Len(batch) \in Nat
          /\ pos - Len(buffer) - Len(batch) + Len(batch) <= n
      <4> DEFINE a == Len(db)  b == Len(openTx)  c == Len(task.blocks)
                 d == Len(buffer)  e == Len(batch)
      <4>1. /\ a \in Nat /\ b \in Nat /\ c \in Nat /\ d \in Nat /\ e \in Nat
            /\ pos \in Nat /\ n \in Nat /\ a + b + c <= pos - d - e /\ pos - d <= n
        BY <2>2, <3>1, <3>2, Zenon
      <4> HIDE DEF a, b, c, d, e
      <4>2. /\ 0 + a <= n /\ a + b <= n /\ a + b + c <= n
            /\ pos - d - e \in Nat /\ pos - d - e + e <= n
        BY <4>1
      <4> QED  BY <4>2, Zenon DEF a, b, c, d, e
    <3>4. chain' = SubSeq(chain, 1, n)  BY <2>1, <2>6
    <3>5. /\ Slice(db, chain, 0) /\ Slice(openTx, chain, Len(db))
          /\ Slice(task.blocks, chain, Len(db) + Len(openTx))
          /\ Slice(batch, chain, pos - Len(buffer) - Len(batch))
          /\ Slice(buffer, chain, pos - Len(buffer))
      BY DEF IndInv, Conveyor
    <3>6. Slice(db, chain', 0)
      BY <2>2, <3>1, <3>3, <3>4, <3>5, SliceOfPrefix, SMTT(30)
    <3>7. Slice(openTx, chain', Len(db))
      BY <2>2, <3>1, <3>3, <3>4, <3>5, SliceOfPrefix
    <3>8. Slice(task.blocks, chain', Len(db) + Len(openTx))
      <4>1. Len(db) + Len(openTx) \in Nat  BY <3>1
      <4> QED  BY <2>2, <3>1, <3>3, <3>4, <3>5, <4>1, SliceOfPrefix, Zenon
    <3>9. Slice(batch, chain', pos - Len(buffer) - Len(batch))
      BY <2>2, <3>1, <3>3, <3>4, <3>5, SliceOfPrefix, SMTT(30)
    <3>10. Slice(buffer', chain', pos' - Len(buffer'))
      <4>1. n - k + k <= n  BY <3>1
      <4>2. \A i \in 1 .. k : buffer'[i] = chain'[n - k + i]
        <5>1. \A i \in 1 .. k : n - k + i \in 1 .. n
          <6>1. n - k >= 0
            <7>1. pos - Len(buffer) >= 0  BY <2>2, <3>1, <3>3, SMTT(30)
            <7> QED  BY <2>6, <7>1
          <6> QED  BY <3>1, <6>1
        <5>2. \A i \in 1 .. k : buffer[i] = chain[pos - Len(buffer) + i]
          BY <2>2, <2>3, <3>5 DEF Slice
        <5>3. buffer' = buf  BY <2>1, Zenon
        <5>4. ASSUME NEW i \in 1 .. k PROVE buffer'[i] = chain'[n - k + i]
          <6>1. buffer'[i] = buffer[i]  BY <2>4, <5>3, Zenon
          <6>2. buffer[i] = chain[n - k + i]  BY <2>6, <5>2, Zenon
          <6>3. chain'[n - k + i] = chain[n - k + i]  BY <2>7, <5>1, Zenon
          <6> QED  BY <6>1, <6>2, <6>3
        <5> QED  BY <5>4
      <4> QED  BY <2>6, <2>7, <2>8, <4>1, <4>2 DEF Slice
    <3>11. /\ Stored' = Stored /\ task' = task
           /\ (pos - Len(buffer) - Len(batch))' = pos - Len(buffer) - Len(batch)
      BY <1>2, <2>1, <2>8, SMTT(30) DEF Stored
    <3>12. /\ Stored <= pos - Len(buffer) - Len(batch)
           /\ task.state # "failed" => Stored = pos - Len(buffer) - Len(batch)
      BY DEF IndInv, Conveyor
    <3>13. db' = db /\ openTx' = openTx /\ batch' = batch  BY <1>2, <2>1, SMTT(30)
    <3> QED  BY <3>6, <3>7, <3>8, <3>9, <3>10, <3>11, <3>12, <3>13, SMTT(30) DEF Conveyor
  <2>13. Control'
    <3>1. pc' = "idle" /\ batch' = batch /\ task' = task /\ openTx' = openTx /\ partial' = <<>>
      BY <1>2, <2>1
    <3> QED  BY <1>2, <3>1, SMTT(30) DEF IndInv, Control
  <2>14. FinalOutsideBuffer' /\ CommittedHanded'
    <3>1. \A i \in 1 .. pos - Len(buffer) : i \in 1 .. n  BY <2>2, <2>3, <2>6
    <3>2. FinalOutsideBuffer'
      BY <2>1, <2>7, <2>8, <3>1, ZenonT(60) DEF IndInv, FinalOutsideBuffer
    <3>3. \A h : Handed(h) => Handed(h)'
      <4>1. Len(batch) \in Nat  BY <2>2
      <4>2. \A i \in 1 .. pos - Len(buffer) - Len(batch) : chain'[i] = chain[i]
        BY <2>2, <2>7, <3>1, <4>1, SMTT(30)
      <4>3. (pos - Len(buffer) - Len(batch))' = pos - Len(buffer) - Len(batch)
        BY <2>1, <2>8
      <4> QED  BY <4>2, <4>3 DEF Handed
    <3> QED  BY <1>2, <3>2, <3>3, SMTT(30) DEF IndInv, CommittedHanded
  <2> QED  BY <2>9, <2>10, <2>11, <2>12, <2>13, <2>14 DEF IndInv
<1> QED  BY <1>3, <1>4, <1>5

=============================================================================
