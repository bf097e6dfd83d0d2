------------------------ MODULE ExtractorCommitProofs ------------------------
(***************************************************************************)
(* The steps between the buffer and the database (the commit task, its     *)
(* join, the gateway and the emitted message) preserve the inductive       *)
(* invariant.                                                              *)
(***************************************************************************)
EXTENDS ExtractorLemmas

\* The tail of process_full_block_message.
LEMMA EmitPreserves == IndInv /\ Emit => IndInv'
<1> SUFFICES ASSUME IndInv, Emit PROVE IndInv'  OBVIOUS
<1> DEFINE msg == UpdateMessage(cur.block, None, committed)
<1>1. msg \in Msg /\ [msg EXCEPT !.part = 0] \in Msg
  <2>1. msg \in Msg  BY UpdateMessageType DEF IndInv, TypeOK, None
  <2> HIDE DEF msg
  <2> QED  BY <2>1 DEF Msg
<1>2. out' \in Seq(Msg) /\ last' \in Int /\ cursor' \in Nat /\ first' \in BOOLEAN
  <2> HIDE DEF msg
  <2>1. Append(out, msg) \in Seq(Msg) /\ <<msg>> \in Seq(Msg)
        /\ <<[msg EXCEPT !.part = 0], msg>> \in Seq(Msg)
    BY <1>1 DEF IndInv, TypeOK
  <2>2. CASE committed > cur.final
    BY <2>2 DEF Emit, Fail, IndInv, TypeOK
  <2>3. CASE ~(committed > cur.final)
    <3>1. cur.block.number \in Nat /\ cur.block.hash \in Nat  BY SMTT(30) DEF IndInv, TypeOK, Block
    <3>2. out' \in {Append(out, msg), <<[msg EXCEPT !.part = 0], msg>>, <<msg>>}
      BY <2>3, Zenon DEF Emit, msg
    <3>3. last' = cur.block.number /\ cursor' = cur.block.hash /\ first' = TRUE
      BY <2>3, Zenon DEF Emit
    <3>4. out' \in Seq(Msg)  BY <2>1, <3>2, Zenon
    <3> QED  BY <3>1, <3>3, <3>4
  <2> QED  BY <2>2, <2>3
<1>3. /\ UNCHANGED <<provider, gateway, batch, buffer, partial, cur>>
      /\ mode' \in {"running", "failed"}
      /\ pc' \in {"idle", "emit"} /\ pc = "emit"
  BY DEF Emit, Fail
<1>4. TypeOK'
  BY <1>2, <1>3 DEF IndInv, TypeOK, provider, gateway
<1>5. Ordered' /\ Hashed' /\ FinalOutsideBuffer' /\ CommittedHanded'
  BY <1>3 DEF IndInv, Ordered, Hashed, FinalOutsideBuffer, CommittedHanded, Handed,
              provider, gateway
<1>6. Conveyor'
  BY <1>3, Zenon DEF IndInv, Conveyor, Stored, Slice, provider, gateway
<1>7. Control'
  BY <1>3 DEF IndInv, Control, Min, provider, gateway
<1> QED  BY <1>4, <1>5, <1>6, <1>7 DEF IndInv

\* The runner hands a message to the subscribers.
LEMMA PropagatePreserves == IndInv /\ Propagate => IndInv'
<1> SUFFICES ASSUME IndInv, Propagate PROVE IndInv'  OBVIOUS
<1>1. /\ UNCHANGED <<provider, gateway, mode, pc, cur, batch, buffer, partial>>
      /\ UNCHANGED <<cursor, last, first>> /\ out' \in Seq(Msg)
  BY HeadTailProperties DEF Propagate, IndInv, TypeOK
<1>2. TypeOK'
  BY <1>1 DEF IndInv, TypeOK, provider, gateway
<1>3. Ordered' /\ Hashed' /\ FinalOutsideBuffer' /\ CommittedHanded'
  BY <1>1 DEF IndInv, Ordered, Hashed, FinalOutsideBuffer, CommittedHanded, Handed,
              provider, gateway
<1>4. Conveyor' /\ Control'
  BY <1>1, Zenon DEF IndInv, Conveyor, Stored, Slice, Control, Min, provider, gateway
<1> QED  BY <1>2, <1>3, <1>4 DEF IndInv

\* The commit task stores the height it has handed over.
LEMMA CommitDonePreserves == IndInv /\ CommitDone => IndInv'
<1> SUFFICES ASSUME IndInv, CommitDone PROVE IndInv'  OBVIOUS
<1>1. /\ UNCHANGED <<provider, extractor, openTx, db>>
      /\ task.state = "running" /\ task.blocks = <<>> /\ task'.state = "ok"
      /\ task'.blocks = task.blocks /\ task' \in Task
      /\ committed' = task.height /\ committed' \in Int
  BY Zenon DEF CommitDone, IndInv, TypeOK, Task
<1>2. TypeOK'
  BY <1>1 DEF IndInv, TypeOK, provider, extractor
<1>3. Ordered' /\ Hashed' /\ FinalOutsideBuffer' /\ CommittedHanded'
  BY <1>1, SMTT(30) DEF IndInv, Ordered, Hashed, FinalOutsideBuffer, CommittedHanded, Handed,
              provider, extractor
<1>4. Conveyor' /\ Control'
  BY <1>1 DEF IndInv, Conveyor, Stored, Slice, Control, Min, provider, extractor
<1> QED  BY <1>2, <1>3, <1>4 DEF IndInv

\* A failed write loses the open transaction: a gap opens below the drained blocks.
LEMMA CommitFailsPreserves == IndInv /\ CommitFails => IndInv'
<1> SUFFICES ASSUME IndInv, CommitFails PROVE IndInv'  OBVIOUS
<1>1. /\ UNCHANGED <<chain, pos, tip, fin, nextHash, empties, extractor, committed, db>>
      /\ faults' \in Nat
      /\ task'.state = "failed" /\ task'.blocks = <<>> /\ task' \in Task /\ openTx' = <<>>
  <2>1. task' = [task EXCEPT !.state = "failed", !.blocks = <<>>]  BY DEF CommitFails
  <2>2. task \in Task  BY DEF IndInv, TypeOK
  <2>3. task' = [state |-> "failed", blocks |-> <<>>, sync |-> task.sync,
                 height |-> task.height]
    BY <2>1, <2>2, Zenon DEF Task
  <2>4. task'.state = "failed" /\ task'.blocks = <<>> /\ task' \in Task
    BY <2>2, <2>3 DEF Task
  <2>5. faults' = faults + 1 /\ openTx' = <<>>  BY Zenon DEF CommitFails
  <2>6. faults' \in Nat  BY <2>5 DEF IndInv, TypeOK
  <2> QED  BY <2>4, <2>5, <2>6 DEF CommitFails
<1>2. TypeOK'
  BY <1>1 DEF IndInv, TypeOK, extractor
<1>3. Ordered' /\ Hashed' /\ FinalOutsideBuffer' /\ CommittedHanded'
  BY <1>1 DEF IndInv, Ordered, Hashed, FinalOutsideBuffer, CommittedHanded, Handed, extractor
<1>4. Conveyor'
  <2>1. Len(openTx') = 0 /\ Len(task'.blocks) = 0  BY <1>1
  <2>2. /\ Len(openTx) \in Nat /\ Len(task.blocks) \in Nat /\ Len(db) \in Nat
        /\ Len(chain) \in Nat
    BY SMTT(30) DEF IndInv, TypeOK, Task
  <2>3. pos' = pos /\ chain' = chain /\ db' = db /\ buffer' = buffer /\ batch' = batch
    BY <1>1 DEF extractor
  <2>4. Slice(db, chain, 0)' /\ Slice(batch, chain, pos - Len(buffer) - Len(batch))'
        /\ Slice(buffer, chain, pos - Len(buffer))'
    BY <2>3, SMTT(30) DEF IndInv, Conveyor, Slice
  <2>5. Slice(openTx, chain, Len(db))' /\ Slice(task.blocks, chain, Len(db) + Len(openTx))'
    <3>1. Len(db) <= Len(chain)  BY <2>2 DEF IndInv, Conveyor, Slice
    <3> QED  BY <2>1, <2>2, <2>3, <3>1 DEF Slice
  <2>6. Stored' <= (pos - Len(buffer) - Len(batch))'
    <3>1. Len(batch) \in Nat /\ Len(buffer) \in Nat /\ pos \in Nat  BY DEF IndInv, TypeOK
    <3>2. Len(db) + Len(openTx) + Len(task.blocks) <= pos - Len(buffer) - Len(batch)
      BY Zenon DEF IndInv, Conveyor, Stored
    <3>3. \A a, b, c \in Nat, d \in Int : a + b + c <= d => a + 0 + 0 <= d  OBVIOUS
    <3>4. Len(db) + 0 + 0 <= pos - Len(buffer) - Len(batch)
      <4>1. pos - Len(buffer) - Len(batch) \in Int  BY <3>1
      <4> HIDE DEF Stored
      <4> QED  BY <2>2, <3>2, <3>3, <4>1, Zenon
    <3> QED  BY <2>1, <2>3, <3>4 DEF Stored
  <2> QED  BY <1>1, <2>4, <2>5, <2>6 DEF Conveyor
<1>5. Control'
  BY <1>1 DEF IndInv, Control, Min, extractor
<1> QED  BY <1>2, <1>3, <1>4, <1>5 DEF IndInv

\* The await on the previous commit task: an error ends the runner before
\* anything is written across the gap.
LEMMA JoinCommitPreserves == IndInv /\ JoinCommit => IndInv'
<1> SUFFICES ASSUME IndInv, JoinCommit PROVE IndInv'  OBVIOUS
<1>1. CASE JoinFailed
  <2>1. /\ UNCHANGED <<provider, gateway, pc, cur, batch, buffer, partial>>
        /\ UNCHANGED <<cursor, last, first, out>> /\ mode' = "failed"
    BY <1>1 DEF JoinCommit, Fail, gateway
  <2>2. TypeOK'
    BY <2>1, SMTT(30) DEF IndInv, TypeOK, provider, gateway
  <2>3. Ordered' /\ Hashed' /\ FinalOutsideBuffer' /\ CommittedHanded'
    BY <2>1 DEF IndInv, Ordered, Hashed, FinalOutsideBuffer, CommittedHanded, Handed,
                provider, gateway
  <2>4. Conveyor' /\ Control'
    BY <2>1, Zenon DEF IndInv, Conveyor, Stored, Slice, Control, Min, provider, gateway
  <2> QED  BY <2>2, <2>3, <2>4 DEF IndInv
<1>2. CASE ~JoinFailed
  <2>1. /\ UNCHANGED <<chain, pos, tip, fin, nextHash, empties, faults>>
        /\ UNCHANGED <<mode, cur, buffer, partial, cursor, last, first, out>>
        /\ UNCHANGED <<committed, openTx, db>>
        /\ batch' = <<>> /\ pc' = "emit" /\ pc = "join"
        /\ task.state # "running" /\ task.state # "failed"
        /\ task' = [state |-> "running", blocks |-> batch,
                    sync |-> cur.final = cur.block.number,
                    height |-> batch[Len(batch)].number]
    BY <1>2 DEF JoinCommit, JoinFailed, provider
  <2>2. /\ batch # <<>> /\ batch \in Seq(Block) /\ task.blocks = <<>>
        /\ Len(task.blocks) = 0
    BY <2>1 DEF IndInv, TypeOK, Control
  <2>3. Len(batch) \in Nat /\ Len(batch) >= 1 /\ batch[Len(batch)] \in Block
    BY <2>2
  <2>4. /\ task'.state = "running" /\ task'.blocks = batch
        /\ task'.height = batch[Len(batch)].number
    BY <2>1
  <2>5. TypeOK'
    <3>1. task' \in Task  BY <2>1, <2>2, <2>3 DEF Task, Block
    <3>2. batch' \in Seq(Block)  BY <2>1
    <3> QED  BY <2>1, <3>1, <3>2, SMTT(30) DEF IndInv, TypeOK
  <2>6. Ordered' /\ Hashed' /\ FinalOutsideBuffer'
    BY <2>1 DEF IndInv, Ordered, Hashed, FinalOutsideBuffer
  <2>7. /\ Len(db) \in Nat /\ Len(openTx) \in Nat /\ Len(buffer) \in Nat
        /\ pos \in Nat /\ Len(chain) \in Nat
    BY SMTT(30) DEF IndInv, TypeOK
  <2>8. Len(db) + Len(openTx) = pos - Len(buffer) - Len(batch)
    <3>1. Stored = pos - Len(buffer) - Len(batch)  BY <2>1 DEF IndInv, Conveyor
    <3>2. Stored = Len(db) + Len(openTx) + 0  BY <2>2 DEF Stored
    <3> QED  BY <2>7, <3>1, <3>2
  <2>9. Len(batch') = 0  BY <2>1
  <2>10. Conveyor'
    <3>1. Slice(db, chain, 0)' /\ Slice(openTx, chain, Len(db))'
          /\ Slice(buffer, chain, pos - Len(buffer))'
      BY <2>1 DEF IndInv, Conveyor, Slice
    <3>2. Slice(batch, chain, Len(db) + Len(openTx))
      BY <2>8, SMTT(30) DEF IndInv, Conveyor
    <3>3. Slice(task.blocks, chain, Len(db) + Len(openTx))'
      BY <2>1, <2>4, <3>2 DEF Slice
    <3>4. Slice(batch, chain, pos - Len(buffer) - Len(batch))'
      <4>1. pos - Len(buffer) - 0 + 0 <= Len(chain)
        BY <2>7, <2>8 DEF IndInv, TypeOK
      <4> QED  BY <2>1, <2>9, <4>1 DEF Slice
    <3>5. Stored' = (pos - Len(buffer) - Len(batch))'
      <4>1. Len(db) + Len(openTx) + Len(batch) = pos - Len(buffer) - 0
        BY <2>3, <2>7, <2>8
      <4> QED  BY <2>1, <2>4, <2>9, <4>1 DEF Stored
    <3>6. Stored' <= (pos - Len(buffer) - Len(batch))'
      <4>1. (pos - Len(buffer) - 0) \in Int  BY <2>7
      <4>2. (pos - Len(buffer) - Len(batch))' \in Int  BY <2>1, <2>9, <4>1, SMTT(30)
      <4> QED  BY <3>5, <4>2
    <3> QED  BY <3>1, <3>3, <3>4, <3>5, <3>6, SMTT(30) DEF Conveyor
  <2>11. Control'
    BY <2>1, <2>4, SMTT(30) DEF IndInv, Control, Min
  <2>12. CommittedHanded'
    <3>1. \A h : Handed(h) => Handed(h)'
      BY <2>1, <2>3, <2>7, <2>9, SMTT(30) DEF Handed
    <3>2. Handed(task.height)'
      <4>1. /\ pos - Len(buffer) \in 1 .. pos - Len(buffer) - 0
            /\ pos - Len(buffer) = Len(db) + Len(openTx) + Len(batch)
        BY <2>3, <2>7, <2>8
      <4>2. batch[Len(batch)] = chain[pos - Len(buffer)]
        <5>1. batch[Len(batch)] = chain[pos - Len(buffer) - Len(batch) + Len(batch)]
          BY <2>3 DEF IndInv, Conveyor, Slice
        <5>2. pos - Len(buffer) - Len(batch) + Len(batch) = pos - Len(buffer)
          BY <2>3, <2>7
        <5> QED  BY <5>1, <5>2, SMTT(30)
      <4> QED  BY <2>1, <2>4, <2>9, <4>1, <4>2 DEF Handed
    <3> QED  BY <2>1, <3>1, <3>2, SMTT(30) DEF IndInv, CommittedHanded
  <2> QED  BY <2>5, <2>6, <2>10, <2>11, <2>12, SMTT(30) DEF IndInv
<1> QED  BY <1>1, <1>2, SMTT(30)

\* advance moves one block into the open transaction, or flushes it.
LEMMA CommitBlockPreserves == IndInv /\ CommitBlock => IndInv'
<1> SUFFICES ASSUME IndInv, CommitBlock PROVE IndInv'  OBVIOUS
<1> DEFINE staged == Append(openTx, Head(task.blocks))
<1>1. /\ UNCHANGED <<chain, pos, tip, fin, nextHash, empties, faults>>
      /\ UNCHANGED <<mode, pc, cur, batch, buffer, partial, cursor, last, first, out>>
      /\ UNCHANGED committed
      /\ task.state = "running" /\ task.blocks # <<>>
      /\ task' = [task EXCEPT !.blocks = Tail(@)]
      /\ \/ openTx' = staged /\ db' = db
         \/ openTx' = <<>> /\ db' = db \o staged
  BY Zenon DEF CommitBlock, provider, extractor
<1>2. /\ chain \in Seq(Block) /\ openTx \in Seq(Block) /\ db \in Seq(Block)
      /\ task \in Task /\ task.blocks \in Seq(Block)
  BY DEF IndInv, TypeOK, Task
<1>3. /\ Slice(db, chain, 0) /\ Slice(openTx, chain, Len(db))
      /\ Slice(task.blocks, chain, Len(db) + Len(openTx))
      /\ Stored = pos - Len(buffer) - Len(batch)
  BY <1>1 DEF IndInv, Conveyor
<1>4. Len(db) \in Nat /\ Len(openTx) \in Nat /\ Len(task.blocks) \in Nat  BY <1>2
<1>5. /\ Slice(staged, chain, Len(db))
      /\ Slice(Tail(task.blocks), chain, Len(db) + Len(staged))
      /\ Len(Tail(task.blocks)) = Len(task.blocks) - 1 /\ Len(staged) = Len(openTx) + 1
      /\ Tail(task.blocks) \in Seq(Block) /\ staged \in Seq(Block)
  BY <1>1, <1>2, <1>3, <1>4, SliceShift, Zenon
<1>6. /\ task'.blocks = Tail(task.blocks) /\ task' \in Task /\ task'.state = "running"
      /\ task'.height = task.height
  BY <1>1, <1>2, <1>5, Zenon DEF Task
<1> HIDE DEF staged
<1>7. /\ Slice(db, chain, 0)' /\ Slice(openTx, chain, Len(db))'
      /\ Slice(task.blocks, chain, Len(db) + Len(openTx))'
      /\ Stored' = Stored
      /\ openTx' \in Seq(Block) /\ db' \in Seq(Block)
  <2>1. CASE openTx' = staged /\ db' = db
    <3>1. Slice(db', chain', 0) /\ Slice(openTx', chain', Len(db'))
      BY <1>1, <1>3, <1>5, <2>1
    <3>2. Slice(task'.blocks, chain', Len(db') + Len(openTx'))
      BY <1>1, <1>5, <1>6, <2>1, Zenon
    <3>3. Len(db) + (Len(openTx) + 1) + (Len(task.blocks) - 1)
             = Len(db) + Len(openTx) + Len(task.blocks)
      <4>1. \A a, b, c \in Nat : a + (b + 1) + (c - 1) = a + b + c  OBVIOUS
      <4> QED  BY <1>4, <4>1, Zenon
    <3>4. Stored' = Stored  BY <1>5, <1>6, <2>1, <3>3, Zenon DEF Stored
    <3> QED  BY <1>2, <1>5, <2>1, <3>1, <3>2, <3>4
  <2>2. CASE openTx' = <<>> /\ db' = db \o staged
    <3>1. /\ Slice(db \o staged, chain, 0) /\ db \o staged \in Seq(Block)
          /\ Len(db \o staged) = Len(db) + Len(staged)
      <4>1. Slice(staged, chain, 0 + Len(db))  BY <1>4, <1>5
      <4> QED  BY <1>2, <1>3, <1>5, <4>1, SliceJoin
    <3>2. Len(openTx') = 0 /\ openTx' \in Seq(Block)  BY <2>2
    <3>3. Len(db') = Len(db) + Len(staged) /\ Len(db') \in Nat  BY <1>2, <1>5, <2>2, <3>1
    <3>4. Slice(openTx', chain', Len(db'))
      <4>1. Len(db') <= Len(chain) /\ Len(chain) \in Nat  BY <1>2, <2>2, <3>1, <3>3 DEF Slice
      <4> QED  BY <1>1, <3>2, <3>3, <4>1 DEF Slice
    <3>5. Slice(task'.blocks, chain', Len(db') + Len(openTx'))
      <4>1. Len(db') + Len(openTx') = Len(db) + Len(staged)  BY <3>2, <3>3
      <4> QED  BY <1>1, <1>5, <1>6, <4>1
    <3>6. Len(db) + (Len(openTx) + 1) + 0 + (Len(task.blocks) - 1)
             = Len(db) + Len(openTx) + Len(task.blocks)
      <4>1. \A a, b, c \in Nat : a + (b + 1) + 0 + (c - 1) = a + b + c  OBVIOUS
      <4> QED  BY <1>4, <4>1, ZenonT(60)
    <3>7. Stored' = Stored  BY <1>5, <1>6, <3>2, <3>3, <3>6, Zenon DEF Stored
    <3> QED  BY <1>1, <2>2, <3>1, <3>2, <3>4, <3>5, <3>7, SMTT(30)
  <2> QED  BY <1>1, <2>1, <2>2, SMTT(30) DEF staged
<1>8. Conveyor'
  <2>1. Slice(batch, chain, pos - Len(buffer) - Len(batch))'
        /\ Slice(buffer, chain, pos - Len(buffer))'
    BY <1>1 DEF IndInv, Conveyor, Slice
  <2>2. Stored' = (pos - Len(buffer) - Len(batch))'  BY <1>1, <1>3, <1>7, SMTT(30)
  <2>3. Stored' <= (pos - Len(buffer) - Len(batch))'
    <3>1. Len(buffer) \in Nat /\ Len(batch) \in Nat /\ pos \in Nat  BY DEF IndInv, TypeOK
    <3>2. pos - Len(buffer) - Len(batch) \in Int  BY <3>1
    <3>3. (pos - Len(buffer) - Len(batch))' \in Int  BY <1>1, <3>2
    <3> QED  BY <2>2, <3>3
  <2> QED  BY <1>7, <2>1, <2>2, <2>3, SMTT(30) DEF Conveyor
<1>9. TypeOK'
  BY <1>1, <1>6, <1>7, SMTT(30) DEF IndInv, TypeOK
<1>10. Ordered' /\ Hashed' /\ FinalOutsideBuffer' /\ CommittedHanded'
  BY <1>1, <1>6 DEF IndInv, Ordered, Hashed, FinalOutsideBuffer, CommittedHanded, Handed
<1>11. Control'
  BY <1>1, <1>6 DEF IndInv, Control, Min
<1> QED  BY <1>8, <1>9, <1>10, <1>11 DEF IndInv

=============================================================================
