---------------------------- MODULE IndexerProofs ----------------------------
(***************************************************************************)
(* Theorems about Indexer, for every value of the constants: the plugin,   *)
(* the service and its requests leave the extractor's invariant alone, the *)
(* service's variables keep their types, and what it holds is the newest   *)
(* part of what it accepted.                                               *)
(***************************************************************************)
EXTENDS Indexer, ProtocolExtractorProofs

\* A block that the plugin refuses ends the runner like one the extractor refuses.
LEMMA DciDeliverBlockPreserves == IndInv /\ DciDeliverBlock => IndInv'
<1> SUFFICES ASSUME IndInv, DciDeliverBlock PROVE IndInv'  OBVIOUS
<1>1. CASE DeliverBlock  BY <1>1, DeliverBlockPreserves
<1>2. CASE ~DeliverBlock
  <2>1. PICK b \in NextBlocks, f \in fin .. MaxFinal :
           /\ fin' = f /\ Fail
           /\ UNCHANGED <<chain, pos, tip, nextHash, empties, faults, gateway, dci>>
    BY <1>2, Zenon DEF DciDeliverBlock
  <2>2. fin \in Nat /\ MaxFinal \in Nat
    BY ConstantsAssumption DEF IndInv, TypeOK
  <2>3. fin' \in Nat /\ fin' >= fin  BY <2>1, <2>2
  <2>4. Ready /\ Fail /\ UNCHANGED gateway
        /\ UNCHANGED <<chain, pos, tip, nextHash, empties, faults>>
    BY <2>1, Zenon DEF DciDeliverBlock
  <2> QED  BY <2>3, <2>4, RefusedPreserves
<1> QED  BY <1>1, <1>2

LEMMA DciDeliverPartialPreserves ==
    ASSUME NEW isLast \in BOOLEAN, IndInv, DciDeliverPartial(isLast)
    PROVE  IndInv'
<1>1. CASE DeliverPartial(isLast)  BY <1>1, DeliverPartialPreserves
<1>2. CASE ~DeliverPartial(isLast)
  <2>1. PICK tx \in NewTxs, f \in fin .. Min(tip.number, MaxFinal) :
           /\ fin' = f /\ Fail
           /\ UNCHANGED <<chain, pos, tip, nextHash, empties, faults, gateway, dci>>
    BY <1>2, Zenon DEF DciDeliverPartial
  <2>2. fin \in Nat /\ Min(tip.number, MaxFinal) \in Nat
    BY ConstantsAssumption DEF IndInv, TypeOK, Min
  <2>3. fin' \in Nat /\ fin' >= fin  BY <2>1, <2>2
  <2>4. Ready /\ Fail /\ UNCHANGED gateway
        /\ UNCHANGED <<chain, pos, tip, nextHash, empties, faults>>
    BY <2>1, Zenon DEF DciDeliverPartial
  <2> QED  BY <2>3, <2>4, RefusedPreserves
<1> QED  BY <1>1, <1>2

LEMMA DciUndoPreserves == IndInv /\ DciUndo => IndInv'
<1> SUFFICES ASSUME IndInv, DciUndo PROVE IndInv'  OBVIOUS
<1>1. CASE Undo  BY <1>1, UndoPreserves
<1>2. CASE ~Undo
  <2>1. Ready /\ Fail /\ UNCHANGED <<provider, gateway, dci>>
    BY <1>2, Zenon DEF DciUndo
  <2>2. UNCHANGED <<chain, pos, tip, nextHash, empties, faults>> /\ fin' = fin
        /\ UNCHANGED gateway
    BY <2>1 DEF provider
  <2>3. fin' \in Nat /\ fin' >= fin  BY <2>2 DEF IndInv, TypeOK
  <2> QED  BY <2>1, <2>2, <2>3, RefusedPreserves
<1> QED  BY <1>1, <1>2

\* Every step of the process preserves the extractor's invariant.
LEMMA IndexerStepPreserves == IndInv /\ [IndexerNext]_indexerVars => IndInv'
<1> SUFFICES ASSUME IndInv, [IndexerNext]_indexerVars PROVE IndInv'  OBVIOUS
<1>1. CASE Extract
  <2>1. CASE DciDeliverBlock  BY <2>1, DciDeliverBlockPreserves
  <2>2. CASE DciDeliverPartial(FALSE)  BY <2>2, DciDeliverPartialPreserves, Zenon
  <2>3. CASE DciDeliverPartial(TRUE)  BY <2>3, DciDeliverPartialPreserves, Zenon
  <2>4. CASE DciUndo  BY <2>4, DciUndoPreserves
  <2>5. CASE DeliverEmpty  BY <2>5, DeliverEmptyPreserves
  <2>6. CASE JoinCommit  BY <2>6, JoinCommitPreserves, SMTT(30)
  <2>7. CASE Emit  BY <2>7, EmitPreserves
  <2>8. CASE CommitBlock  BY <2>8, CommitBlockPreserves
  <2>9. CASE CommitFails  BY <2>9, CommitFailsPreserves
  <2>10. CASE CommitDone  BY <2>10, CommitDonePreserves
  <2> QED  BY <1>1, <2>1, <2>2, <2>3, <2>4, <2>5, <2>6, <2>7, <2>8, <2>9, <2>10, Zenon
           DEF Extract
<1>2. CASE Send
  <2>1. Propagate  BY <1>2 DEF Send
  <2> QED  BY <2>1, PropagatePreserves
<1>3. CASE RestartIndexer
  <2>1. Restart  BY <1>3 DEF RestartIndexer, RestartService
  <2> QED  BY <2>1, RestartPreserves
<1>4. CASE Receive \/ UNCHANGED pdVars
  <2>1. UNCHANGED vars  BY <1>4 DEF Receive, pdVars
  <2> QED  BY <2>1, StutterPreserves
<1>5. Extract \/ Send \/ RestartIndexer \/ Receive \/ UNCHANGED pdVars
  BY Zenon DEF IndexerNext, indexerVars, rpcVars, CalculateVersions, ReadDb, Respond
<1> QED  BY <1>1, <1>2, <1>3, <1>4, <1>5, SMTT(30)

\* With the plugin refusing what it may, the service consuming at its own pace
\* and requests in flight, the extractor's inductive invariant still holds in every
\* reachable state of the process, and with it what follows from it.
THEOREM IndexerInvariance == IndexerSpec => []IndInv
<1>1. IndexerInit => IndInv  BY InitIndInv DEF IndexerInit, RpcInit, PdInit
<1> QED  BY <1>1, IndexerStepPreserves, PTL DEF IndexerSpec

-----------------------------------------------------------------------------
(* The service's reorg buffer. *)

\* What a purge leaves of a sequence of blocks.
LEMMA UnpurgedFacts ==
    ASSUME NEW s \in Seq(Block), NEW h
    PROVE  /\ FindHash(s, h) \in 0 .. Len(s)
           /\ FindHash(s, h) # 0 => s[FindHash(s, h)].hash = h
           /\ \A j \in FindHash(s, h) + 1 .. Len(s) : s[j].hash # h
           /\ Unpurged(s, h) \in Seq(Block) /\ Len(Unpurged(s, h)) = FindHash(s, h)
           /\ \A i \in 1 .. FindHash(s, h) : Unpurged(s, h)[i] = s[i]
<1> DEFINE I == {j \in DOMAIN s : s[j].hash = h}  k == FindHash(s, h)
<1>1. /\ k \in 0 .. Len(s) /\ (k # 0 => k \in I)
      /\ \A j \in k + 1 .. Len(s) : j \notin I
  BY LastIndexFound DEF FindHash
<1>2. \A j \in k + 1 .. Len(s) : j \in DOMAIN s  BY <1>1
<1>3. \A j \in k + 1 .. Len(s) : s[j].hash # h  BY <1>1, <1>2
<1> HIDE DEF k
<1>4. /\ SubSeq(s, 1, k) \in Seq(Block) /\ Len(SubSeq(s, 1, k)) = k
      /\ \A i \in 1 .. k : SubSeq(s, 1, k)[i] = s[i]
  BY <1>1, PrefixFacts
<1> QED  BY <1>1, <1>3, <1>4 DEF k, Unpurged

\* What draining leaves of a sequence of blocks.
LEMMA RetainedFacts ==
    ASSUME NEW s \in Seq(Block), NEW n
    PROVE  /\ DrainCount(s, n) \in 0 .. Len(s)
           /\ Retained(s, n) \in Seq(Block) /\ Len(Retained(s, n)) = Len(s) - DrainCount(s, n)
           /\ \A i \in 1 .. Len(s) - DrainCount(s, n) :
                 Retained(s, n)[i] = s[DrainCount(s, n) + i]
<1>1. FindNumber(s, n) \in 0 .. Len(s)  BY FirstIndexFound DEF FindNumber
<1>2. DrainCount(s, n) \in 0 .. Len(s)  BY <1>1 DEF DrainCount
<1> QED  BY <1>2, SuffixFacts, SMTT(30) DEF Retained

\* A message that is received leaves blocks in the service's buffer.
LEMMA InsertedType ==
    ASSUME NEW m \in Msg, pending \in Seq(Block)
    PROVE  Inserted(m) \in Seq(Block)
<1>1. m.block \in Block  BY DEF Msg
<1>2. InsertBlock(pending, m.block) \in Seq(Block)  BY <1>1 DEF InsertBlock
<1>3. /\ Unpurged(pending, m.block.hash) \in Seq(Block)
      /\ Retained(InsertBlock(pending, m.block), m.committed + 1) \in Seq(Block)
  BY <1>2, UnpurgedFacts, RetainedFacts
<1> QED  BY <1>2, <1>3 DEF Inserted

\* A step leaves the service alone, sends, receives or restarts it.
LEMMA ServiceSteps ==
    ASSUME [IndexerNext]_indexerVars
    PROVE  Send \/ Receive \/ RestartService \/ UNCHANGED service
BY Zenon DEF IndexerNext, indexerVars, rpcVars, pdVars, Extract, RestartIndexer,
             CalculateVersions, ReadDb, Respond

\* The service's variables keep their types, and the runner waits for room in the
\* channel before it sends (propagate_msg), whatever the extractor sends.
THEOREM ServiceTypeCorrect == IndexerSpec => []PdTypeOK
<1> DEFINE Inv == IndInv /\ PdTypeOK
<1>1. IndexerInit => Inv
  <2> SUFFICES ASSUME IndexerInit PROVE PdTypeOK
    BY InitIndInv DEF IndexerInit, RpcInit, PdInit
  <2>1. IndInv  BY InitIndInv DEF IndexerInit, RpcInit, PdInit
  <2>2. chan = <<>> /\ pending = <<>> /\ alive = TRUE /\ seen = <<>>
    BY DEF IndexerInit, RpcInit, PdInit
  <2> QED  BY <2>1, <2>2, ChannelAssumption, SMTT(30) DEF PdTypeOK, IndInv
<1>2. Inv /\ [IndexerNext]_indexerVars => Inv'
  <2> SUFFICES ASSUME IndInv, PdTypeOK, [IndexerNext]_indexerVars PROVE Inv'  OBVIOUS
  <2>1. IndInv' /\ TypeOK'  BY IndexerStepPreserves DEF IndInv
  <2>2. /\ chan \in Seq(Msg) /\ Len(chan) <= ChannelCapacity /\ pending \in Seq(Block)
        /\ alive \in BOOLEAN /\ seen \in Seq(Block) /\ out \in Seq(Msg)
        /\ ChannelCapacity \in Nat \ {0}
    BY ChannelAssumption DEF PdTypeOK, TypeOK
  <2>3. CASE Send
    <3>1. out # <<>> /\ out[1] \in Msg  BY <2>2, <2>3 DEF Send, Propagate
    <3>2. chan' \in Seq(Msg) /\ Len(chan') <= ChannelCapacity
      BY <2>2, <2>3, <3>1 DEF Send
    <3>3. UNCHANGED <<pending, alive, seen>>  BY <2>3 DEF Send
    <3> QED  BY <2>1, <2>2, <3>2, <3>3, SMTT(30) DEF PdTypeOK
  <2>4. CASE Receive
    <3> DEFINE m == Head(chan)
    <3>1. chan # <<>> /\ chan' = Tail(chan)  BY <2>4 DEF Receive
    <3>2. m \in Msg /\ chan' \in Seq(Msg) /\ Len(chan') <= ChannelCapacity
      BY <2>2, <3>1
    <3> HIDE DEF m
    <3>3. /\ Inserted(m) \in Seq(Block) /\ Unpurged(seen, m.block.hash) \in Seq(Block)
          /\ Append(seen, m.block) \in Seq(Block)
      <4>1. m.block \in Block  BY <3>2 DEF Msg
      <4> QED  BY <2>2, <3>2, <4>1, InsertedType, UnpurgedFacts
    <3>4. /\ pending' = pending \/ pending' = Inserted(m)
          /\ alive' = alive \/ alive' = FALSE
          /\ \/ seen' = seen \/ seen' = Unpurged(seen, m.block.hash)
             \/ seen' = Append(seen, m.block)
      BY <2>4, Zenon DEF Receive, m
    <3> QED  BY <2>1, <2>2, <3>2, <3>3, <3>4, Zenon DEF PdTypeOK
  <2>5. CASE RestartService
    <3>1. chan' = <<>> /\ pending' = <<>> /\ alive' = TRUE /\ seen' = db
      BY <2>5 DEF RestartService
    <3>2. db \in Seq(Block)  BY DEF PdTypeOK, TypeOK
    <3> QED  BY <2>1, <2>2, <3>1, <3>2, SMTT(30) DEF PdTypeOK
  <2>6. CASE UNCHANGED service  BY <2>1, <2>2, <2>6 DEF service, PdTypeOK
  <2> QED  BY <2>1, <2>3, <2>4, <2>5, <2>6, ServiceSteps, SMTT(30)
<1>3. Inv => PdTypeOK  OBVIOUS
<1> QED  BY <1>1, <1>2, <1>3, PTL DEF IndexerSpec

\* Appending the same block to a sequence and to its newest part.
LEMMA SuffixAppend ==
    ASSUME NEW p \in Seq(Block), NEW s \in Seq(Block), NEW b \in Block,
           Len(p) <= Len(s), Slice(p, s, Len(s) - Len(p))
    PROVE  /\ Len(Append(p, b)) <= Len(Append(s, b))
           /\ Slice(Append(p, b), Append(s, b), Len(Append(s, b)) - Len(Append(p, b)))
<1> DEFINE o == Len(s) - Len(p)
<1>1. o \in Nat /\ o + Len(p) = Len(s) /\ Len(p) \in Nat /\ Len(s) \in Nat  OBVIOUS
<1>2. \A i \in 1 .. Len(p) : p[i] = s[o + i] /\ o + i \in 1 .. Len(s)
  <2>1. \A i \in 1 .. Len(p) : p[i] = s[o + i]  BY DEF Slice
  <2>2. \A i \in 1 .. Len(p) : o + i \in 1 .. Len(s)  BY <1>1
  <2> QED  BY <2>1, <2>2
<1> HIDE DEF o
<1>3. /\ Len(Append(p, b)) = Len(p) + 1 /\ Len(Append(s, b)) = Len(s) + 1
      /\ \A i \in 1 .. Len(p) : Append(p, b)[i] = p[i]
      /\ \A i \in 1 .. Len(s) : Append(s, b)[i] = s[i]
      /\ Append(p, b)[Len(p) + 1] = b /\ Append(s, b)[Len(s) + 1] = b
  BY AppendedBlock
<1>4. /\ Len(Append(s, b)) - Len(Append(p, b)) = o /\ o + (Len(p) + 1) = Len(s) + 1
      /\ Len(Append(p, b)) <= Len(Append(s, b))
      /\ o + Len(Append(p, b)) <= Len(Append(s, b))
  BY <1>1, <1>3
<1>5. \A i \in 1 .. Len(p) + 1 : Append(p, b)[i] = Append(s, b)[o + i]
  <2> SUFFICES ASSUME NEW i \in 1 .. Len(p) + 1
               PROVE  Append(p, b)[i] = Append(s, b)[o + i]
    BY Zenon
  <2>1. CASE i \in 1 .. Len(p)  BY <1>2, <1>3, <2>1
  <2>2. CASE i = Len(p) + 1  BY <1>3, <1>4, <2>2
  <2> QED  BY <1>1, <2>1, <2>2, OneMoreIndex, Zenon
<1> QED  BY <1>3, <1>4, <1>5, Zenon DEF Slice

\* Draining the newest part of a sequence leaves a newest part.
LEMMA SuffixRetained ==
    ASSUME NEW p \in Seq(Block), NEW s \in Seq(Block), NEW n,
           Len(p) <= Len(s), Slice(p, s, Len(s) - Len(p))
    PROVE  /\ Len(Retained(p, n)) <= Len(s)
           /\ Slice(Retained(p, n), s, Len(s) - Len(Retained(p, n)))
<1> DEFINE c == DrainCount(p, n)  r == Retained(p, n)  o == Len(s) - Len(p)
<1>1. /\ c \in 0 .. Len(p) /\ Len(r) = Len(p) - c
      /\ \A i \in 1 .. Len(p) - c : r[i] = p[c + i]
  BY RetainedFacts
<1>2. \A i \in 1 .. Len(p) : p[i] = s[o + i]  BY DEF Slice
<1>3. o \in Nat /\ o + Len(p) = Len(s) /\ Len(p) \in Nat /\ Len(s) \in Nat  OBVIOUS
<1> HIDE DEF c, r, o
<1>4. /\ Len(r) <= Len(s) /\ Len(s) - Len(r) = o + c /\ o + c + Len(r) <= Len(s)
  <2>1. \A x, y \in Nat : \A z \in 0 .. x :
           x - z <= y + x /\ (y + x) - (x - z) = y + z /\ y + z + (x - z) <= y + x
    OBVIOUS
  <2>2. c \in 0 .. Len(p) /\ Len(r) = Len(p) - c /\ Len(s) = o + Len(p)  BY <1>1, <1>3
  <2>3. /\ Len(p) - c <= o + Len(p) /\ (o + Len(p)) - (Len(p) - c) = o + c
        /\ o + c + (Len(p) - c) <= o + Len(p)
    BY <1>3, <2>1, <2>2, Zenon
  <2> QED  BY <2>2, <2>3, Zenon
<1>5. \A i \in 1 .. Len(r) : c + i \in 1 .. Len(p) /\ o + (c + i) = (o + c) + i
  BY <1>1, <1>3
<1>6. \A i \in 1 .. Len(r) : r[i] = s[(o + c) + i]  BY <1>1, <1>2, <1>5, SMTT(30)
<1>7. Slice(r, s, Len(s) - Len(r))  BY <1>4, <1>6 DEF Slice
<1> QED  BY <1>4, <1>7 DEF r

\* Purging a sequence and its newest part, when the target is in that part.
LEMMA SuffixUnpurged ==
    ASSUME NEW p \in Seq(Block), NEW s \in Seq(Block), NEW h, ~PurgeFails(p, h),
           Len(p) <= Len(s), Slice(p, s, Len(s) - Len(p))
    PROVE  /\ Len(Unpurged(p, h)) <= Len(Unpurged(s, h))
           /\ Slice(Unpurged(p, h), Unpurged(s, h), Len(Unpurged(s, h)) - Len(Unpurged(p, h)))
<1> DEFINE k == FindHash(p, h)  o == Len(s) - Len(p)  u == Unpurged(p, h)  w == Unpurged(s, h)
           I == {j \in DOMAIN s : s[j].hash = h}
<1>1. /\ k \in 1 .. Len(p) /\ p[k].hash = h /\ Len(u) = k
      /\ \A j \in k + 1 .. Len(p) : p[j].hash # h
      /\ \A i \in 1 .. k : u[i] = p[i]
  <2>1. k # 0  BY DEF PurgeFails
  <2>2. /\ k \in 0 .. Len(p) /\ p[k].hash = h /\ Len(u) = k
        /\ \A j \in k + 1 .. Len(p) : p[j].hash # h
        /\ \A i \in 1 .. k : u[i] = p[i]
    BY <2>1, UnpurgedFacts
  <2> HIDE DEF k, u
  <2> QED  BY <2>1, <2>2
<1>2. \A i \in 1 .. Len(p) : p[i] = s[o + i]  BY DEF Slice
<1>3. o \in Nat /\ o + Len(p) = Len(s) /\ Len(p) \in Nat /\ Len(s) \in Nat  OBVIOUS
<1> HIDE DEF k, o, u, w
<1>4. o + k \in 1 .. Len(s) /\ o + k \in I
  <2>1. o + k \in 1 .. Len(s)  BY <1>1, <1>3, SMTT(30)
  <2>2. s[o + k].hash = h  BY <1>1, <1>2, SMTT(30)
  <2> QED  BY <2>1, <2>2
<1>5. ASSUME NEW j \in (o + k) + 1 .. Len(s) PROVE j \notin I
  <2>1. j - o \in k + 1 .. Len(p) /\ j - o \in 1 .. Len(p) /\ o + (j - o) = j
    BY <1>1, <1>3, SMTT(30)
  <2>2. s[j] = p[j - o]  BY <1>2, <2>1
  <2> QED  BY <1>1, <2>1, <2>2, SMTT(30)
<1>6. FindHash(s, h) = o + k
  <2> HIDE DEF I
  <2>1. LastIndex(s, I) = o + k  BY <1>4, <1>5, LastIndexIs, SMTT(30)
  <2> QED  BY <2>1 DEF I, FindHash
<1>7. Len(w) = o + k /\ \A i \in 1 .. o + k : w[i] = s[i]
  BY <1>6, UnpurgedFacts, SMTT(30) DEF w
<1>8. Len(u) <= Len(w) /\ Len(w) - Len(u) = o /\ o + Len(u) <= Len(w)
  BY <1>1, <1>3, <1>7, SMTT(30)
<1>9. \A i \in 1 .. k : i \in 1 .. Len(p) /\ o + i \in 1 .. o + k
  BY <1>1, <1>3, SMTT(30)
<1>10. \A i \in 1 .. Len(u) : u[i] = w[o + i]  BY <1>1, <1>2, <1>7, <1>9, Zenon
<1>11. Slice(u, w, Len(w) - Len(u))  BY <1>8, <1>10 DEF Slice
<1> QED  BY <1>8, <1>11 DEF u, w

\* What PendingDeltas holds is the newest part of what it accepted, in order,
\* although it is purged by reverts and drained by the committed height of each
\* message (insert).
THEOREM PendingSuffix == IndexerSpec => []PendingIsSuffix
<1>1. IndexerInit => PendingIsSuffix
  BY DEF IndexerInit, RpcInit, PdInit, PendingIsSuffix, Slice
<1>2. PdTypeOK /\ PendingIsSuffix /\ [IndexerNext]_indexerVars => PendingIsSuffix'
  <2> SUFFICES ASSUME PdTypeOK, PendingIsSuffix, [IndexerNext]_indexerVars
               PROVE  PendingIsSuffix'
    OBVIOUS
  <2>1. /\ chan \in Seq(Msg) /\ pending \in Seq(Block) /\ seen \in Seq(Block)
        /\ Len(pending) <= Len(seen) /\ Slice(pending, seen, Len(seen) - Len(pending))
    BY DEF PdTypeOK, PendingIsSuffix
  <2>2. CASE UNCHANGED <<pending, seen>>
    BY <2>2, Zenon DEF PendingIsSuffix, Slice
  <2>3. CASE Receive /\ ~UNCHANGED <<pending, seen>>
    <3> DEFINE m == Head(chan)
    <3>1. /\ chan # <<>> /\ ~InsertFails(m) /\ pending' = Inserted(m)
          /\ seen' = IF m.revert THEN Unpurged(seen, m.block.hash)
                     ELSE Append(seen, m.block)
      BY <2>3, Zenon DEF Receive
    <3>0. m \in Msg  BY <2>1, <3>1
    <3> HIDE DEF m
    <3>2. m.block \in Block  BY <3>0 DEF Msg
    <3>3. CASE m.revert
      <4>1. ~PurgeFails(pending, m.block.hash)  BY <3>1, <3>3 DEF InsertFails
      <4>2. pending' = Unpurged(pending, m.block.hash) /\ seen' = Unpurged(seen, m.block.hash)
        BY <3>1, <3>3 DEF Inserted
      <4> QED  BY <2>1, <4>1, <4>2, SuffixUnpurged, SMTT(30) DEF PendingIsSuffix
    <3>4. CASE ~m.revert
      <4> DEFINE p == Append(pending, m.block)  s == Append(seen, m.block)
      <4>1. /\ p \in Seq(Block) /\ s \in Seq(Block) /\ Len(p) <= Len(s)
            /\ Slice(p, s, Len(s) - Len(p))
        BY <2>1, <3>2, SuffixAppend
      <4>2. seen' = s /\ (pending' = p \/ pending' = Retained(p, m.committed + 1))
        BY <3>1, <3>4 DEF Inserted, InsertBlock
      <4> HIDE DEF p, s
      <4>3. /\ Len(Retained(p, m.committed + 1)) <= Len(s)
            /\ Slice(Retained(p, m.committed + 1), s,
                     Len(s) - Len(Retained(p, m.committed + 1)))
        BY <4>1, SuffixRetained
      <4> QED  BY <4>1, <4>2, <4>3, SMTT(30) DEF PendingIsSuffix
    <3> QED  BY <3>3, <3>4
  <2>4. CASE RestartService
    <3>1. pending' = <<>> /\ seen' = db /\ db \in Seq(Block)
      BY <2>4 DEF RestartService, PdTypeOK, TypeOK
    <3> QED  BY <3>1 DEF PendingIsSuffix, Slice
  <2>5. Send \/ UNCHANGED service => UNCHANGED <<pending, seen>>
    BY Zenon DEF Send, service
  <2> QED  BY <2>2, <2>3, <2>4, <2>5, ServiceSteps, SMTT(30)
<1> QED  BY <1>1, <1>2, ServiceTypeCorrect, PTL DEF IndexerSpec

=============================================================================
