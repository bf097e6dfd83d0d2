---------------------------- MODULE DciExtractor ----------------------------
(***************************************************************************)
(* An extractor with the dynamic contract indexer (DCI) as its plugin:     *)
(* protocol_extractor.rs hands every block message to process_block_update *)
(* before the block enters the partial buffer or the reorg buffer, and     *)
(* every undo signal to process_revert before the purge.  An error of the  *)
(* plugin is an error of the handler.                                      *)
(*                                                                         *)
(* What the DCI finds out about a block is its own specification           *)
(* (DynamicContractIndexer).  Here each block writes its hash into one     *)
(* plain key and adds it to one set, so that the cache tells which blocks  *)
(* it holds the results of.                                                *)
(***************************************************************************)
EXTENDS ProtocolExtractor

CONSTANT NoValue

VARIABLE dci

C == INSTANCE VersionedCache WITH
        Keys <- {"result", "tracked"}, SetKeys <- {"tracked"}, None <- NoValue

Hashes(blocks) == {blocks[i].hash : i \in DOMAIN blocks}

\* DynamicContractIndexer::initialize: the permanent maps from the database.
Initialize(blocks) ==
    [permanent |->
        [k \in {"result", "tracked"} |->
            CASE blocks = <<>> -> NoValue
              [] blocks # <<>> /\ k = "result" -> blocks[Len(blocks)].hash
              [] blocks # <<>> /\ k = "tracked" -> Hashes(blocks)],
     pending |-> <<>>]

\* process_block_update of block b, reported with final height f.
Header(b) == [hash |-> b.hash, parent |-> b.parent, number |-> b.number]

Traced(b) ==
    C!Put(C!Put(C!EnsureLayer(dci, Header(b)), "result", b.hash), "tracked", {b.hash})

DciFails(b, f) == C!LayerFails(dci, Header(b)) \/ C!FinalityFails(Traced(b), f)

ProcessBlockUpdate(b, f) == dci' = C!HandleFinality(Traced(b), f)

DciDeliverBlock ==
    /\ Ready /\ partial = <<>>
    /\ \E b \in NextBlocks, f \in fin .. MaxFinal :
          /\ fin' = f
          /\ IF DciFails(b, Min(f, b.number))
             THEN /\ Fail
                  /\ UNCHANGED <<chain, pos, tip, nextHash, empties, faults, gateway, dci>>
             ELSE /\ DeliverBlock
                  /\ mode' = "running" => cur'.block = b
                  /\ ProcessBlockUpdate(b, Min(f, b.number))

DciDeliverPartial(isLast) ==
    /\ PartialBlocks /\ Ready /\ pos = Len(chain) /\ nextHash <= MaxHash
    /\ \E tx \in NewTxs, f \in fin .. Min(tip.number, MaxFinal) :
          LET p == MergePartial(tx)
          IN  /\ p.idx < MaxPartials
              /\ fin' = f
              /\ IF DciFails(p.block, f)
                 THEN /\ Fail
                      /\ UNCHANGED <<chain, pos, tip, nextHash, empties, faults, gateway, dci>>
                 ELSE /\ DeliverPartial(isLast)
                      /\ mode' = "running" =>
                            p.block = IF isLast THEN cur'.block ELSE partial'[1].block
                      /\ ProcessBlockUpdate(p.block, f)

\* Mutant: the DCI is not told about the revert of a partial block.
ProcessRevertFullOnly(t) ==
    dci' = IF first /\ partial = <<>> THEN C!RevertTo(dci, t.hash) ELSE dci

\* The first message is ignored before it gets to the DCI.
ProcessRevert(t) == dci' = IF first THEN C!RevertTo(dci, t.hash) ELSE dci

DciUndo ==
    /\ Ready
    /\ \E t \in UndoTargets :
          IF first /\ C!RevertFails(dci, t.hash)
          THEN Fail /\ UNCHANGED <<provider, gateway, dci>>
          ELSE /\ Undo
               /\ mode' = "running" => tip' = t
               /\ ProcessRevert(t)

-----------------------------------------------------------------------------
(* Properties *)

\* The cache holds the results of exactly the blocks delivered on the current
\* branch: of none that was reverted, partial or full, whatever became final,
\* failed to be written or was lost with a restart in between, and reads the
\* newest of them.
DciOnBranch ==
    mode = "running" =>
        LET n == Len(dci.pending)
        IN  IF History = <<>>
            THEN C!Read(dci, n, "result") = NoValue /\ C!Read(dci, n, "tracked") = NoValue
            ELSE /\ C!Read(dci, n, "result") = History[Len(History)].hash
                 /\ C!Read(dci, n, "tracked") = Hashes(History)

DciAccepts(b, f) == ~Rejected(b, f) /\ (buffer # <<>> \/ f = b.number) => ~DciFails(b, f)

\* What the reorg buffer accepts, the DCI accepts, although it gives up blocks
\* at every finality and the reorg buffer only in batches: no block on top of
\* the last one, full or partial, and no revert makes it return an error.  The
\* first block after a start must be final.
DciNeverRefuses ==
    Ready =>
        /\ partial = <<>> =>
              \A b \in NextBlocks, f \in fin .. MaxFinal : DciAccepts(b, Min(f, b.number))
        /\ PartialBlocks /\ pos = Len(chain) =>
              \A tx \in NewTxs, f \in fin .. Min(tip.number, MaxFinal) :
                 DciAccepts(MergePartial(tx).block, f)
        /\ first =>
              \A t \in UndoTargets :
                 ~PurgeFails(buffer, t.hash) => ~C!RevertFails(dci, t.hash)

=============================================================================
