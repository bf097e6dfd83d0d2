------------------------------- MODULE Indexer -------------------------------
(***************************************************************************)
(* The indexer process: the extractor with the dynamic contract indexer as *)
(* its plugin, the pending deltas of the RPC service, which follow the     *)
(* extractor's messages, and a request that reads the database and the     *)
(* pending deltas.  Each part is specified in a module of its own; here    *)
(* they take steps in any order, and a restart of the process loses what   *)
(* all of them hold in memory.                                             *)
(***************************************************************************)
EXTENDS DciExtractor, RpcState

indexerVars == <<rpcVars, dci>>

IndexerInit == RpcInit /\ dci = Initialize(<<>>)

\* The handlers of the extractor with its plugin, and its commit task.
Extract ==
    /\ \/ DciDeliverBlock
       \/ DciDeliverPartial(FALSE) \/ DciDeliverPartial(TRUE)
       \/ DciUndo
       \/ /\ DeliverEmpty \/ JoinCommit \/ Emit \/ CommitBlock \/ CommitFails \/ CommitDone
          /\ UNCHANGED dci
    /\ UNCHANGED service
    /\ Watch

RestartIndexer == RestartService /\ dci' = Initialize(db) /\ req' = NoRequest

IndexerNext ==
    \/ Extract
    \/ (Send \/ Receive) /\ Watch /\ UNCHANGED dci
    \/ (CalculateVersions \/ ReadDb \/ Respond) /\ UNCHANGED dci
    \/ RestartIndexer

IndexerSpec == IndexerInit /\ [][IndexerNext]_indexerVars

=============================================================================
