CONSTANTS
    Attrs <- NoKeys
    Balances <- NoKeys
    Slots <- NoKeys
    AccBalances <- NoKeys
    Txs <- PlainTxs
    StartBlock = 1
    InitialFinal = 1
    BatchSize = 1
    PartialBlocks = TRUE
    MaxHash = 4
    MaxFinal = 3
    MaxPartials = 2
    MaxEmpty = 1
    MaxFaults = 1
    ChannelCapacity = 1
    Versions = {0, 2}
    NoValue = NoValue
SPECIFICATION IndexerSpec
INVARIANTS
    DbIsChainPrefix Pipeline OnlyFinalLeavesBuffer 
    CommittedBelowFinality IndInv
    PdTypeOK PendingNeverPanics PendingIsSuffix DroppedOnlyWhenHandedOver AgreesWhenCaughtUp
    DciOnBranch 
    ResponseIsVersionAtRest
CHECK_DEADLOCK FALSE
