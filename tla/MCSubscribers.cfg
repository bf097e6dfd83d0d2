CONSTANTS
    Attrs <- NoKeys
    Balances <- NoKeys
    Slots <- NoKeys
    AccBalances <- NoKeys
    Txs <- PlainTxs
    StartBlock = 1
    InitialFinal = 1
    BatchSize = 0
    PartialBlocks = TRUE
    MaxHash = 3
    MaxFinal = 2
    MaxPartials = 2
    MaxEmpty = 0
    MaxFaults = 1
    Readers = {full, part}
    PartialReaders = {part}
    ControlCapacity = 1
    ChannelCapacity = 1
SPECIFICATION SubFairSpec
INVARIANTS FeedConnected UpToDate
PROPERTY RunnerReturns
CHECK_DEADLOCK FALSE
