CONSTANTS
    Attrs <- AttrKey
    Balances <- BalanceKey
    Slots <- SlotKey
    AccBalances <- AccBalanceKey
    Txs <- RevertTxs
    StartBlock = 1
    InitialFinal = 1
    BatchSize = 0
    PartialBlocks = FALSE
    MaxHash = 4
    MaxFinal = 3
    MaxPartials = 0
    MaxEmpty = 0
    MaxFaults = 0
SPECIFICATION Spec

PROPERTIES RevertBalancesAtTip
CHECK_DEADLOCK FALSE
