SPECIFICATION Spec
CONSTANTS
    Calls = {c1, c2}
    BufferSize = 1
    MaxWire = 2
    MaxDrops = 2
    None = None
INVARIANT ServedIsKnown
PROPERTIES OrphanRemoved PendingResolved EndingEnds
CHECK_DEADLOCK FALSE
