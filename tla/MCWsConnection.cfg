SPECIFICATION Spec
CONSTANTS
    Waiters = {"w1", "w2"}
    MaxReconnects = 3
    MaxDrops = 3
PROPERTIES EnsureReturns CloseEnds
CHECK_DEADLOCK FALSE
