SPECIFICATION Spec
CONSTANTS
    Params = {"p", "q"}
    Comps = {"c", "d"}
    Slots <- MCSlots
    Targets <- MCTargets
    Pointer = "ptr"
    Account <- MCAccount
    Access <- MCAccess
    MaxRetryCount = 2
    Events <- MCEvents
    MaxHash = 4
    None = None
INVARIANTS Fresh Indexed FailedPauses FailedHasRetrier
CHECK_DEADLOCK FALSE
