SPECIFICATION Spec
CONSTANTS
    MaxRetries = 2
    StaleRetries = 1
    Scenarios <- MCScenarios
INVARIANTS   AboveIsStaged EndsWhenBarren
CHECK_DEADLOCK FALSE
