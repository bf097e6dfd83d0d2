SPECIFICATION FairSpec
CONSTANTS
    NStreams = 2
    Scenarios <- LiveScenarios
PROPERTY SettlesOnTip
CHECK_DEADLOCK FALSE
