SPECIFICATION Spec
CONSTANTS
    NStreams = 2
    Scenarios <- SafetyScenarios
INVARIANTS HistoryIsChain  FeedSurvivesReorg
CHECK_DEADLOCK FALSE
