CONSTANTS
    NServers = 2
    MaxChains = 3
    MaxAnswers = 2
SPECIFICATION Spec
INVARIANT SingleSync
CHECK_DEADLOCK FALSE
