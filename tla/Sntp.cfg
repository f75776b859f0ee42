CONSTANTS
    NServers = 2
    MaxChains = 3
    MaxAnswers = 2
SPECIFICATION FairSpec
INVARIANTS TypeOK KeepsTrying OneChain
PROPERTY EventuallySynced
CHECK_DEADLOCK FALSE
