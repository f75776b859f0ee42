CONSTANTS
    NChunks = 2
    MaxVersion = 1
SPECIFICATION FairSpec
INVARIANTS TypeOK NoStaleToken SaveKept NoFalseAlarm ChargerFollows
PROPERTIES SavesSurvive SaveReturns
