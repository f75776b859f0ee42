CONSTANTS
    N = 2
    T = 2
    MaxRate = 1
    MaxLate = 3
    MaxAge = 6
SPECIFICATION FairSpec
INVARIANTS TypeOK NoPulseMissed CountedSinceClear MinuteHasPassed
PROPERTIES NeverTooLow MinuteEnds
