\* The image of the user parameters is three words; two are enough for a first and a last one.  With Every = 0 the pulse that follows a start lets
\* systemTSK save before, in or after the save of startupTSK.
SPECIFICATION Spec
CONSTANTS
    Words = 2
    Every = 0
    MaxCount = 2
INVARIANTS
    TypeOK
    TornOnlyIfCut
    NewestKept
    SettingTaken
    NobodyWaitsInVain
    StandsBySave
PROPERTIES
    CallsEnd
