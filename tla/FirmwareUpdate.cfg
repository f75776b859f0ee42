CONSTANTS
    Images = {old, new, other}
    Factory = old
    Padded = new
    None = None
    NSectors = 2
    NCells = 4
    Sector <- MCSector
    Size <- MCSize
    Content <- MCContent
    Blank = Blank
    Torn = Torn
    Short = Short
    ShortOverlay = FALSE
SPECIFICATION FairSpec
INVARIANTS TypeOK NeverBricked CleanUploadCommits
PROPERTIES KeepsPromise BootRunsCommitted
