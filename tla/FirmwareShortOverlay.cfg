CONSTANTS
    Images = {old, new, other}
    Factory = old
    Padded = new
    None = None
    NSectors = 2
    NCells = 4
    Sector <- MCSector
    Size <- MCSize
    Content <- MCContent
    Blank = Blank
    Torn = Torn
    Short = Short
    ShortOverlay = TRUE
SPECIFICATION Spec
INVARIANT CheckStaysInside
