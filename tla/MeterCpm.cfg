CONSTANTS
    N = 3
    T = 1
    MaxRate = 1
    MaxLate = 2
    MaxAge = 8
SPECIFICATION Spec
PROPERTY CpmIsLastMinute
