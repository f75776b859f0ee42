\* Two listening netconns leave two of the four for clients and reports, so one
\* message in each accept box is enough to empty the pool in every order.
SPECIFICATION Spec
CONSTANTS
    Netconns = {n1, n2, n3, n4}
    None = None
    Refused = Refused
    MaxBox = 1
    MaxSent = 1
    Setup = 2
INVARIANTS
    TypeOK
    NoneShared
    NoneForgotten
    AnsweredInTurn
PROPERTIES
    BrowsersLetGo
    MastersAreServed
    RadmonGoesOn
\* A fault stops the processor.
CHECK_DEADLOCK FALSE
