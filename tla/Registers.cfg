\* Three registers let a request cover a row of two registers and one before or behind it, or
\* walk from a setting over the row of eight bytes to the measured one.
SPECIFICATION Spec
CONSTANTS
    Byte = 2
    Rows <- MCRows
    MaxRegs = 3
INVARIANTS
    TypeOK
    InRange
    WrittenAsAsked
    AnsweredAsStored
\* A read of the row of eight bytes overwrites the stack: the task may stop for good.
CHECK_DEADLOCK FALSE
