------------------------------ MODULE MCRegisters ------------------------------
(***************************************************************************)
(* A table with a row of every kind: a version number that its callback    *)
(* restores, a setting of four bytes whose limits cut its range on both    *)
(* sides and one of a byte, the clock, here a byte with a lower limit, the *)
(* row of eight bytes, which has the address of the first row, and a       *)
(* measured value behind them.                                             *)
(***************************************************************************)
EXTENDS Registers

MCRows == <<
    [addr |-> 1, size |-> 2, min |-> 0, max |-> 3, def |-> 2, step |-> 0, kind |-> "version"],
    [addr |-> 3, size |-> 4, min |-> 3, max |-> 4, def |-> 4, step |-> 1, kind |-> "set"],
    [addr |-> 2, size |-> 1, min |-> 0, max |-> 1, def |-> 1, step |-> 1, kind |-> "set"],
    [addr |-> 1, size |-> 1, min |-> 1, max |-> 1, def |-> 1, step |-> 1, kind |-> "edited"],
    [addr |-> 1, size |-> 8, min |-> 0, max |-> 0, def |-> 0, step |-> 0, kind |-> "hidden"],
    [addr |-> 4, size |-> 1, min |-> 0, max |-> 1, def |-> 0, step |-> 0, kind |-> "measured"] >>
===============================================================================
