------------------------------- MODULE Registers -------------------------------
(***************************************************************************)
(* The parameters as Modbus registers (eMBRegHoldingCB over Prm).  A       *)
(* request finds its first parameter by the address and then walks the     *)
(* table row by row: the addresses of the following rows do not matter.    *)
(* The menu steps the same values at the lowest priority, so a request     *)
(* falls between its load and its store, and never the other way round;    *)
(* systemTSK assigns measured values at the highest one, in the middle of  *)
(* a walk too.                                                             *)
(*                                                                         *)
(* A register is two bytes of Byte values each.  Values are unsigned.  The *)
(* compiler loads a value once for a step of the menu.                     *)
(***************************************************************************)
EXTENDS Integers, Sequences, Functions

CONSTANTS
    Byte,       \* values of a byte
    Rows,       \* the table of the parameters: valuearray
    MaxRegs     \* bound: registers of a request

\* "edited" rows have an editor of their own in the menu: utcTime and the network addresses.
\* "measured" ones are assigned by the tasks, "hidden" is mac0.  step is bigstep.
Row == [addr : Nat, size : {1, 2, 4, 8}, min : Nat, max : Nat, def : Nat, step : Nat,
        kind : {"set", "edited", "measured", "version", "hidden"}]

Word == Byte * Byte

\* One more than the largest value of the parameter's type, T of Val<T>.
Wraps(i) == CASE Rows[i].size = 1 -> Byte
              [] Rows[i].size = 2 -> Word
              [] Rows[i].size \in {4, 8} -> Word * Word

\* The limits are values of the type; only mac0, of eight bytes, is put beyond its own.
ASSUME RegistersAssumption ==
    /\ Byte \in Nat \ {0}
    /\ Rows \in Seq(Row)
    /\ \A i \in 1..Len(Rows) :
          /\ Rows[i].min <= Rows[i].def /\ Rows[i].def <= Rows[i].max
          /\ Rows[i].size # 8 => Rows[i].max < Wraps(i)
          /\ Rows[i].kind = "hidden" <=> Rows[i].size = 8
    /\ MaxRegs \in Nat \ {0}

Params == 1..Len(Rows)

\* nullptr
None == Len(Rows) + 1

VARIABLES
    val,        \* the value of every parameter
    master,     \* the request being executed; history in it: whether it spoilt its own locals
    menu,       \* the step of the menu under way: its row and the new value
    before,     \* history: val when the request began
    touched     \* history: rows that another task has assigned since

vars == <<val, master, menu, before, touched>>

NoStep == [row |-> 0, next |-> 0]

NoRequest == [at |-> "idle", mode |-> "read", first |-> None, row |-> None, left |-> 0,
              words |-> <<>>, result |-> "none", spilt |-> FALSE]

Walking == master.at = "walk"

-------------------------------------------------------------------------------
\* Conversions between values and registers.

Regs(i) == CASE Rows[i].size \in {1, 2} -> 1
             [] Rows[i].size = 4 -> 2
             [] Rows[i].size = 8 -> 0

\* Mutant: the high half first.
Encode_high_first(i, v) == IF Rows[i].size = 4 THEN <<v \div Word, v % Word>> ELSE <<v>>

\* The low half of four bytes comes first.
Encode(i, v) == IF Rows[i].size = 4 THEN <<v % Word, v \div Word>> ELSE <<v>>

\* memcpy of as many bytes as the type has: one byte is the low one.
Decode(i, ws, p) == CASE Rows[i].size = 1 -> ws[p] % Byte
                      [] Rows[i].size = 2 -> ws[p]
                      [] Rows[i].size = 4 -> ws[p] + Word * ws[p + 1]

\* Mutant: the lower limit is not looked at.
Allowed_max_only(i, v) == v <= Rows[i].max

Allowed(i, v) == Rows[i].min <= v /\ v <= Rows[i].max

\* getFwVer overwrites what was written.
Called(i, v) == IF Rows[i].kind = "version" THEN Rows[i].def ELSE v

-------------------------------------------------------------------------------
\* eMBRegHoldingCB.

\* Row i is the first with address a, or None.
getbyaddress(a, i) ==
    /\ i \in Params => Rows[i].addr = a
    /\ \A k \in Params : k < i => Rows[k].addr # a

Begins(mode, a, n, ws) ==
    /\ master.at = "idle"
    /\ \E i \in 1..None :
          /\ getbyaddress(a, i)
          /\ master' = [at |-> "walk", mode |-> mode, first |-> i, row |-> i, left |-> n,
                        words |-> ws, result |-> "none", spilt |-> FALSE]
    /\ before' = val
    /\ touched' = {}
    /\ UNCHANGED <<val, menu>>

MasterReads == \E a \in {Rows[i].addr : i \in Params} \cup {0}, n \in 1..MaxRegs :
    Begins("read", a, n, <<>>)

MasterWrites ==
    \E a \in {Rows[i].addr : i \in Params} \cup {0}, n \in 1..MaxRegs :
        \E ws \in [1..n -> 0..(Word - 1)] : Begins("write", a, n, ws)

Ends(result) == master' = [master EXCEPT !.at = "done", !.result = result]

\* Mutant: one row for every register.
getNext_per_register(i) == IF Rows[i].size = 4 /\ i + 2 <= None THEN i + 2 ELSE i + 1

getNext(i) == i + 1

Served ==
    /\ Walking
    /\ master.left = 0
    /\ Ends("ok")
    /\ UNCHANGED <<val, menu, before, touched>>

NoRow ==
    /\ Walking
    /\ master.left > 0
    /\ master.row = None
    /\ Ends("noreg")
    /\ UNCHANGED <<val, menu, before, touched>>

\* One register of a parameter of two.
HalfAsked == Rows[master.row].size = 4 /\ master.left < 2

Halves ==
    /\ Walking
    /\ master.left > 0 /\ master.row \in Params
    /\ HalfAsked
    /\ Ends("inval")
    /\ UNCHANGED <<val, menu, before, touched>>

AtRow(mode) ==
    /\ Walking /\ master.mode = mode
    /\ master.left > 0 /\ master.row \in Params
    /\ ~HalfAsked

ReadsRow ==
    /\ AtRow("read")
    /\ Rows[master.row].size # 8
    /\ LET i == master.row
           v == Called(i, val[i])
       IN  /\ val' = [val EXCEPT ![i] = v]
           /\ master' = [master EXCEPT !.row = getNext(i), !.left = @ - Regs(i),
                                       !.words = @ \o Encode(i, v)]
    /\ UNCHANGED <<menu, before, touched>>

WritesRow ==
    /\ AtRow("write")
    /\ Rows[master.row].size # 8
    /\ LET i == master.row
           v == Decode(i, master.words, Len(master.words) - master.left + 1)
       IN  IF Allowed(i, v)
           THEN /\ val' = [val EXCEPT ![i] = Called(i, v)]
                /\ master' = [master EXCEPT !.row = getNext(i), !.left = @ - Regs(i)]
           ELSE /\ Ends("inval")
                /\ UNCHANGED val
    /\ UNCHANGED <<menu, before, touched>>

\* mac0 has eight bytes and the buffer four: what lies behind it is overwritten.  It may be
\* nothing that is used, the registers that are left, the size, which then adds registers
\* to the answer, or a pointer: what such a walk does is not described any further.
ReadsBehind ==
    /\ AtRow("read")
    /\ Rows[master.row].size = 8
    /\ \/ master' = [master EXCEPT !.row = getNext(master.row)]
       \/ \E n \in 0..MaxRegs, ws \in {<<>>, <<0>>, <<0, 0>>} :
             master' = [master EXCEPT !.row = getNext(master.row), !.left = n,
                                      !.words = @ \o ws, !.spilt = TRUE]
       \/ master' = [master EXCEPT !.at = "halted"]
    /\ UNCHANGED <<val, menu, before, touched>>

\* Its value becomes what lies in the buffer and behind it, if that is in its range.
WritesFromBehind ==
    /\ AtRow("write")
    /\ Rows[master.row].size = 8
    /\ \/ \E v \in Rows[master.row].min..Rows[master.row].max :
             /\ val' = [val EXCEPT ![master.row] = v]
             /\ touched' = touched \cup {master.row}
             /\ master' = [master EXCEPT !.row = getNext(master.row)]
       \/ /\ Ends("inval")
          /\ UNCHANGED <<val, touched>>
    /\ UNCHANGED <<menu, before>>

\* eMBPoll sends the answer.
Answers ==
    /\ master.at = "done"
    /\ master' = NoRequest
    /\ before' = val
    /\ touched' = {}
    /\ UNCHANGED <<val, menu>>

-------------------------------------------------------------------------------
\* The other tasks.

Assigns(i, v) ==
    /\ val' = [val EXCEPT ![i] = v]
    /\ before' = IF master.at = "idle" THEN val' ELSE before
    /\ touched' = IF master.at = "idle" THEN {} ELSE touched \cup {i}

\* Val::stepsize.
Raised(i, v, d) == IF d > Rows[i].max - v THEN Rows[i].max ELSE v + d

\* Mutant: no lower limit.
Lowered_unlimited(i, v, d) == v - d

Lowered(i, v, d) == IF d > v - Rows[i].min THEN Rows[i].min ELSE v - d

\* bigstep(1), bigstep(-1) and setdef, of unchangeable items too: a measured voltage is one.
MenuLoads ==
    /\ master.at = "idle"
    /\ menu = NoStep
    /\ \E i \in Params :
          /\ Rows[i].kind \in {"set", "measured"}
          /\ menu' \in {[row |-> i, next |-> Raised(i, val[i], Rows[i].step)],
                        [row |-> i, next |-> Lowered(i, val[i], Rows[i].step)],
                        [row |-> i, next |-> Rows[i].def]}
    /\ UNCHANGED <<val, master, before, touched>>

\* A request may have come in between: its value is lost.
MenuStores ==
    /\ master.at = "idle"
    /\ menu # NoStep
    /\ Assigns(menu.row, menu.next)
    /\ menu' = NoStep
    /\ UNCHANGED master

\* The editors, and rtcSelect, store a value of the type without a look at the limits.
EditorStores ==
    /\ master.at = "idle"
    /\ menu = NoStep
    /\ \E i \in Params :
          /\ Rows[i].kind = "edited"
          /\ \E v \in 0..(Wraps(i) - 1) : Assigns(i, v)
    /\ UNCHANGED <<master, menu>>

\* systemTSK, adcTSK.
Measures ==
    /\ master.at # "halted"
    /\ \E i \in Params :
          /\ Rows[i].kind = "measured"
          /\ \E v \in Rows[i].min..Rows[i].max : Assigns(i, v)
    /\ UNCHANGED <<master, menu>>

-------------------------------------------------------------------------------
\* systemTSK has put the address of the device into mac0, beyond its limit.
Init ==
    /\ val = [i \in Params |-> IF Rows[i].kind = "hidden" THEN Rows[i].max + 1 ELSE Rows[i].def]
    /\ master = NoRequest
    /\ menu = NoStep
    /\ before = val
    /\ touched = {}

Walks == \/ Served \/ NoRow \/ Halves \/ ReadsRow \/ WritesRow
         \/ ReadsBehind \/ WritesFromBehind

Next == \/ MasterReads \/ MasterWrites \/ Walks \/ Answers
        \/ MenuLoads \/ MenuStores \/ EditorStores \/ Measures

Spec == Init /\ [][Next]_vars
-------------------------------------------------------------------------------
\* Properties

TypeOK ==
    /\ val \in [Params -> Nat]
    /\ master \in [at : {"idle", "walk", "done", "halted"}, mode : {"read", "write"},
                   first : 1..None, row : 1..None, left : 0..MaxRegs, words : Seq(Nat),
                   result : {"none", "ok", "noreg", "inval"}, spilt : BOOLEAN]
    /\ menu \in [row : 0..Len(Rows), next : Nat]
    /\ before \in [Params -> Nat]
    /\ touched \subseteq Params

\* Every parameter that the menu does not edit as a whole, and but mac0, stays within its
\* limits, whatever registers a master writes, wherever a write is refused half-way, and
\* although the menu stores a value it computed from one that the master has replaced since.
\* Of the edited ones utcTime leaves its limits: a clock before 2017 or after 2106.
InRange ==
    \A i \in Params : Rows[i].kind \notin {"hidden", "edited"}
                        => Rows[i].min <= val[i] /\ val[i] <= Rows[i].max

\* The rows a request has passed, and the place of row i among its registers.
Passed == master.first..(master.row - 1)

Sizes == [i \in Params |-> Regs(i)]

Place(i) == SumFunctionOnSet(Sizes, master.first..(i - 1))

\* Row i was assigned by nobody else since the request began.
Own(i) == i \notin touched /\ Rows[i].size # 8

\* The registers of row i, as the request has them, are those of its value.
Agrees(i) ==
    LET ws == SubSeq(master.words, Place(i) + 1, Place(i) + Regs(i))
    IN  IF Rows[i].size = 1 THEN ws[1] % Byte = val[i] ELSE ws = Encode(i, val[i])

\* A write that was answered without an error has put every register it carried into the
\* row it belongs to; one that was refused has done so for the rows before the refused one.
\* No other row has changed.
WrittenAsAsked ==
    master.at = "done" /\ master.mode = "write" =>
        /\ \A i \in Passed : Own(i) =>
              IF Rows[i].kind = "version" THEN val[i] = Rows[i].def ELSE Agrees(i)
        /\ \A i \in Params \ (Passed \cup touched) : val[i] = before[i]
        /\ master.result = "ok" => Place(master.row) = Len(master.words)

\* The answer to a read that did not spoil the walk at mac0 has the registers asked for and
\* no more, each of them that of its row, although systemTSK assigns rows in the middle.
AnsweredAsStored ==
    master.at = "done" /\ master.mode = "read" /\ ~master.spilt =>
        /\ Len(master.words) = Place(master.row)
        /\ master.result = "ok" <=> master.left = 0
        /\ \A i \in Passed : Own(i) => Agrees(i)
===============================================================================
