--------------------------- MODULE Registers_proofs ---------------------------
(***************************************************************************)
(* Types, limits and requests, for every table of parameters, every width  *)
(* of a byte and requests of any length.  The limits need the new value of *)
(* a menu's step to be within them on its own: between load and store a    *)
(* request may have replaced the value it was computed from.  Requests     *)
(* need the place of each row among the registers, which is a sum.         *)
(***************************************************************************)
EXTENDS Registers, Sums, SequenceTheorems, TLAPS

\* The step of the menu stays within the limits of its row.
StepInRange ==
    menu # NoStep =>
        /\ menu.row \in Params
        /\ Rows[menu.row].kind \in {"set", "measured"}
        /\ Rows[menu.row].min <= menu.next /\ menu.next <= Rows[menu.row].max

\* A write carries at least as many registers as are left of it, and spoils nothing.
LeftInRequest ==
    /\ Walking /\ master.mode = "write" => master.left <= Len(master.words)
    /\ master.spilt => master.mode = "read"

MasterOK ==
    master \in [at : {"idle", "walk", "done", "halted"}, mode : {"read", "write"},
                first : 1..None, row : 1..None, left : 0..MaxRegs, words : Seq(Nat),
                result : {"none", "ok", "noreg", "inval"}, spilt : BOOLEAN]

\* A value row i may have.
Holds(i, v) ==
    IF Rows[i].kind \in {"hidden", "edited"} THEN Rows[i].kind = "edited" => v < Wraps(i)
    ELSE v \in Rows[i].min..Rows[i].max

InType == \A i \in Params : Holds(i, val[i])

Inv == TypeOK /\ InType /\ StepInRange /\ LeftInRequest

-------------------------------------------------------------------------------
LEMMA RowTypes ==
    /\ Len(Rows) \in Nat
    /\ \A i \in Params :
          /\ Rows[i].addr \in Nat /\ Rows[i].size \in {1, 2, 4, 8}
          /\ Rows[i].min \in Nat /\ Rows[i].max \in Nat /\ Rows[i].def \in Nat
          /\ Rows[i].step \in Nat
          /\ Rows[i].min <= Rows[i].def /\ Rows[i].def <= Rows[i].max
<1>1. Len(Rows) \in Nat /\ \A i \in Params : Rows[i] \in Row
  BY RegistersAssumption DEF Params
<1> QED
  BY <1>1, RegistersAssumption DEF Params, Row

LEMMA WordType == Word \in Nat /\ Word > 0 /\ Word * Word \in Nat /\ Word * Word > 0
<1>1. Word \in Nat /\ Word > 0
  BY RegistersAssumption DEF Word
<1>2. \A w \in Nat : w > 0 => w * w \in Nat /\ w * w > 0
  OBVIOUS
<1> QED
  BY <1>1, <1>2

LEMMA DecodedNat ==
    ASSUME NEW i \in Params, NEW ws \in Seq(Nat), NEW p \in Nat \ {0},
           Rows[i].size # 8, p + Regs(i) - 1 <= Len(ws)
    PROVE  Decode(i, ws, p) \in Nat
<1>1. CASE Rows[i].size = 1
  <2>1. ws[p] \in Nat
    BY <1>1 DEF Regs
  <2> QED
    BY <1>1, <2>1, RegistersAssumption DEF Decode
<1>2. CASE Rows[i].size = 2
  BY <1>2 DEF Decode, Regs
<1>3. CASE Rows[i].size = 4
  <2>1. ws[p] \in Nat /\ ws[p + 1] \in Nat
    BY <1>3 DEF Regs
  <2>2. Word * ws[p + 1] \in Nat
    BY <2>1, WordType
  <2> QED
    BY <1>3, <2>1, <2>2 DEF Decode
<1> QED
  BY <1>1, <1>2, <1>3, RowTypes

LEMMA EncodedNats ==
    ASSUME NEW i \in Params, NEW v \in Nat
    PROVE  Encode(i, v) \in Seq(Nat)
<1>1. v % Word \in Nat /\ v \div Word \in Nat
  BY WordType
<1> QED
  BY <1>1 DEF Encode

\* A step of the menu keeps to the limits if its value did.
LEMMA SteppedInRange ==
    ASSUME NEW i \in Params, NEW v \in Nat, NEW d \in Nat,
           Rows[i].min <= v, v <= Rows[i].max
    PROVE  /\ Raised(i, v, d) \in Rows[i].min..Rows[i].max
           /\ Lowered(i, v, d) \in Rows[i].min..Rows[i].max
<1>1. Rows[i].min \in Nat /\ Rows[i].max \in Nat
  BY RowTypes
<1>2. Raised(i, v, d) \in Rows[i].min..Rows[i].max
  BY <1>1 DEF Raised
<1>3. Lowered(i, v, d) \in Rows[i].min..Rows[i].max
  BY <1>1 DEF Lowered
<1> QED
  BY <1>2, <1>3

\* A value its row may have may be assigned to it.
LEMMA AssignedInType ==
    ASSUME val \in [Params -> Nat], InType, NEW i \in Params, NEW v \in Nat,
           Holds(i, v), val' = [val EXCEPT ![i] = v]
    PROVE  InType'
<1> SUFFICES ASSUME NEW k \in Params PROVE Holds(k, val'[k])
  BY DEF InType, Holds, Wraps, Word
<1>1. CASE k = i
  BY <1>1
<1>2. CASE k # i
  BY <1>2 DEF InType
<1> QED
  BY <1>1, <1>2

\* A row that is passed has its registers left in the request.
LEMMA RegistersLeft ==
    ASSUME TypeOK, master.row \in Params, master.left > 0, ~HalfAsked, Rows[master.row].size # 8
    PROVE  /\ Regs(master.row) \in {1, 2} /\ Regs(master.row) <= master.left
           /\ master.row + 1 \in 1..None /\ master.left - Regs(master.row) \in 0..MaxRegs
<1>1. master.left \in Nat /\ master.left <= MaxRegs /\ MaxRegs \in Nat
  BY RegistersAssumption DEF TypeOK
<1>2. Regs(master.row) \in {1, 2} /\ Regs(master.row) <= master.left
  <2>1. CASE Rows[master.row].size \in {1, 2}
    BY <1>1, <2>1 DEF Regs
  <2>2. CASE Rows[master.row].size = 4
    BY <1>1, <2>2 DEF Regs, HalfAsked
  <2> QED
    BY <2>1, <2>2, RowTypes
<1>3. master.row + 1 \in 1..None
  BY RowTypes DEF Params, None
<1> QED
  BY <1>1, <1>2, <1>3

LEMMA InitInv == Init => Inv
<1> SUFFICES ASSUME Init PROVE Inv
  OBVIOUS
<1> USE RowTypes DEF Init
<1>1. val \in [Params -> Nat]
  OBVIOUS
<1>2. MasterOK
  BY RegistersAssumption DEF MasterOK, NoRequest, None
<1>3. TypeOK
  BY <1>1, <1>2 DEF TypeOK, MasterOK, NoStep
<1>4. InType
  <2>1. ASSUME NEW i \in Params PROVE Holds(i, val[i])
    <3>1. Rows[i].kind = "edited" => Rows[i].def < Wraps(i)
      <4>1. Rows[i].kind = "edited" => Rows[i].size # 8
        BY RegistersAssumption DEF Params
      <4>2. Rows[i].size # 8 => Rows[i].max < Wraps(i) /\ Wraps(i) \in Nat
        BY RegistersAssumption, WordType DEF Params, Wraps
      <4> QED
        BY <4>1, <4>2
    <3> QED
      BY <3>1 DEF Holds
  <2> QED
    BY <2>1 DEF InType
<1>5. StepInRange /\ LeftInRequest
  BY DEF StepInRange, LeftInRequest, Walking, NoRequest
<1> QED
  BY <1>3, <1>4, <1>5 DEF Inv

-------------------------------------------------------------------------------
LEMMA RequestKeeps ==
    ASSUME NEW mode \in {"read", "write"}, NEW a \in Nat, NEW n \in 1..MaxRegs,
           NEW ws \in Seq(Nat), mode = "write" => Len(ws) = n,
           Inv, Begins(mode, a, n, ws)
    PROVE  Inv'
<1> USE DEF Begins, Inv
<1>1. MasterOK'
  BY RegistersAssumption, RowTypes DEF MasterOK, None
<1>2. TypeOK'
  BY <1>1 DEF TypeOK, MasterOK
<1>3. InType' /\ StepInRange'
  BY DEF InType, StepInRange
<1>4. LeftInRequest'
  BY DEF LeftInRequest
<1> QED
  BY <1>2, <1>3, <1>4

LEMMA EndKeeps ==
    ASSUME Inv, NEW r \in {"ok", "noreg", "inval"}, Ends(r), UNCHANGED <<val, menu, before, touched>>
    PROVE  Inv'
<1> USE DEF Ends, Inv
<1>1. MasterOK'
  BY DEF TypeOK, MasterOK
<1>2. TypeOK'
  BY <1>1 DEF TypeOK, MasterOK
<1>3. InType' /\ StepInRange'
  BY DEF InType, StepInRange
<1>4. LeftInRequest'
  BY DEF LeftInRequest, Walking, TypeOK
<1> QED
  BY <1>2, <1>3, <1>4

LEMMA ReadsRowKeeps == ASSUME Inv, ReadsRow PROVE Inv'
<1> USE DEF Inv
<1> DEFINE i == master.row
           v == Called(i, val[i])
<1>1. /\ i \in Params /\ val[i] \in Nat /\ v \in Nat
      /\ Holds(i, v)
  BY RowTypes, SMTT(30) DEF ReadsRow, AtRow, TypeOK, Called, InType, Holds
<1>2. /\ val' = [val EXCEPT ![i] = v]
      /\ master' = [master EXCEPT !.row = i + 1, !.left = @ - Regs(i), !.words = @ \o Encode(i, v)]
      /\ UNCHANGED <<menu, before, touched>>
      /\ master.mode = "read"
  BY DEF ReadsRow, getNext, AtRow
<1>3. i + 1 \in 1..None /\ master.left - Regs(i) \in 0..MaxRegs
  BY RegistersLeft DEF ReadsRow, AtRow
<1>4. master.words \o Encode(i, v) \in Seq(Nat)
  BY <1>1, EncodedNats DEF TypeOK
<1>5. MasterOK'
  BY <1>2, <1>3, <1>4 DEF MasterOK, TypeOK
<1>6. TypeOK'
  BY <1>1, <1>2, <1>5 DEF TypeOK, MasterOK
<1>7. InType' /\ StepInRange'
  <2>1. InType'
    BY <1>1, <1>2, AssignedInType DEF TypeOK
  <2> QED
    BY <1>2, <2>1 DEF StepInRange
<1>8. LeftInRequest'
  BY <1>2 DEF LeftInRequest, TypeOK
<1> QED
  BY <1>6, <1>7, <1>8

LEMMA WritesRowKeeps == ASSUME Inv, WritesRow PROVE Inv'
<1> USE DEF Inv
<1> DEFINE i == master.row
           p == Len(master.words) - master.left + 1
           v == Decode(i, master.words, p)
<1>1. i \in Params /\ Rows[i].size # 8 /\ master.mode = "write" /\ Walking
  BY DEF WritesRow, AtRow
<1>2. /\ Regs(i) \in {1, 2} /\ Regs(i) <= master.left /\ master.left <= Len(master.words)
      /\ i + 1 \in 1..None /\ master.left - Regs(i) \in 0..MaxRegs
  BY <1>1, RegistersLeft DEF WritesRow, AtRow, LeftInRequest
<1>3. v \in Nat
  <2>1. master.words \in Seq(Nat) /\ Len(master.words) \in Nat /\ master.left \in Nat
    BY RegistersAssumption DEF TypeOK
  <2>2. p \in Nat \ {0} /\ p + Regs(i) - 1 <= Len(master.words)
    <3>1. \A len, left \in Nat, r \in {1, 2} : r <= left /\ left <= len =>
             len - left + 1 \in Nat \ {0} /\ len - left + 1 + r - 1 <= len
      OBVIOUS
    <3> QED
      BY <1>2, <2>1, <3>1
  <2> QED
    BY <1>1, <2>1, <2>2, DecodedNat
<1>4. CASE ~Allowed(i, v)
  BY <1>4, EndKeeps DEF WritesRow
<1>5. CASE Allowed(i, v)
  <2>1. /\ val' = [val EXCEPT ![i] = Called(i, v)]
        /\ master' = [master EXCEPT !.row = i + 1, !.left = @ - Regs(i)]
        /\ UNCHANGED <<menu, before, touched>>
    BY <1>5 DEF WritesRow, getNext
  <2>2. Called(i, v) \in Nat /\ Holds(i, Called(i, v))
    <3>1. Called(i, v) \in Nat /\ Called(i, v) \in Rows[i].min..Rows[i].max
      BY <1>1, <1>3, <1>5, RowTypes DEF Called, Allowed
    <3>2. Rows[i].max < Wraps(i)
      BY <1>1, RegistersAssumption DEF Params
    <3>3. Wraps(i) \in Nat
      BY RowTypes, <1>1, WordType, RegistersAssumption DEF Wraps
    <3> QED
      BY <1>1, <3>1, <3>2, <3>3, RowTypes DEF Holds
  <2>4. MasterOK'
    BY <1>2, <2>1 DEF MasterOK, TypeOK
  <2>5. TypeOK'
    BY <1>1, <2>1, <2>2, <2>4 DEF TypeOK, MasterOK
  <2>6. InType' /\ StepInRange'
    <3>1. InType'
      BY <1>1, <2>1, <2>2, AssignedInType DEF TypeOK
    <3> QED
      BY <2>1, <3>1 DEF StepInRange
  <2>7. LeftInRequest'
    <3>1. master'.left <= Len(master'.words)
      BY <1>2, <2>1, RegistersAssumption DEF TypeOK
    <3>2. master'.spilt = master.spilt /\ master'.mode = master.mode
      BY <2>1 DEF TypeOK
    <3> QED
      BY <3>1, <3>2 DEF LeftInRequest
  <2> QED
    BY <2>5, <2>6, <2>7
<1> QED
  BY <1>4, <1>5

LEMMA ReadsBehindKeeps == ASSUME Inv, ReadsBehind PROVE Inv'
<1>1. PICK n \in 0..MaxRegs, ws \in {<<>>, <<0>>, <<0, 0>>} :
         master' \in {[master EXCEPT !.row = master.row + 1],
                     [master EXCEPT !.row = master.row + 1, !.left = n,
                                    !.words = @ \o ws, !.spilt = TRUE],
                     [master EXCEPT !.at = "halted"]}
  <2>1. 0 \in 0..MaxRegs
    BY RegistersAssumption
  <2> QED
    BY <2>1 DEF ReadsBehind, getNext
<1>2. master.row \in Params /\ master.mode = "read" /\ UNCHANGED <<val, menu, before, touched>>
  BY DEF ReadsBehind, AtRow
<1>3. master.row + 1 \in 1..None
  BY <1>2, RowTypes DEF Params, None
<1>4. master.words \o ws \in Seq(Nat)
  <2>1. \A a, b \in Nat : <<a>> \in Seq(Nat) /\ <<a, b>> \in Seq(Nat)
    OBVIOUS
  <2>2. <<>> \in Seq(Nat)
    BY EmptySeq
  <2>3. <<0>> \in Seq(Nat) /\ <<0, 0>> \in Seq(Nat)
    BY <2>1
  <2>4. ws \in Seq(Nat)
    BY <2>2, <2>3
  <2>5. master.words \in Seq(Nat)
    BY DEF Inv, TypeOK
  <2> QED
    BY <2>4, <2>5
<1>5. MasterOK' /\ master'.mode = "read"
  BY <1>1, <1>2, <1>3, <1>4, ZenonT(30) DEF MasterOK, Inv, TypeOK
<1>6. TypeOK'
  BY <1>2, <1>5 DEF TypeOK, MasterOK, Inv
<1>7. InType' /\ StepInRange'
  BY <1>2 DEF InType, StepInRange, Holds, Wraps, Word, Inv
<1>8. LeftInRequest'
  BY <1>5 DEF LeftInRequest
<1> QED
  BY <1>6, <1>7, <1>8 DEF Inv

LEMMA WritesFromBehindKeeps == ASSUME Inv, WritesFromBehind PROVE Inv'
<1> USE DEF Inv, AtRow, getNext
<1>1. CASE Ends("inval") /\ UNCHANGED <<val, menu, before, touched>>
  BY <1>1, EndKeeps
<1>2. CASE ~(Ends("inval") /\ UNCHANGED <<val, menu, before, touched>>)
  <2>1. PICK v \in Rows[master.row].min..Rows[master.row].max :
             /\ val' = [val EXCEPT ![master.row] = v]
             /\ touched' = touched \cup {master.row}
             /\ master' = [master EXCEPT !.row = master.row + 1]
             /\ UNCHANGED <<menu, before>>
    BY <1>2 DEF WritesFromBehind
  <2>2. master.row \in Params /\ v \in Nat /\ Holds(master.row, v)
    <3>1. master.row \in Params /\ Rows[master.row].size = 8
      BY DEF WritesFromBehind
    <3>2. Rows[master.row].kind # "edited" /\ Rows[master.row].min \in Nat
      BY <3>1, RowTypes, RegistersAssumption DEF Params
    <3> QED
      BY <3>1, <3>2 DEF Holds
  <2>3. MasterOK'
    <3>1. master.row + 1 \in 1..None
      BY <2>2, RowTypes DEF Params, None
    <3> QED
      BY <2>1, <3>1 DEF MasterOK, TypeOK
  <2>4. TypeOK'
    BY <2>1, <2>2, <2>3 DEF TypeOK, MasterOK
  <2>5. InType' /\ StepInRange'
    <3>1. InType'
      BY <2>1, <2>2, AssignedInType DEF TypeOK
    <3> QED
      BY <2>1, <3>1 DEF StepInRange
  <2>6. LeftInRequest'
    BY <2>1 DEF LeftInRequest, Walking, TypeOK
  <2> QED
    BY <2>4, <2>5, <2>6
<1> QED
  BY <1>1, <1>2

LEMMA AnswersKeeps == ASSUME Inv, Answers PROVE Inv'
<1> USE DEF Inv, Answers, NoRequest
<1>1. MasterOK'
  BY RowTypes, RegistersAssumption DEF MasterOK, None
<1>2. TypeOK'
  BY <1>1 DEF TypeOK, MasterOK
<1>3. InType' /\ StepInRange' /\ LeftInRequest'
  BY DEF InType, StepInRange, LeftInRequest, Walking
<1> QED
  BY <1>2, <1>3

LEMMA AssignKeeps ==
    ASSUME Inv, NEW i \in Params, NEW v \in Nat, Assigns(i, v),
           Holds(i, v), UNCHANGED master, menu' \in {menu, NoStep}
    PROVE  Inv'
<1> USE DEF Inv, Assigns
<1>2. val' \in [Params -> Nat] /\ before' \in [Params -> Nat] /\ touched' \subseteq Params
  BY DEF TypeOK
<1>3. TypeOK'
  <2>1. menu' \in [row : 0..Len(Rows), next : Nat]
    BY RowTypes DEF TypeOK, NoStep
  <2> QED
    BY <1>2, <2>1 DEF TypeOK
<1>4. InType'
  BY AssignedInType DEF TypeOK
<1>5. StepInRange' /\ LeftInRequest'
  BY DEF StepInRange, LeftInRequest, Walking
<1> QED
  BY <1>3, <1>4, <1>5

LEMMA MenuLoadsKeeps == ASSUME Inv, MenuLoads PROVE Inv'
<1> USE DEF Inv
<1>1. PICK i \in Params :
          /\ Rows[i].kind \in {"set", "measured"}
          /\ menu' \in {[row |-> i, next |-> Raised(i, val[i], Rows[i].step)],
                        [row |-> i, next |-> Lowered(i, val[i], Rows[i].step)],
                        [row |-> i, next |-> Rows[i].def]}
  BY DEF MenuLoads
<1>4. val[i] \in Nat /\ Rows[i].min <= val[i] /\ val[i] <= Rows[i].max
  <2>1. Holds(i, val[i]) /\ val[i] \in Nat
    BY DEF TypeOK, InType
  <2> QED
    BY <1>1, <2>1, RowTypes DEF Holds
<1>5. \E v \in Rows[i].min..Rows[i].max : menu' = [row |-> i, next |-> v]
  <2>2. /\ Raised(i, val[i], Rows[i].step) \in Rows[i].min..Rows[i].max
        /\ Lowered(i, val[i], Rows[i].step) \in Rows[i].min..Rows[i].max
    BY <1>4, RowTypes, SteppedInRange
  <2>3. Rows[i].def \in Rows[i].min..Rows[i].max
    BY RowTypes
  <2> QED
    BY <1>1, <2>2, <2>3
<1>6. UNCHANGED <<val, master, before, touched>>
  BY DEF MenuLoads
<1>7. TypeOK'
  <2>1. menu' \in [row : 0..Len(Rows), next : Nat]
    BY <1>5, RowTypes DEF Params
  <2> QED
    BY <1>6, <2>1 DEF TypeOK
<1>8. StepInRange'
  BY <1>1, <1>5, RowTypes DEF StepInRange
<1>9. InType' /\ LeftInRequest'
  BY <1>6 DEF InType, LeftInRequest, Walking
<1> QED
  BY <1>7, <1>8, <1>9

LEMMA StepKeeps == ASSUME Inv, [Next]_vars PROVE Inv'
<1>1. CASE MasterReads
  <2>1. <<>> \in Seq(Nat)
    OBVIOUS
  <2> QED
    BY <1>1, <2>1, RequestKeeps, RowTypes DEF MasterReads
<1>2. CASE MasterWrites
  <2>1. ASSUME NEW a \in {Rows[i].addr : i \in Params} \cup {0}, NEW n \in 1..MaxRegs,
               NEW ws \in [1..n -> 0..(Word - 1)], Begins("write", a, n, ws)
        PROVE  Inv'
    <3>1. a \in Nat
      BY RowTypes
    <3>2. n \in Nat /\ ws \in Seq(Nat) /\ Len(ws) = n
      BY WordType, RegistersAssumption
    <3> QED
      BY <2>1, <3>1, <3>2, RequestKeeps
  <2> QED
    BY <1>2, <2>1 DEF MasterWrites
<1>3. CASE Served \/ NoRow \/ Halves
  BY <1>3, EndKeeps DEF Served, NoRow, Halves
<1>4. CASE MenuStores
  <2>1. menu.row \in Params /\ menu.next \in Nat /\ Holds(menu.row, menu.next)
    BY <1>4, RowTypes DEF MenuStores, Inv, StepInRange, TypeOK, Holds
  <2> QED
    BY <1>4, <2>1, AssignKeeps DEF MenuStores
<1>5. CASE Measures
  BY <1>5, AssignKeeps, RowTypes DEF Measures, Holds
<1>7. CASE EditorStores
  <2>1. ASSUME NEW i \in Params PROVE Wraps(i) \in Nat
    BY RowTypes, WordType, RegistersAssumption DEF Wraps
  <2> QED
    BY <1>7, <2>1, AssignKeeps DEF EditorStores, Holds
<1>6. CASE UNCHANGED vars
  BY <1>6 DEF vars, Inv, TypeOK, InType, StepInRange, LeftInRequest, Walking
<1> QED
  BY <1>1, <1>2, <1>3, <1>4, <1>5, <1>6, <1>7, ReadsRowKeeps, WritesRowKeeps, ReadsBehindKeeps,
     WritesFromBehindKeeps, AnswersKeeps, MenuLoadsKeeps DEF Next, Walks

LEMMA InvHolds == Spec => []Inv
<1>1. Init => Inv
  BY InitInv
<1>2. Inv /\ [Next]_vars => Inv'
  BY StepKeeps
<1> QED
  BY <1>1, <1>2, PTL DEF Spec

-------------------------------------------------------------------------------
\* Every variable keeps to its range: the count of the registers that are left never wraps
\* and no row behind the table is looked at (eMBRegHoldingCB).
THEOREM RegistersTypeCorrect == Spec => []TypeOK
<1>1. Inv => TypeOK
  BY DEF Inv
<1> QED
  BY <1>1, InvHolds, PTL

\* Every parameter but mac0 and those the menu edits as a whole, of which utcTime has limits
\* to leave, stays within its limits, whatever is written by a master and however its
\* requests fall between the menu's steps (Val::deserialize, Val::stepsize).
THEOREM LimitsAreKept == Spec => []InRange
<1>1. Inv => InRange
  BY RowTypes DEF Inv, InType, Holds, InRange
<1> QED
  BY <1>1, InvHolds, PTL

-------------------------------------------------------------------------------
(* The registers of a request.  Those of the rows it has passed lie one    *)
(* behind the other, and each is that of its row, unless somebody else has *)
(* assigned the row since.                                                 *)

Carried(i) ==
    Own(i) => IF master.mode = "write" /\ Rows[i].kind = "version" THEN val[i] = Rows[i].def
              ELSE Agrees(i)

\* A write: the registers that are left are the last ones, and rows it has not passed are
\* those it found.
WriteInOrder ==
    /\ Place(master.row) + master.left = Len(master.words)
    /\ \A p \in 1..Len(master.words) : master.words[p] < Word
    /\ \A i \in Params \ (Passed \cup touched) : val[i] = before[i]

RequestInOrder ==
    master.at \in {"walk", "done"} /\ ~master.spilt =>
        /\ master.first <= master.row
        /\ master.mode = "write" => WriteInOrder
        /\ master.mode = "read" => Len(master.words) = Place(master.row)
        /\ \A i \in Passed : Carried(i)
        /\ master.at = "done" => (master.result = "ok" <=> master.left = 0)

RequestInv == Inv /\ RequestInOrder

-------------------------------------------------------------------------------
(* Places and conversions.                                                 *)

LEMMA SizesType ==
    /\ \A i \in Params : Sizes[i] = Regs(i) /\ Regs(i) \in Nat
    /\ \A i \in Params : Rows[i].size # 8 => Regs(i) \in {1, 2}
    /\ \A i \in Params : Rows[i].size = 8 => Regs(i) = 0
<1>1. \A i \in Params : Rows[i].size \in {1, 2, 4, 8}
  BY RowTypes
<1> QED
  BY <1>1 DEF Sizes, Regs

LEMMA PlaceFacts ==
    ASSUME TypeOK
    PROVE  /\ \A i \in 1..None : Place(i) \in Nat
           /\ Place(master.first) = 0
           /\ \A i \in Params : master.first <= i => Place(i + 1) = Regs(i) + Place(i)
           /\ \A i, j \in 1..None : i <= j => Place(i) <= Place(j)
<1> DEFINE Before(i) == master.first..(i - 1)
<1>1. master.first \in Nat /\ master.first >= 1 /\ Len(Rows) \in Nat
  BY RowTypes DEF TypeOK, None
<1>2. \A i \in 1..None : Before(i) \in SUBSET Params /\ IsFiniteSet(Before(i))
  <2>1. ASSUME NEW i \in 1..None PROVE IsFiniteSet(Before(i))
    <3>1. i - 1 \in Int /\ master.first \in Int
      BY <1>1
    <3> QED
      BY <3>1, FS_Interval
  <2>2. ASSUME NEW i \in 1..None PROVE Before(i) \in SUBSET Params
    BY <1>1 DEF Params, None
  <2> QED
    BY <2>1, <2>2
<1>3. \A i \in 1..None : \A k \in Before(i) : Sizes[k] \in Nat
  BY <1>2, SizesType
<1>4. \A i \in 1..None : Place(i) = SumFunctionOnSet(Sizes, Before(i))
  BY DEF Place
<1> HIDE DEF Before
<1>5. \A i \in 1..None : Place(i) \in Nat
  BY <1>2, <1>3, <1>4, SumTakes
<1>6. Place(master.first) = 0
  <2>1. Before(master.first) = {}
    BY <1>1 DEF Before
  <2>2. SumFunctionOnSet(Sizes, master.first..(master.first - 1)) = 0
    BY <2>1, SumOfNone DEF Before
  <2> QED
    BY <2>2 DEF Place
<1>7. ASSUME NEW i \in Params, master.first <= i PROVE Place(i + 1) = Regs(i) + Place(i)
  <2>1. i \in 1..None /\ i + 1 \in 1..None
    BY <1>1 DEF Params, None
  <2>2. i \in Before(i + 1) /\ Before(i + 1) \ {i} = Before(i)
    BY <1>1, <1>7 DEF Before, Params
  <2>3. SumFunctionOnSet(Sizes, Before(i + 1))
            = Sizes[i] + SumFunctionOnSet(Sizes, Before(i + 1) \ {i})
    BY <1>2, <1>3, <2>1, <2>2, SumTakes
  <2> QED
    BY <1>4, <2>1, <2>2, <2>3, SizesType
<1>8. ASSUME NEW i \in 1..None, NEW j \in 1..None, i <= j PROVE Place(i) <= Place(j)
  <2>1. Before(i) \in SUBSET Before(j)
    BY <1>1, <1>8 DEF Before, None
  <2>2. SumFunctionOnSet(Sizes, Before(i)) <= SumFunctionOnSet(Sizes, Before(j))
    BY <1>2, <1>3, <2>1, SumOfPart
  <2> QED
    BY <1>4, <2>2
<1> QED
  BY <1>5, <1>6, <1>7, <1>8

\* Division by the number of values of a register undoes what a value of two was put
\* together with.
LEMMA Quotient ==
    ASSUME NEW w \in Nat, w > 0, NEW a \in Nat, a < w, NEW b \in Nat
    PROVE  (a + w * b) % w = a /\ (a + w * b) \div w = b
<1> DEFINE n == a + w * b
           q == n \div w
           r == n % w
<1>1. n \in Nat
  OBVIOUS
<1>2. q \in Int /\ r \in Int /\ n = w * q + r /\ 0 <= r /\ r < w
  BY <1>1
<1>3. w * b + a = w * q + r
  BY <1>2
<1> HIDE DEF n, q, r
<1>4. w * (b - q) = r - a
  BY <1>2, <1>3
<1>5. b - q = 0
  <2>1. CASE b - q >= 1
    <3>1. w * (b - q) >= w
      BY <1>2, <2>1
    <3> QED
      BY <1>2, <1>4, <3>1
  <2>2. CASE b - q <= -1
    <3>1. w * (b - q) <= -w
      BY <1>2, <2>2
    <3> QED
      BY <1>2, <1>4, <3>1
  <2> QED
    BY <1>2, <2>1, <2>2
<1>6. q = b /\ r = a
  BY <1>2, <1>3, <1>5
<1> QED
  BY <1>6 DEF n, q, r

LEMMA EncodedLength ==
    ASSUME NEW i \in Params, Rows[i].size # 8, NEW v
    PROVE  Len(Encode(i, v)) = Regs(i)
  BY RowTypes DEF Encode, Regs

\* A value within the limits that is read and written back is the same: its type holds it,
\* and both directions put the halves in the same order (porttcp.cpp:51-68, 92-109).
THEOREM WrittenBackIsSame ==
    ASSUME NEW i \in Params, Rows[i].size # 8, NEW v \in Nat, Allowed(i, v)
    PROVE  Decode(i, Encode(i, v), 1) = v
<1>1. v < Wraps(i) /\ Byte \in Nat /\ Byte > 0
  <2>1. v <= Rows[i].max /\ Rows[i].max < Wraps(i) /\ Byte \in Nat /\ Byte > 0
    BY RegistersAssumption DEF Allowed, Params
  <2>2. Rows[i].max \in Nat /\ Wraps(i) \in Nat
    BY <2>1, RowTypes, WordType DEF Wraps
  <2> QED
    BY <2>1, <2>2
<1>2. CASE Rows[i].size = 1
  <2>1. v < Byte
    BY <1>1, <1>2 DEF Wraps
  <2>2. v % Byte = v
    BY <1>1, <2>1
  <2> QED
    BY <1>2, <2>2 DEF Decode, Encode
<1>3. CASE Rows[i].size = 2
  BY <1>3 DEF Decode, Encode
<1>4. CASE Rows[i].size = 4
  <2>1. (v % Word) + Word * (v \div Word) = v
    BY WordType
  <2> QED
    BY <1>4, <2>1 DEF Decode, Encode
<1> QED
  BY <1>2, <1>3, <1>4, RowTypes

-------------------------------------------------------------------------------
(* A request that goes on to its next row.                                 *)

\* What is known of the row a walk has come to.
LEMMA AtItsPlace ==
    ASSUME RequestInv, ~master.spilt, Walking, master.row \in Params
    PROVE  /\ master.first \in 1..None /\ master.row \in 1..None /\ master.row + 1 \in 1..None
           /\ master.first <= master.row
           /\ Place(master.row) \in Nat
           /\ Place(master.row + 1) = Regs(master.row) + Place(master.row)
           /\ \A i \in Passed : /\ i \in Params /\ i # master.row
                                /\ Place(i + 1) = Regs(i) + Place(i)
                                /\ Place(i) \in Nat /\ Place(i + 1) <= Place(master.row)
<1>1. /\ master.first \in 1..None /\ master.row \in 1..None /\ Len(Rows) \in Nat
      /\ master.first <= master.row
  BY RowTypes DEF RequestInv, Inv, TypeOK, RequestInOrder, Walking
<1>2. master.row + 1 \in 1..None
  BY <1>1 DEF Params, None
<1>3. Place(master.row) \in Nat /\ Place(master.row + 1) = Regs(master.row) + Place(master.row)
  BY <1>1, PlaceFacts DEF RequestInv, Inv
<1>4. ASSUME NEW i \in Passed
      PROVE  /\ i \in Params /\ i # master.row
             /\ Place(i + 1) = Regs(i) + Place(i)
             /\ Place(i) \in Nat /\ Place(i + 1) <= Place(master.row)
  <2>1. /\ i \in Params /\ i # master.row /\ master.first <= i
        /\ i \in 1..None /\ i + 1 \in 1..None /\ i + 1 <= master.row
    BY <1>1 DEF Passed, Params, None
  <2> QED
    BY <1>1, <2>1, PlaceFacts DEF RequestInv, Inv
<1> QED
  BY <1>1, <1>2, <1>3, <1>4

\* The registers of the rows before are neither moved nor changed.
LEMMA RegistersKept ==
    ASSUME RequestInv, ~master.spilt, Walking, master.row \in Params, NEW i \in Passed, Rows[i].size # 8,
           NEW e \in Seq(Nat), Place(master.row) <= Len(master.words)
    PROVE  SubSeq(master.words \o e, Place(i) + 1, Place(i) + Regs(i))
              = SubSeq(master.words, Place(i) + 1, Place(i) + Regs(i))
<1>1. master.words \in Seq(Nat) /\ Len(master.words) \in Nat
  BY DEF RequestInv, Inv, TypeOK
<1>2. /\ i \in Params /\ Place(i) \in Nat /\ Place(i + 1) = Regs(i) + Place(i)
      /\ Place(i + 1) <= Place(master.row) /\ Place(master.row) \in Nat
  BY AtItsPlace
<1>3. Regs(i) \in {1, 2}
  BY <1>2, SizesType
<1> DEFINE m == Place(i) + 1
           n == Place(i) + Regs(i)
<1>4. m \in 1..Len(master.words) /\ n \in 1..Len(master.words)
  <2>1. \A a, b, c, d \in Nat :
           d \in {1, 2} /\ d + a <= b /\ b <= c => a + 1 \in 1..c /\ a + d \in 1..c
    OBVIOUS
  <2>2. Regs(i) \in Nat /\ Regs(i) + Place(i) <= Place(master.row)
    BY <1>2, <1>3
  <2> QED
    BY <1>1, <1>2, <1>3, <2>1, <2>2
<1> HIDE DEF m, n
<1>5. SubSeq(master.words \o e, m, n) = SubSeq(master.words, m, n)
  BY <1>1, <1>4, SubSeqOfConcat1
<1> QED
  BY <1>5 DEF m, n

LEMMA NextRowInOrder ==
    ASSUME RequestInv, ~master.spilt, TypeOK', Walking, master.row \in Params, master'.at = "walk",
           master'.first = master.first, master'.mode = master.mode,
           master'.row = master.row + 1, master'.left = master.left - Regs(master.row),
           NEW e \in Seq(Nat), master'.words = master.words \o e,
           master.mode = "write" => e = <<>>,
           master.mode = "read" => Len(e) = Regs(master.row),
           \A i \in Params \ {master.row} : val'[i] = val[i],
           touched \subseteq touched', before' = before,
           NEW r, r = master.row, Carried(r)'
    PROVE  RequestInOrder'
<1>1. /\ master.words \in Seq(Nat) /\ Len(master.words) \in Nat
      /\ master.left \in Nat /\ master.mode \in {"read", "write"}
  BY RegistersAssumption DEF RequestInv, Inv, TypeOK
<1>2. Place(master.row) \in Nat /\ Place(master.row + 1) = Regs(master.row) + Place(master.row)
      /\ Regs(master.row) \in Nat
  BY AtItsPlace, SizesType
<1>3. \A i : Place(i)' = Place(i)
  BY DEF Place
<1>4. Place(master.row)' = Regs(master.row) + Place(master.row)
  BY <1>2 DEF Place
<1>5. /\ master.mode = "write" => WriteInOrder
      /\ master.mode = "read" => Len(master.words) = Place(master.row)
      /\ \A i \in Passed : Carried(i)
  BY DEF RequestInv, RequestInOrder, Walking
<1>6. Passed' = Passed \cup {master.row}
  BY AtItsPlace DEF Passed
<1>7. master.mode = "write" => WriteInOrder'
  <2> SUFFICES ASSUME master.mode = "write" PROVE WriteInOrder'
    OBVIOUS
  <2>1. master'.words = master.words
    BY <1>1
  <2>2. Place(master.row)' + master'.left = Len(master'.words)
    BY <1>1, <1>2, <1>4, <1>5, <2>1 DEF WriteInOrder
  <2>3. \A i \in Params \ (Passed' \cup touched') : val'[i] = before'[i]
    BY <1>5, <1>6 DEF WriteInOrder
  <2> QED
    BY <1>5, <2>1, <2>2, <2>3 DEF WriteInOrder
<1>8. master.mode = "read" => Len(master'.words) = Place(master.row)'
  <2>1. Len(master.words \o e) = Len(master.words) + Len(e)
    BY <1>1
  <2> QED
    BY <1>2, <1>4, <1>5, <2>1
<1>9. Place(master.row) <= Len(master.words)
  BY <1>1, <1>2, <1>5 DEF WriteInOrder
<1>10. ASSUME NEW i \in Passed PROVE Carried(i)'
  <2>1. i \in Params /\ i # master.row /\ val'[i] = val[i]
    BY AtItsPlace
  <2>2. CASE Rows[i].size = 8
    BY <2>2 DEF Carried, Own
  <2>3. CASE Rows[i].size # 8
    <3>1. SubSeq(master'.words, Place(i)' + 1, Place(i)' + Regs(i))
             = SubSeq(master.words, Place(i) + 1, Place(i) + Regs(i))
      BY <1>3, <1>9, <2>3, RegistersKept
    <3>2. Agrees(i)' <=> Agrees(i)
      BY <2>1, <3>1 DEF Agrees
    <3>3. Carried(i)
      BY <1>5
    <3> QED
      BY <2>1, <3>2, <3>3 DEF Carried, Own
  <2> QED
    BY <2>2, <2>3
<1>11. \A i \in Passed' : Carried(i)'
  <2>1. ASSUME NEW i \in Passed', i \notin Passed PROVE Carried(i)'
    BY <1>6, <2>1
  <2> QED
    BY <1>10, <2>1
<1>12. master'.first <= master'.row
  BY AtItsPlace
<1> QED
  BY <1>7, <1>8, <1>11, <1>12 DEF RequestInOrder

\* A walk that ends, at whatever row.
LEMMA EndInOrder ==
    ASSUME RequestInv, ~master.spilt, Walking, NEW r \in {"ok", "noreg", "inval"}, Ends(r),
           r = "ok" <=> master.left = 0, UNCHANGED <<val, menu, before, touched>>
    PROVE  RequestInOrder'
<1>1. /\ master'.at = "done" /\ master'.result = r
      /\ master'.mode = master.mode /\ master'.first = master.first /\ master'.row = master.row
      /\ master'.left = master.left /\ master'.words = master.words
  BY DEF Ends, RequestInv, Inv, TypeOK
<1>2. /\ WriteInOrder' <=> WriteInOrder
      /\ Passed' = Passed
      /\ Place(master.row)' = Place(master.row)
  BY <1>1 DEF WriteInOrder, Passed, Place
<1>3. \A i : Carried(i)' <=> Carried(i)
  BY <1>1 DEF Carried, Own, Agrees, Place
<1> QED
  BY <1>1, <1>2, <1>3 DEF RequestInOrder, RequestInv, Walking

\* A row that another task assigns is no longer the request's own.
LEMMA AssignInOrder ==
    ASSUME RequestInv, master.at # "idle", NEW r \in Params, NEW v, Assigns(r, v), UNCHANGED master
    PROVE  RequestInOrder'
<1>1. /\ val \in [Params -> Nat]
      /\ val' = [val EXCEPT ![r] = v] /\ before' = before /\ touched' = touched \cup {r}
  BY DEF Assigns, RequestInv, Inv, TypeOK
<1>2. Passed' = Passed /\ Place(master.row)' = Place(master.row)
  BY DEF Passed, Place
<1>3. WriteInOrder => WriteInOrder'
  <2>1. \A i \in Params \ (Passed' \cup touched') : i \in Params \ (Passed \cup touched) /\ val'[i] = val[i]
    BY <1>1, <1>2
  <2> QED
    BY <1>1, <1>2, <2>1 DEF WriteInOrder
<1>4. ASSUME NEW i \in Params, Carried(i) PROVE Carried(i)'
  <2>1. CASE i = r
    BY <1>1, <2>1 DEF Carried, Own
  <2>2. CASE i # r
    <3>1. val'[i] = val[i]
      BY <1>1, <2>2
    <3>2. Agrees(i)' <=> Agrees(i)
      BY <3>1 DEF Agrees, Place
    <3> QED
      BY <1>1, <1>4, <3>1, <3>2 DEF Carried, Own
  <2> QED
    BY <2>1, <2>2
<1>5. Passed \subseteq Params
  BY RowTypes DEF Passed, Params, RequestInv, Inv, TypeOK, None
<1> QED
  BY <1>2, <1>3, <1>4, <1>5 DEF RequestInOrder, RequestInv

-------------------------------------------------------------------------------
(* One lemma per action.                                                   *)

LEMMA RequestBegins ==
    ASSUME RequestInv, NEW mode \in {"read", "write"}, NEW a, NEW n \in 1..MaxRegs,
           NEW ws \in Seq(0..(Word - 1)), mode = "write" => Len(ws) = n, mode = "read" => ws = <<>>,
           Begins(mode, a, n, ws), TypeOK'
    PROVE  RequestInOrder'
<1>1. PICK i \in 1..None :
          master' = [at |-> "walk", mode |-> mode, first |-> i, row |-> i, left |-> n,
                     words |-> ws, result |-> "none", spilt |-> FALSE]
  BY DEF Begins
<1>2. before' = val /\ touched' = {} /\ val' = val
  BY DEF Begins
<1>3. i \in Nat /\ n \in Nat
  BY <1>1, RowTypes, RegistersAssumption DEF None
<1>4. Passed' = {}
  BY <1>1, <1>3 DEF Passed
<1>5. Place(master.row)' = 0
  <2>1. master'.first..(master'.row - 1) = {}
    BY <1>1, <1>3
  <2>2. SumFunctionOnSet(Sizes, master'.first..(master'.row - 1)) = 0
    BY <2>1, SumOfNone
  <2> QED
    BY <2>2 DEF Place
<1>6. \A p \in 1..Len(ws) : ws[p] < Word
  <2>1. PICK D : D = 0..(Word - 1)
    OBVIOUS
  <2>2. \A p \in 1..Len(ws) : ws[p] \in D
    BY <2>1, ElementOfSeq
  <2> QED
    BY <2>1, <2>2, WordType
<1>7. mode = "write" => WriteInOrder'
  BY <1>1, <1>2, <1>3, <1>5, <1>6 DEF WriteInOrder
<1>8. mode = "read" => Len(master'.words) = Place(master.row)'
  BY <1>1, <1>5
<1> QED
  BY <1>1, <1>3, <1>4, <1>7, <1>8 DEF RequestInOrder

\* What an answer has just been given stands at its end.
LEMMA AppendedPart ==
    ASSUME NEW ws \in Seq(Nat), NEW e \in Seq(Nat), Len(e) \in {1, 2}
    PROVE  SubSeq(ws \o e, Len(ws) + 1, Len(ws) + Len(e)) = e
<1>1. PICK l \in Nat : l = Len(ws)
  OBVIOUS
<1>2. PICK c \in {1, 2} : c = Len(e)
  OBVIOUS
<1>3. l + 1 \in l + 1..l + c /\ l + c \in l + 1..l + c /\ l + 1 - l = 1 /\ l + c - l = c
  OBVIOUS
<1>4. PICK m, n \in l + 1..l + c : m = l + 1 /\ n = l + c /\ m - l = 1 /\ n - l = c
  BY <1>3
<1>5. SubSeq(ws \o e, m, n) = SubSeq(e, m - l, n - l)
  BY <1>1, <1>2, SubSeqOfConcat2
<1>6. SubSeq(e, 1, c) = e
  BY <1>2, SubSeqFull
<1>7. SubSeq(ws \o e, m, n) = e
  BY <1>4, <1>5, <1>6, Zenon
<1>8. m = Len(ws) + 1 /\ n = Len(ws) + Len(e)
  BY <1>1, <1>2, <1>4
<1> QED
  BY <1>7, <1>8, Zenon

\* What a row holds fits its type, so that its registers give it back.
LEMMA ReadAgrees ==
    ASSUME RequestInv, ~master.spilt, ReadsRow, NEW r, r = master.row
    PROVE  Carried(r)'
<1> DEFINE v == Called(r, val[r])
           e == Encode(r, v)
<1>1. /\ r \in Params /\ Rows[r].size # 8 /\ Walking /\ master.mode = "read"
      /\ val \in [Params -> Nat] /\ master.words \in Seq(Nat) /\ Len(master.words) \in Nat
  BY DEF ReadsRow, AtRow, RequestInv, Inv, TypeOK
<1>2. v \in Nat /\ v < Wraps(r)
  <2>1. /\ v = val[r] \/ v = Rows[r].def
        /\ val[r] \in Nat /\ Rows[r].def \in Nat /\ Rows[r].def <= Rows[r].max
    BY <1>1, RowTypes DEF Called
  <2>2. Holds(r, val[r]) /\ Rows[r].kind # "hidden" /\ Rows[r].max < Wraps(r)
    BY <1>1, RegistersAssumption DEF RequestInv, Inv, InType, Params
  <2>3. Wraps(r) \in Nat
    BY <1>1, RowTypes, WordType, RegistersAssumption DEF Wraps
  <2>4. val[r] < Wraps(r)
    BY <1>1, <2>1, <2>2, <2>3, RowTypes DEF Holds
  <2> QED
    BY <1>1, <2>1, <2>2, <2>3, <2>4, RowTypes
<1>3. val'[r] = v /\ master'.words = master.words \o e
  BY <1>1 DEF ReadsRow, RequestInv, Inv, TypeOK
<1>4. e \in Seq(Nat) /\ Len(e) = Regs(r) /\ Regs(r) \in {1, 2}
  BY <1>1, <1>2, EncodedNats, EncodedLength, SizesType
<1>5. Place(r)' = Len(master.words)
  <2>1. Place(r)' = Place(r)
    BY DEF Place, ReadsRow, RequestInv, Inv, TypeOK
  <2> QED
    BY <1>1, <2>1 DEF RequestInv, RequestInOrder, Walking
<1> HIDE DEF e
<1>6. SubSeq(master'.words, Place(r)' + 1, Place(r)' + Regs(r)) = e
  <2>1. Len(e) \in {1, 2}
    BY <1>4
  <2>2. SubSeq(master.words \o e, Len(master.words) + 1, Len(master.words) + Len(e)) = e
    BY <1>1, <1>4, <2>1, AppendedPart
  <2> QED
    BY <1>3, <1>4, <1>5, <2>2
<1>7. CASE Rows[r].size = 1
  <2>0. v < Byte /\ Byte \in Nat
    <3>1. Byte \in Nat
      BY RegistersAssumption
    <3>2. Wraps(r) = Byte
      BY <1>7 DEF Wraps
    <3> HIDE DEF v
    <3> QED
      BY <1>2, <3>1, <3>2
  <2>1. e = <<v>>
    BY <1>7 DEF e, Encode
  <2>2. e[1] % Byte = v
    BY <1>2, <2>0, <2>1
  <2> QED
    BY <1>3, <1>6, <1>7, <2>2 DEF Carried, Agrees, ReadsRow, AtRow, RequestInv, Inv, TypeOK
<1>8. CASE Rows[r].size # 1
  <2>1. Agrees(r)'
    BY <1>3, <1>6, <1>8 DEF Agrees, e
  <2>2. master'.mode = "read"
    BY <1>1 DEF ReadsRow, RequestInv, Inv, TypeOK
  <2> QED
    BY <2>1, <2>2 DEF Carried
<1> QED
  BY <1>7, <1>8

LEMMA ReadsRowInOrder ==
    ASSUME RequestInv, ~master.spilt, ReadsRow, TypeOK'
    PROVE  RequestInOrder'
<1> DEFINE i == master.row
           e == Encode(i, Called(i, val[i]))
<1>1. /\ i \in Params /\ Rows[i].size # 8 /\ Walking /\ master.mode = "read"
      /\ val \in [Params -> Nat]
  BY DEF ReadsRow, AtRow, RequestInv, Inv, TypeOK
<1>2. e \in Seq(Nat) /\ Len(e) = Regs(i)
  <2>1. Called(i, val[i]) \in Nat
    BY <1>1, RowTypes DEF Called
  <2> QED
    BY <1>1, <2>1, EncodedNats, EncodedLength
<1>3. /\ val' = [val EXCEPT ![i] = Called(i, val[i])]
      /\ master' = [master EXCEPT !.row = i + 1, !.left = @ - Regs(i), !.words = @ \o e]
      /\ UNCHANGED <<menu, before, touched>>
  BY DEF ReadsRow, getNext
<1> HIDE DEF e
<1>4. /\ master'.at = "walk" /\ master'.first = master.first /\ master'.mode = master.mode
      /\ master'.row = i + 1 /\ master'.left = master.left - Regs(i)
      /\ master'.words = master.words \o e
  BY <1>1, <1>3 DEF Walking, RequestInv, Inv, TypeOK
<1>5. \A k \in Params \ {i} : val'[k] = val[k]
  BY <1>1, <1>3
<1>6. PICK r : r = i
  OBVIOUS
<1>7. Carried(r)'
  BY <1>6, ReadAgrees
<1> QED
  BY <1>1, <1>2, <1>3, <1>4, <1>5, <1>6, <1>7, NextRowInOrder

\* A register of a request and two of them, cut out.
LEMMA OneOfSeq ==
    ASSUME NEW ws \in Seq(Nat), NEW p \in 1..Len(ws)
    PROVE  SubSeq(ws, p, p) = <<ws[p]>>
<1>1. p \in Int /\ \A k \in p..p : ws[k] \in Nat
  OBVIOUS
<1>2. /\ SubSeq(ws, p, p) \in Seq(Nat) /\ Len(SubSeq(ws, p, p)) = 1
      /\ SubSeq(ws, p, p)[1] = ws[p]
  <2>1. /\ SubSeq(ws, p, p) \in Seq(Nat)
        /\ Len(SubSeq(ws, p, p)) = IF p <= p THEN p - p + 1 ELSE 0
        /\ \A i \in 1..(p - p + 1) : SubSeq(ws, p, p)[i] = ws[p + i - 1]
    BY <1>1, SubSeqProperties
  <2>2. p - p + 1 = 1 /\ p + 1 - 1 = p
    BY <1>1
  <2> QED
    BY <2>1, <2>2
<1>3. \A s \in Seq(Nat) : Len(s) = 1 => s = <<s[1]>>
  OBVIOUS
<1> QED
  BY <1>2, <1>3

LEMMA TwoOfSeq ==
    ASSUME NEW ws \in Seq(Nat), NEW p \in 1..Len(ws), p + 1 \in 1..Len(ws)
    PROVE  SubSeq(ws, p, p + 1) = <<ws[p], ws[p + 1]>>
<1>1. PICK q : q = p + 1
  OBVIOUS
<1>2. p \in Int /\ q \in Int /\ \A k \in p..q : ws[k] \in Nat
  BY <1>1
<1>3. /\ SubSeq(ws, p, q) \in Seq(Nat) /\ Len(SubSeq(ws, p, q)) = 2
      /\ SubSeq(ws, p, q)[1] = ws[p] /\ SubSeq(ws, p, q)[2] = ws[q]
  <2>1. /\ SubSeq(ws, p, q) \in Seq(Nat)
        /\ Len(SubSeq(ws, p, q)) = IF p <= q THEN q - p + 1 ELSE 0
        /\ \A i \in 1..(q - p + 1) : SubSeq(ws, p, q)[i] = ws[p + i - 1]
    BY <1>2, SubSeqProperties
  <2>2. p <= q /\ q - p + 1 = 2 /\ p + 1 - 1 = p /\ p + 2 - 1 = q
    BY <1>1, <1>2
  <2>3. Len(SubSeq(ws, p, q)) = 2
    BY <2>1, <2>2
  <2>4. PICK s : s = SubSeq(ws, p, q)
    OBVIOUS
  <2>5. \A i \in 1..2 : s[i] = ws[p + i - 1]
    BY <2>1, <2>2, <2>4
  <2>6. s[1] = ws[p + 1 - 1] /\ s[2] = ws[p + 2 - 1]
    BY <2>5
  <2> QED
    BY <2>1, <2>2, <2>3, <2>4, <2>6
<1>4. \A s \in Seq(Nat) : Len(s) = 2 => s = <<s[1], s[2]>>
  OBVIOUS
<1> QED
  BY <1>1, <1>3, <1>4

\* The registers a row was given are those of the value it has taken from them.
LEMMA DecodedAgrees ==
    ASSUME NEW i \in Params, Rows[i].size # 8, NEW ws \in Seq(Nat), NEW p \in Nat \ {0},
           p + Regs(i) - 1 <= Len(ws), \A k \in 1..Len(ws) : ws[k] < Word
    PROVE  LET own == SubSeq(ws, p, p + Regs(i) - 1)
               v   == Decode(i, ws, p)
           IN  IF Rows[i].size = 1 THEN own[1] % Byte = v ELSE own = Encode(i, v)
<1>1. Len(ws) \in Nat /\ Regs(i) \in {1, 2}
  BY SizesType
<1>2. p \in 1..Len(ws) /\ ws[p] \in Nat /\ ws[p] < Word
  BY <1>1
<1>3. CASE Rows[i].size \in {1, 2}
  <2>1. Regs(i) = 1 /\ p + Regs(i) - 1 = p
    BY <1>3 DEF Regs
  <2>2. SubSeq(ws, p, p) = <<ws[p]>>
    BY <1>2, OneOfSeq
  <2>3. CASE Rows[i].size = 1
    BY <2>1, <2>2, <2>3 DEF Decode
  <2>4. CASE Rows[i].size = 2
    BY <2>1, <2>2, <2>4 DEF Decode, Encode
  <2> QED
    BY <1>3, <2>3, <2>4
<1>4. CASE Rows[i].size = 4
  <2>1. Regs(i) = 2 /\ p + Regs(i) - 1 = p + 1
    BY <1>4 DEF Regs
  <2>2. p + 1 \in 1..Len(ws) /\ ws[p + 1] \in Nat
    BY <1>1, <1>2, <2>1
  <2>3. SubSeq(ws, p, p + 1) = <<ws[p], ws[p + 1]>>
    BY <1>2, <2>2, TwoOfSeq
  <2>4. (ws[p] + Word * ws[p + 1]) % Word = ws[p] /\ (ws[p] + Word * ws[p + 1]) \div Word = ws[p + 1]
    BY <1>2, <2>2, WordType, Quotient
  <2> QED
    BY <1>4, <2>1, <2>3, <2>4 DEF Decode, Encode
<1> QED
  BY <1>3, <1>4, RowTypes

LEMMA WrittenInOrder ==
    ASSUME RequestInv, ~master.spilt, WritesRow, TypeOK', NEW r, r = master.row,
           Allowed(r, Decode(r, master.words, Len(master.words) - master.left + 1))
    PROVE  RequestInOrder'
<1> DEFINE p == Len(master.words) - master.left + 1
           v == Decode(r, master.words, p)
<1>1. /\ r \in Params /\ Rows[r].size # 8 /\ Walking /\ master.mode = "write" /\ master.left > 0
      /\ ~HalfAsked
      /\ val \in [Params -> Nat] /\ master.words \in Seq(Nat) /\ Len(master.words) \in Nat
      /\ master.left \in Nat
  <2>1. /\ r \in Params /\ Rows[r].size # 8 /\ Walking /\ master.mode = "write"
        /\ master.left > 0 /\ ~HalfAsked
    BY DEF WritesRow, AtRow
  <2>2. val \in [Params -> Nat] /\ master.words \in Seq(Nat) /\ master.left \in 0..MaxRegs
    BY DEF RequestInv, Inv, TypeOK
  <2>3. Len(master.words) \in Nat /\ master.left \in Nat
    BY <2>2, RegistersAssumption
  <2> QED
    BY <2>1, <2>2, <2>3
<1>2. /\ Place(r) + master.left = Len(master.words) /\ Place(r) \in Nat
      /\ \A k \in 1..Len(master.words) : master.words[k] < Word
  BY <1>1, AtItsPlace DEF RequestInv, RequestInOrder, Walking, WriteInOrder
<1>3. p = Place(r) + 1 /\ p \in Nat \ {0} /\ p + Regs(r) - 1 <= Len(master.words)
      /\ p + Regs(r) - 1 = Place(r) + Regs(r)
  <2>1. Regs(r) \in {1, 2} /\ Regs(r) <= master.left
    BY <1>1, RegistersLeft DEF RequestInv, Inv
  <2>2. PICK a, b, c \in Nat, d \in {1, 2} :
           a = Place(r) /\ b = master.left /\ c = Len(master.words) /\ d = Regs(r)
    BY <1>1, <1>2, <2>1
  <2>3. d <= b /\ a + b = c
    BY <1>2, <2>1, <2>2
  <2>4. /\ c - b + 1 = a + 1 /\ c - b + 1 \in Nat \ {0}
        /\ c - b + 1 + d - 1 <= c /\ c - b + 1 + d - 1 = a + d
    BY <2>3
  <2>5. p = c - b + 1
    BY <2>2
  <2> HIDE DEF p
  <2> QED
    BY <2>2, <2>4, <2>5
<1>4. /\ val' = [val EXCEPT ![r] = Called(r, v)]
      /\ master' = [master EXCEPT !.row = r + 1, !.left = @ - Regs(r)]
      /\ UNCHANGED <<menu, before, touched>>
  BY DEF WritesRow, getNext
<1> HIDE DEF v, p
<1>5. /\ master'.at = "walk" /\ master'.first = master.first /\ master'.mode = master.mode
      /\ master'.row = r + 1 /\ master'.left = master.left - Regs(r)
      /\ master'.words = master.words
  BY <1>1, <1>4 DEF Walking, RequestInv, Inv, TypeOK
<1>6. \A k \in Params \ {r} : val'[k] = val[k]
  BY <1>1, <1>4
<1>7. val'[r] = Called(r, v)
  BY <1>1, <1>4
<1>8. Carried(r)'
  <2>1. CASE Rows[r].kind = "version"
    BY <1>1, <1>5, <1>7, <2>1 DEF Called, Carried
  <2>2. CASE Rows[r].kind # "version"
    <3>1. val'[r] = v
      BY <1>7, <2>2 DEF Called
    <3>2. IF Rows[r].size = 1
          THEN SubSeq(master.words, p, p + Regs(r) - 1)[1] % Byte = v
          ELSE SubSeq(master.words, p, p + Regs(r) - 1) = Encode(r, v)
      BY <1>1, <1>2, <1>3, DecodedAgrees DEF v
    <3>3. Place(r)' = Place(r)
      BY <1>5 DEF Place
    <3>4. Agrees(r)'
      BY <1>3, <1>5, <3>1, <3>2, <3>3 DEF Agrees
    <3> QED
      BY <2>2, <3>4 DEF Carried
  <2> QED
    BY <2>1, <2>2
<1>9. PICK e : e = <<>>
  OBVIOUS
<1>10. e \in Seq(Nat) /\ master'.words = master.words \o e
  BY <1>1, <1>5, <1>9, ConcatEmptySeq
<1>11. touched \subseteq touched' /\ before' = before
  BY <1>4
<1> QED
  BY <1>1, <1>5, <1>6, <1>8, <1>9, <1>10, <1>11, NextRowInOrder

LEMMA WritesRowInOrder ==
    ASSUME RequestInv, ~master.spilt, WritesRow, TypeOK'
    PROVE  RequestInOrder'
<1>1. PICK r : r = master.row
  OBVIOUS
<1>2. CASE Allowed(r, Decode(r, master.words, Len(master.words) - master.left + 1))
  BY <1>1, <1>2, WrittenInOrder
<1>3. CASE ~Allowed(r, Decode(r, master.words, Len(master.words) - master.left + 1))
  <2>1. Ends("inval") /\ UNCHANGED <<val, menu, before, touched>>
    BY <1>1, <1>3 DEF WritesRow
  <2>2. Walking /\ master.left # 0
    BY RegistersAssumption DEF WritesRow, AtRow, RequestInv, Inv, TypeOK
  <2> QED
    BY <2>1, <2>2, EndInOrder
<1> QED
  BY <1>2, <1>3

\* A row of eight bytes has no registers, and its value is nobody's own.
LEMMA BehindInOrder ==
    ASSUME RequestInv, ~master.spilt, TypeOK', Walking, NEW r \in Params, r = master.row, Rows[r].size = 8,
           master' = [master EXCEPT !.row = r + 1],
           \A i \in Params \ {r} : val'[i] = val[i],
           touched \subseteq touched', before' = before
    PROVE  RequestInOrder'
<1>1. Regs(r) = 0 /\ master.words \in Seq(Nat) /\ master.left \in Nat
  <2>1. Regs(r) = 0
    BY SizesType
  <2> QED
    BY <2>1, RegistersAssumption DEF RequestInv, Inv, TypeOK
<1>2. /\ master'.at = "walk" /\ master'.first = master.first /\ master'.mode = master.mode
      /\ master'.row = r + 1 /\ master'.left = master.left - Regs(r)
      /\ master'.words = master.words
  BY <1>1 DEF Walking, RequestInv, Inv, TypeOK
<1>3. Carried(r)'
  BY DEF Carried, Own
<1>4. PICK e : e = <<>>
  OBVIOUS
<1>5. e \in Seq(Nat) /\ Len(e) = Regs(r) /\ master'.words = master.words \o e
  BY <1>1, <1>2, <1>4, ConcatEmptySeq
<1> QED
  BY <1>2, <1>3, <1>4, <1>5, NextRowInOrder

LEMMA ReadsBehindInOrder ==
    ASSUME RequestInv, ~master.spilt, ReadsBehind, TypeOK'
    PROVE  RequestInOrder'
<1>1. CASE master' = [master EXCEPT !.at = "halted"]
  <2>1. master'.at = "halted"
    BY <1>1 DEF RequestInv, Inv, TypeOK
  <2> QED
    BY <2>1 DEF RequestInOrder
<1>2. CASE master' = [master EXCEPT !.row = getNext(master.row)]
  <2>1. PICK r \in Params : r = master.row
    BY DEF ReadsBehind, AtRow
  <2>2. /\ Walking /\ Rows[r].size = 8 /\ UNCHANGED <<val, menu, before, touched>>
        /\ master' = [master EXCEPT !.row = r + 1]
    BY <1>2, <2>1 DEF ReadsBehind, AtRow, getNext
  <2> QED
    BY <2>1, <2>2, BehindInOrder
<1>3. ASSUME NEW n, NEW ws,
             master' = [master EXCEPT !.row = getNext(master.row), !.left = n,
                                      !.words = @ \o ws, !.spilt = TRUE]
      PROVE  RequestInOrder'
  <2>1. master'.spilt
    BY <1>3 DEF RequestInv, Inv, TypeOK
  <2> QED
    BY <2>1 DEF RequestInOrder
<1> QED
  BY <1>1, <1>2, <1>3 DEF ReadsBehind

LEMMA WritesFromBehindInOrder ==
    ASSUME RequestInv, ~master.spilt, WritesFromBehind, TypeOK'
    PROVE  RequestInOrder'
<1>1. PICK r \in Params : r = master.row
  BY DEF WritesFromBehind, AtRow
<1>2. Walking /\ Rows[r].size = 8 /\ before' = before /\ menu' = menu /\ master.left # 0
  BY <1>1, RegistersAssumption DEF WritesFromBehind, AtRow, RequestInv, Inv, TypeOK
<1>3. CASE Ends("inval") /\ UNCHANGED <<val, touched>>
  BY <1>2, <1>3, EndInOrder
<1>4. CASE ~(Ends("inval") /\ UNCHANGED <<val, touched>>)
  <2>1. PICK v : /\ val' = [val EXCEPT ![r] = v]
                 /\ touched' = touched \cup {r}
                 /\ master' = [master EXCEPT !.row = r + 1]
    BY <1>1, <1>4 DEF WritesFromBehind, getNext
  <2>2. \A i \in Params \ {r} : val'[i] = val[i]
    BY <2>1 DEF RequestInv, Inv, TypeOK
  <2>3. touched \subseteq touched'
    BY <2>1
  <2> QED
    BY <1>1, <1>2, <2>1, <2>2, <2>3, BehindInOrder
<1> QED
  BY <1>3, <1>4

\* A walk that has spoilt its locals is a spoilt one until its answer is sent.
LEMMA SpiltStays ==
    ASSUME RequestInv, master.spilt, Walks
    PROVE  RequestInOrder'
<1>1. master'.spilt
  BY DEF Walks, Served, NoRow, Halves, Ends, ReadsRow, WritesRow, ReadsBehind, WritesFromBehind,
         RequestInv, Inv, TypeOK
<1> QED
  BY <1>1 DEF RequestInOrder

LEMMA RequestStep == ASSUME RequestInv, Inv', [Next]_vars PROVE RequestInOrder'
<1>1. TypeOK'
  BY DEF Inv
<1>2. CASE MasterReads
  <2>1. PICK a \in Nat, n \in 1..MaxRegs : Begins("read", a, n, <<>>)
    BY <1>2, RowTypes DEF MasterReads
  <2>2. <<>> \in Seq(0..(Word - 1))
    BY EmptySeq
  <2> QED
    BY <1>1, <2>1, <2>2, RequestBegins
<1>3. CASE MasterWrites
  <2>1. ASSUME NEW a \in {Rows[i].addr : i \in Params} \cup {0}, NEW n \in 1..MaxRegs,
               NEW ws \in [1..n -> 0..(Word - 1)], Begins("write", a, n, ws)
        PROVE  RequestInOrder'
    <3>1. n \in Nat
      BY RegistersAssumption
    <3>2. ws \in Seq(0..(Word - 1)) /\ Len(ws) = n
      <4>1. PICK D : D = 0..(Word - 1)
        OBVIOUS
      <4>2. ws \in [1..n -> D]
        BY <4>1
      <4>3. ws \in Seq(D)
        BY <3>1, <4>2, SeqDef
      <4>4. Len(ws) = n
        BY <3>1, <4>2
      <4> QED
        BY <4>1, <4>3, <4>4
    <3> QED
      BY <1>1, <2>1, <3>2, RequestBegins
  <2> QED
    BY <1>3, <2>1 DEF MasterWrites
<1>4. CASE Walks
  <2>1. CASE master.spilt
    BY <1>4, <2>1, SpiltStays
  <2>2. CASE ~master.spilt
    <3>1. CASE Served
      BY <2>2, <3>1, EndInOrder DEF Served
    <3>2. CASE NoRow \/ Halves
      <4>1. master.left # 0
        BY <3>2, RegistersAssumption DEF NoRow, Halves, RequestInv, Inv, TypeOK
      <4> QED
        BY <2>2, <3>2, <4>1, EndInOrder DEF NoRow, Halves
    <3> QED
      BY <1>1, <1>4, <2>2, <3>1, <3>2, ReadsRowInOrder, WritesRowInOrder,
         ReadsBehindInOrder, WritesFromBehindInOrder DEF Walks
  <2> QED
    BY <2>1, <2>2
<1>6. CASE Answers
  BY <1>6 DEF Answers, NoRequest, RequestInOrder
<1>7. CASE MenuLoads \/ MenuStores \/ EditorStores
  BY <1>7 DEF MenuLoads, MenuStores, EditorStores, RequestInOrder
<1>8. CASE Measures
  <2>1. CASE master.at = "idle"
    BY <1>8, <2>1 DEF Measures, RequestInOrder
  <2>2. CASE master.at # "idle"
    BY <1>8, <2>2, AssignInOrder DEF Measures
  <2> QED
    BY <2>1, <2>2
<1>9. CASE UNCHANGED vars
  BY <1>9 DEF vars, RequestInv, RequestInOrder, WriteInOrder, Carried, Own, Agrees, Passed, Place
<1> QED
  BY <1>2, <1>3, <1>4, <1>6, <1>7, <1>8, <1>9 DEF Next

LEMMA RequestHolds == Spec => []RequestInv
<1>1. Init => RequestInv
  BY InitInv DEF Init, NoRequest, RequestInv, RequestInOrder
<1>2. RequestInv /\ [Next]_vars => RequestInv'
  BY StepKeeps, RequestStep DEF RequestInv
<1> QED
  BY <1>1, <1>2, PTL DEF Spec

-------------------------------------------------------------------------------
\* Every register a write carried is in the row it belongs to, up to the row it was refused
\* at, and no other row has changed; a write answered without an error has used all of its
\* registers (eMBRegHoldingCB, the branch of MB_REG_WRITE).
THEOREM WritesReachTheirRows == Spec => []WrittenAsAsked
<1>1. RequestInv => WrittenAsAsked
  <2> SUFFICES ASSUME RequestInv, master.at = "done", master.mode = "write"
               PROVE  WrittenAsAsked
    BY DEF WrittenAsAsked
  <2>1. /\ WriteInOrder
        /\ \A i \in Passed : Carried(i)
        /\ master.result = "ok" <=> master.left = 0
    BY DEF RequestInv, RequestInOrder, Inv, LeftInRequest
  <2>2. master.left = 0 => Place(master.row) = Len(master.words)
    BY <2>1, PlaceFacts DEF WriteInOrder, RequestInv, Inv, TypeOK
  <2> QED
    BY <2>1, <2>2 DEF WrittenAsAsked, WriteInOrder, Carried
<1> QED
  BY <1>1, RequestHolds, PTL

\* The answer to a read has the registers asked for and no more, each that of its row,
\* although systemTSK assigns rows in the middle of the walk, unless the walk has written
\* over its own locals at mac0 (the branch of MB_REG_READ).
THEOREM AnswersMatchTheirRows == Spec => []AnsweredAsStored
<1>1. RequestInv => AnsweredAsStored
  BY DEF RequestInv, RequestInOrder, AnsweredAsStored, Carried
<1> QED
  BY <1>1, RequestHolds, PTL
===============================================================================
