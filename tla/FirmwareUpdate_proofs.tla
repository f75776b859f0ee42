------------------------ MODULE FirmwareUpdate_proofs -------------------------
(***************************************************************************)
(* Proofs about FirmwareUpdate, for any number of images, cells and        *)
(* sectors, any layout and any image contents.  Only AlwaysRecoverable     *)
(* assumes ~ShortOverlay: with it the bootloader can leave the flash while *)
(* it computes a CRC (run firmware_short_overlay).                         *)
(***************************************************************************)
EXTENDS FirmwareUpdate, TLAPS

\* Types, with the loop index of each erasure.
TypeInv ==
    /\ TypeOK
    /\ pc \in {"eraseMain", "eraseStore", "init"} => k \in Sectors

\* Only two headers over each other give the overlaid one.
HeaderInv == (main[1] = Short => ShortOverlay) /\ (store[1] = Short => ShortOverlay)

\* Whatever carries the header of an image was offered.
OfferedInv ==
    /\ \A v \in Images : main[1] = Content[v][1] => v \in offered
    /\ \A v \in Images : store[1] = Content[v][1] => v \in offered
    /\ client.img # None => client.img \in offered

\* The storage agrees with the main region, or has nothing to offer.
Settled == checkProgram(store) => Held(store) = Held(main)

\* What each step of the bootloader relies on.  Of what it has done so far it can be
\* sure only while nothing has failed.
BootInv ==
    /\ pc = "check" => Recoverable
    /\ pc \in {"eraseMain", "program", "verify"} => checkProgram(store) /\ ~locked
    /\ pc = "eraseMain" /\ ~failed => \A c \in Cells : Sector[c] < k => main[c] = Blank
    /\ pc = "program" =>
         /\ k \in 1..Size[Held(store)]
         /\ ~failed => \A c \in Cells : IF c < k THEN main[c] = store[c] ELSE main[c] = Blank
    /\ pc = "verify" /\ ~failed => Holds(main, Held(store))
    /\ pc = "eraseStore" =>
         /\ checkProgram(main) /\ ~locked
         /\ ~failed => \A v \in Images : store[1] = Content[v][1] => v = Held(main)
    /\ pc = "launch" =>
         \/ checkProgram(main) /\ (failed \/ Settled)
         \/ ~checkProgram(main) /\ failed /\ checkProgram(store)
    /\ pc \in AppSteps => checkProgram(main)
    /\ pc = "halt" => failed /\ checkProgram(store)
    /\ pc = "fault" =>
         \/ CheckFaults(store) /\ checkProgram(main)
         \/ CheckFaults(main) /\ checkProgram(store)

\* What the storage holds while the application runs.
StoreInv ==
    /\ pc = "init" /\ ~failed => \A c \in Cells : Sector[c] < k => store[c] = Blank
    /\ pc = "network" /\ ~failed => \A c \in Cells : store[c] = Blank
    /\ pc = "serve" /\ ~failed =>
         \A v \in Images : session \subseteq {v} =>
             \A c \in Cells : store[c] \in {Blank, Content[v][c]}
    /\ client.img # None => client.img \in session
    /\ client.img # None /\ client.clean =>
         /\ pc = "serve"
         /\ session \subseteq {client.img}
         /\ ~failed => \A c \in Cells : c < client.rec => store[c] = Content[client.img][c]

IInv == TypeInv /\ HeaderInv /\ OfferedInv /\ BootInv /\ StoreInv

-------------------------------------------------------------------------------
(* What checkProgram finds.                                                *)

USE SectorAssumption, ImageAssumption

\* The image found in a region is there in full.
LEMMA HeldImage ==
    ASSUME NEW r, checkProgram(r)
    PROVE  Held(r) \in Images /\ Holds(r, Held(r))
BY DEF checkProgram, Held

\* The first cell of an image is its header.
LEMMA HoldsHeader ==
    ASSUME NEW r, NEW v \in Images, Holds(r, v)
    PROVE  r[1] = Content[v][1]
BY DEF Holds, Cells

\* A region holds at most one image: the one its header names.
LEMMA HeldUnique ==
    ASSUME NEW r, NEW v \in Images, Holds(r, v)
    PROVE  checkProgram(r) /\ Held(r) = v
<1>1. checkProgram(r)
  BY DEF checkProgram
<1>2. Held(r) \in Images /\ Holds(r, Held(r))
  BY <1>1, HeldImage
<1>3. QED
  BY <1>1, <1>2, HoldsHeader, ContentAssumption

LEMMA HeldByHeader ==
    ASSUME NEW r, checkProgram(r), NEW v \in Images, r[1] = Content[v][1]
    PROVE  Held(r) = v
BY HeldImage, HoldsHeader, ContentAssumption

LEMMA NotHeld ==
    ASSUME NEW r, ~checkProgram(r)
    PROVE  Held(r) = None
BY DEF Held

\* A region without an intact header holds nothing.
LEMMA NoHeader ==
    ASSUME NEW r, r[1] \in {Blank, Torn, Short}
    PROVE  ~checkProgram(r)
<1>1. ASSUME NEW v \in Images, Holds(r, v) PROVE FALSE
  <2>1. r[1] = Content[v][1]
    BY <1>1, HoldsHeader
  <2>2. Content[v][1] \in Words
    BY DEF Words, Cells
  <2>3. QED
    BY <2>1, <2>2, ContentAssumption
<1>2. QED
  BY <1>1 DEF checkProgram

-------------------------------------------------------------------------------
(* What the flash operations do to a cell.                                 *)

LEMMA ContentCell ==
    ASSUME NEW v \in Images, NEW c \in Cells
    PROVE  Content[v][c] \in Cell /\ Content[v][c] \notin {Torn, Short}
<1>1. Content[v][c] \in Words
  BY DEF Words
<1>2. QED
  BY <1>1, ContentAssumption DEF Cell

\* A reset leaves each cell of an operation undone, done or Torn.
LEMMA InterruptedCells ==
    ASSUME NEW old, NEW new, NEW x \in Interrupted(old, new)
    PROVE  /\ x = [c \in Cells |-> x[c]]
           /\ \A c \in Cells : x[c] \in {old[c], new[c], Torn}
BY DEF Interrupted

\* No operation, no change.
LEMMA InterruptedIdle ==
    ASSUME NEW old \in Region, NEW x \in Interrupted(old, old)
    PROVE  x = old
BY DEF Interrupted, Region

\* So does one that fails; one that succeeds does what it should.
LEMMA OutcomeCells ==
    ASSUME NEW ok \in BOOLEAN, NEW old \in Region, NEW new \in Region, NEW x \in Outcomes(ok, old, new)
    PROVE  /\ x \in Region
           /\ \A c \in Cells : x[c] \in {old[c], new[c], Torn}
           /\ ok => x = new
<1>1. CASE ok
  BY <1>1 DEF Outcomes, Region
<1>2. CASE ~ok
  <2>1. x \in Interrupted(old, new)
    BY <1>2 DEF Outcomes
  <2>2. /\ x = [c \in Cells |-> x[c]]
        /\ \A c \in Cells : x[c] \in {old[c], new[c], Torn}
    BY <2>1, InterruptedCells
  <2>3. x \in Region
    BY <2>2 DEF Region, Cell
  <2>4. QED
    BY <1>2, <2>2, <2>3
<1>3. QED
  BY <1>1, <1>2

\* Programming a word leaves the header of the old image, of the new one, or of none.
LEMMA OverlayCell ==
    ASSUME NEW c \in Cells, NEW old \in Cell, NEW new \in Cell
    PROVE  /\ Overlay(c, old, new) \in {old, new, Torn, Short}
           /\ Overlay(c, old, new) \in Cell
           /\ Overlay(c, old, new) = Short => old = Short \/ new = Short \/ ShortOverlay
           /\ old \in {Blank, new} => Overlay(c, old, new) = new
<1>1. Torn # Short
  BY ContentAssumption
<1>2. /\ Overlay(c, old, new) \in {old, new, Torn, Short}
      /\ Overlay(c, old, new) = Short => old = Short \/ new = Short \/ ShortOverlay
      /\ old \in {Blank, new} => Overlay(c, old, new) = new
  BY <1>1 DEF Overlay
<1>3. QED
  BY <1>2 DEF Cell

LEMMA EraseCells ==
    ASSUME NEW r, ~locked, NEW s
    PROVE  /\ flash_erasePage(r, s) = [c \in Cells |-> IF Sector[c] = s THEN Blank ELSE r[c]]
           /\ \A c \in Cells : flash_erasePage(r, s)[c] \in {r[c], Blank}
           /\ r \in Region => flash_erasePage(r, s) \in Region
BY DEF flash_erasePage, Region, Cell

-------------------------------------------------------------------------------
(* The invariant holds initially.                                          *)

LEMMA FactoryHeld == Init => Holds(main, Factory) /\ main[1] = Content[Factory][1]
BY DEF Init, Holds, Cells

LEMMA InitInv == ASSUME Init PROVE IInv
<1>1. Holds(main, Factory) /\ main[1] = Content[Factory][1] /\ checkProgram(main)
  BY FactoryHeld, HeldUnique
<1>2. store[1] = Blank
  BY DEF Init, Cells
<1>3. TypeInv
  <2>1. main \in Region /\ store \in Region
    BY ContentCell DEF Init, Region, Cell
  <2>2. client \in Client /\ k \in Cells
    BY DEF Init, Client, Idle, Cells
  <2>3. QED
    BY <2>1, <2>2 DEF Init, TypeInv, TypeOK, BootSteps
<1>4. HeaderInv
  <2>1. 1 \in Cells
    BY DEF Cells
  <2>2. Content[Factory][1] # Short /\ Blank # Short
    BY <2>1, ContentCell, ContentAssumption
  <2>3. QED
    BY <1>1, <1>2, <2>2 DEF HeaderInv
<1>5. OfferedInv
  BY <1>1, <1>2, ContentAssumption DEF OfferedInv, Init, Idle
<1>6. BootInv
  BY <1>1 DEF BootInv, Init, Recoverable, AppSteps
<1>7. StoreInv
  BY DEF StoreInv, Init, Idle
<1>8. QED
  BY <1>3, <1>4, <1>5, <1>6, <1>7 DEF IInv

-------------------------------------------------------------------------------
(* Every step of the bootloader preserves it.                              *)

LEMMA BootCheckInv ==
    ASSUME IInv, BootCheck
    PROVE  IInv'
<1> USE DEF IInv
<1> DEFINE faults == CheckFaults(store) \/ (checkProgram(store) /\ CheckFaults(main))
<1>0. CASE faults
  <2>1. /\ pc' = "fault" /\ k' = 1
        /\ UNCHANGED <<main, store, locked, failed, client, session, offered>>
        /\ pc = "check"
    BY <1>0 DEF BootCheck, Goto
  <2>2. \/ CheckFaults(store) /\ checkProgram(main)
        \/ CheckFaults(main) /\ checkProgram(store)
    BY <1>0, <2>1, NoHeader DEF CheckFaults, BootInv, Recoverable
  <2>3. TypeInv'
    BY <2>1 DEF TypeInv, TypeOK, DeadEnds, Sectors, Cells
  <2>4. HeaderInv' /\ OfferedInv' /\ StoreInv'
    BY <2>1 DEF HeaderInv, OfferedInv, StoreInv
  <2>5. /\ checkProgram(main)' = checkProgram(main)
        /\ checkProgram(store)' = checkProgram(store)
    BY <2>1 DEF checkProgram, Holds
  <2>6. BootInv'
    BY <2>1, <2>2, <2>5 DEF BootInv, AppSteps, CheckFaults
  <2>7. QED
    BY <2>3, <2>4, <2>6
<1> SUFFICES ASSUME ~faults PROVE IInv'
  BY <1>0
<1>2. /\ pc' = IF upgrade THEN "eraseMain" ELSE "launch"
      /\ k' = 1
      /\ locked' = ~upgrade
      /\ UNCHANGED <<main, store, failed, client, session, offered>>
      /\ pc = "check"
  BY DEF BootCheck, Goto
<1>3. TypeInv'
  BY <1>2 DEF TypeInv, TypeOK, BootSteps, Sectors, Cells, upgrade
<1>4. HeaderInv' /\ OfferedInv'
  BY <1>2 DEF HeaderInv, OfferedInv
<1>5. BootInv'
  <2>1. CASE upgrade
    <3>1. pc' = "eraseMain" /\ locked' = FALSE /\ checkProgram(store)'
      BY <1>2, <2>1 DEF upgrade, checkProgram, Holds
    <3>2. \A c \in Cells : ~(Sector[c] < k')
      BY <1>2 DEF Sectors
    <3>3. QED
      BY <3>1, <3>2 DEF BootInv, AppSteps
  <2>2. CASE ~upgrade
    <3>1. pc' = "launch" /\ Recoverable
      BY <1>2, <2>2 DEF BootInv
    <3>2. checkProgram(main) /\ Settled
      BY <3>1, <2>2, NotHeld, HeldImage DEF upgrade, Settled, Recoverable
    <3>3. checkProgram(main)' /\ Settled'
      BY <3>2, <1>2 DEF Settled, Held, checkProgram, Holds
    <3>4. QED
      BY <3>1, <3>3 DEF BootInv, AppSteps
  <2>3. QED
    BY <2>1, <2>2
<1>6. StoreInv'
  BY <1>2 DEF StoreInv
<1>7. QED
  BY <1>3, <1>4, <1>5, <1>6

LEMMA BootEraseMainInv ==
    ASSUME IInv, NEW ok \in BOOLEAN, BootEraseMain(ok)
    PROVE  IInv'
<1> USE DEF IInv
<1> DEFINE erased == flash_erasePage(main, k)
<1>0. main \in Region /\ pc = "eraseMain" /\ ~locked /\ k \in Sectors
  BY DEF BootEraseMain, TypeInv, TypeOK, BootInv
<1>1. /\ erased = [c \in Cells |-> IF Sector[c] = k THEN Blank ELSE main[c]]
      /\ erased \in Region
  BY <1>0, EraseCells
<1>2. main' \in Outcomes(ok, main, erased)
  BY DEF BootEraseMain
<1> HIDE DEF erased
<1>3. /\ main' \in Region
      /\ \A c \in Cells : main'[c] \in {main[c], Blank, Torn}
      /\ ok => main' = erased
  BY <1>0, <1>1, <1>2, OutcomeCells
<1>4. failed' = (failed \/ ~ok) /\ UNCHANGED <<store, locked, client, session, offered>>
  BY DEF BootEraseMain
<1>5. failed' \in BOOLEAN /\ (~failed' => ~failed /\ ok)
  BY <1>4, Zenon
<1>6. \/ k < NSectors /\ k' = k + 1 /\ pc' = "eraseMain"
      \/ ~(k < NSectors) /\ k' = 1 /\ pc' = "program"
  BY <1>0 DEF BootEraseMain, Goto
<1>7. TypeInv'
  <2>1. k' \in Sectors /\ pc' \in BootSteps
    BY <1>0, <1>6 DEF Sectors, BootSteps
  <2>2. QED
    BY <1>3, <1>4, <1>5, <2>1 DEF TypeInv, TypeOK
<1>8. main'[1] \in {main[1], Blank, Torn}
  BY <1>3 DEF Cells
<1>9. HeaderInv' /\ OfferedInv'
  <2>1. \A v \in Images : Content[v][1] \notin {Blank, Torn}
    <3>1. 1 \in Cells
      BY DEF Cells
    <3>2. QED
      BY <3>1, ContentCell, ContentAssumption
  <2>2. QED
    BY <1>4, <1>8, <2>1, ContentAssumption DEF HeaderInv, OfferedInv
<1>10. checkProgram(store)' /\ Held(store)' = Held(store)
  BY <1>0, <1>4 DEF BootInv, checkProgram, Holds, Held
<1>11. ASSUME ~failed' PROVE \A c \in Cells : Sector[c] <= k => main'[c] = Blank
  BY <1>0, <1>1, <1>3, <1>5, <1>11 DEF BootInv, Sectors
<1>12. BootInv'
  <2>1. CASE pc' = "eraseMain"
    <3>1. ~failed' => \A c \in Cells : Sector[c] < k' => main'[c] = Blank
      BY <1>0, <1>6, <1>11, <2>1 DEF Sectors
    <3>2. QED
      BY <1>0, <1>4, <1>10, <2>1, <3>1 DEF BootInv, AppSteps
  <2>2. CASE pc' = "program"
    <3>1. ~failed' => \A c \in Cells : main'[c] = Blank
      BY <1>0, <1>6, <1>11, <2>2 DEF Sectors
    <3>2. k' \in 1..Size[Held(store)']
      BY <1>6, <1>10, <2>2, HeldImage DEF Cells
    <3>3. \A c \in Cells : ~(c < k')
      BY <1>6, <2>2 DEF Cells
    <3>4. QED
      BY <1>0, <1>4, <1>10, <2>2, <3>1, <3>2, <3>3 DEF BootInv, AppSteps
  <2>3. QED
    BY <1>6, <2>1, <2>2
<1>13. StoreInv'
  BY <1>0, <1>4, <1>6 DEF StoreInv
<1>14. QED
  BY <1>7, <1>9, <1>12, <1>13

\* The copy loop changes the cell it is at: to the word of the storage when nothing
\* has failed, else to what is left of the two.
LEMMA ProgramCells ==
    ASSUME IInv, NEW ok \in BOOLEAN, BootProgram(ok)
    PROVE  /\ k \in Cells
           /\ main' \in Region
           /\ \A c \in Cells : c # k => main'[c] \in {main[c], Torn}
           /\ main'[k] \in {main[k], store[k], Torn, Short}
           /\ main'[1] = Short => main[1] = Short \/ store[1] = Short \/ ShortOverlay
           /\ ok => \A c \in Cells : c # k => main'[c] = main[c]
           /\ ok /\ ~failed => main'[k] = store[k]
<1> DEFINE word == Overlay(k, main[k], store[k])
<1> DEFINE written == [main EXCEPT ![k] = word]
<1>1. ~locked /\ k \in Cells /\ main \in Region /\ store \in Region /\ pc = "program"
  <2>1. k \in 1..Size[Held(store)] /\ Held(store) \in Images
    BY HeldImage DEF IInv, BootInv, BootProgram
  <2>2. k \in Cells
    BY <2>1 DEF Cells
  <2>3. QED
    BY <2>2 DEF IInv, BootInv, BootProgram, TypeInv, TypeOK
<1>2. /\ word \in {main[k], store[k], Torn, Short}
      /\ word \in Cell
      /\ word = Short => main[k] = Short \/ store[k] = Short \/ ShortOverlay
      /\ main[k] = Blank => word = store[k]
  BY <1>1, OverlayCell DEF Region
<1> HIDE DEF word
<1>3. /\ written \in Region
      /\ written[k] = word
      /\ \A c \in Cells : c # k => written[c] = main[c]
  BY <1>1, <1>2 DEF Region
<1> HIDE DEF written
<1>4. main' \in Outcomes(ok, main, written)
  BY <1>1 DEF BootProgram, flash_write, written, word
<1>5. /\ main' \in Region
      /\ \A c \in Cells : main'[c] \in {main[c], written[c], Torn}
      /\ ok => main' = written
  BY <1>1, <1>3, <1>4, OutcomeCells
<1>6. ~failed => main[k] = Blank
  BY <1>1 DEF IInv, BootInv, Cells
<1>7. main'[1] = Short => main[1] = Short \/ store[1] = Short \/ ShortOverlay
  <2>1. 1 \in Cells /\ Torn # Short
    BY ContentAssumption DEF Cells
  <2>2. QED
    BY <1>1, <1>2, <1>3, <1>5, <2>1
<1>8. QED
  BY <1>1, <1>2, <1>3, <1>5, <1>6, <1>7

LEMMA BootProgramInv ==
    ASSUME IInv, NEW ok \in BOOLEAN, BootProgram(ok)
    PROVE  IInv'
<1> USE DEF IInv
<1>1. /\ ~locked
      /\ pc = "program"
      /\ failed' = (failed \/ ~ok)
      /\ UNCHANGED <<store, locked, client, session, offered>>
  BY DEF BootProgram, BootInv
<1>2. failed' \in BOOLEAN /\ (~failed' => ~failed /\ ok)
  BY <1>1, Zenon
<1>3. \/ k < Size[Held(store)] /\ k' = k + 1 /\ pc' = "program"
      \/ ~(k < Size[Held(store)]) /\ k' = 1 /\ pc' = "verify"
  BY DEF BootProgram, Goto
<1>4. checkProgram(store) /\ checkProgram(store)' /\ Held(store)' = Held(store)
  BY <1>1 DEF BootInv, checkProgram, Holds, Held
<1>5. /\ Held(store) \in Images
      /\ Holds(store, Held(store))
      /\ Size[Held(store)] \in Cells
      /\ k \in 1..Size[Held(store)]
  BY <1>1, <1>4, HeldImage DEF BootInv
<1>6. TypeInv'
  <2>1. k' \in Cells
    BY <1>3, <1>5 DEF Cells
  <2>2. QED
    BY <1>1, <1>2, <1>3, <2>1, ProgramCells DEF TypeInv, TypeOK, BootSteps
<1>7. HeaderInv' /\ OfferedInv'
  <2>1. \A v \in Images : Content[v][1] \notin {Torn, Short}
    <3>1. 1 \in Cells
      BY DEF Cells
    <3>2. QED
      BY <3>1, ContentCell
  <2>2. main'[1] \in {main[1], store[1], Torn, Short}
    BY ProgramCells DEF Cells
  <2>3. QED
    BY <1>1, <2>1, <2>2, ProgramCells DEF HeaderInv, OfferedInv
<1>8. ASSUME ~failed'
      PROVE  \A c \in Cells : IF c <= k THEN main'[c] = store[c] ELSE main'[c] = Blank
  <2>1. ~failed /\ ok
    BY <1>2, <1>8
  <2>2. \A c \in Cells : IF c < k THEN main[c] = store[c] ELSE main[c] = Blank
    BY <1>1, <2>1 DEF BootInv
  <2>3. /\ k \in Cells
        /\ \A c \in Cells : c # k => main'[c] = main[c]
        /\ main'[k] = store[k]
    BY <2>1, ProgramCells
  <2>4. QED
    BY <2>2, <2>3 DEF Cells
<1>9. BootInv'
  <2>1. CASE pc' = "program"
    <3>1. k' = k + 1 /\ k' \in 1..Size[Held(store)']
      BY <1>3, <1>4, <1>5, <2>1 DEF Cells
    <3>2. ~failed' => \A c \in Cells : IF c < k' THEN main'[c] = store[c] ELSE main'[c] = Blank
      BY <1>5, <1>8, <3>1, ProgramCells DEF Cells
    <3>3. QED
      BY <1>1, <1>4, <2>1, <3>1, <3>2 DEF BootInv, AppSteps
  <2>2. CASE pc' = "verify"
    <3>1. ASSUME ~failed' PROVE Holds(main, Held(store))'
      <4>1. k = Size[Held(store)]
        BY <1>3, <1>5, <2>2 DEF Cells
      <4>2. \A c \in 1..Size[Held(store)] : main'[c] = store[c]
        BY <1>5, <1>8, <3>1, <4>1 DEF Cells
      <4>3. QED
        BY <1>4, <1>5, <4>2 DEF Holds
    <3>2. QED
      BY <1>1, <1>4, <2>2, <3>1 DEF BootInv, AppSteps
  <2>3. QED
    BY <1>3, <2>1, <2>2
<1>10. StoreInv'
  BY <1>1, <1>3 DEF StoreInv
<1>11. QED
  BY <1>6, <1>7, <1>9, <1>10

LEMMA BootVerifyInv ==
    ASSUME IInv, BootVerify
    PROVE  IInv'
<1> USE DEF IInv
<1>1. /\ pc = "verify"
      /\ k' = 1
      /\ UNCHANGED <<main, store, failed, client, session, offered>>
      /\ checkProgram(store) /\ ~locked
  BY DEF BootVerify, Goto, BootInv
<1>2. \/ CheckFaults(main) /\ pc' = "fault" /\ locked' = locked
      \/ checkProgram(main) /\ pc' = "eraseStore" /\ locked' = locked
      \/ ~CheckFaults(main) /\ ~checkProgram(main) /\ pc' = "launch" /\ locked' = TRUE
  BY DEF BootVerify, Goto
<1>3. TypeInv'
  <2>1. locked' \in BOOLEAN
    <3>1. locked \in BOOLEAN
      BY DEF TypeInv, TypeOK
    <3>2. QED
      BY <1>2, <3>1, Zenon
  <2>2. pc' \in BootSteps \cup DeadEnds /\ k' \in Sectors
    BY <1>1, <1>2 DEF BootSteps, DeadEnds, Sectors
  <2>3. QED
    BY <1>1, <2>1, <2>2 DEF TypeInv, TypeOK
<1>4. HeaderInv' /\ OfferedInv' /\ StoreInv'
  BY <1>1, <1>2 DEF HeaderInv, OfferedInv, StoreInv
<1>5. /\ checkProgram(main)' = checkProgram(main)
      /\ checkProgram(store)' = checkProgram(store)
      /\ Held(main)' = Held(main)
  BY <1>1 DEF checkProgram, Holds, Held
<1>6. ~failed => /\ checkProgram(main)
                 /\ \A v \in Images : store[1] = Content[v][1] => v = Held(main)
  <2>1. Held(store) \in Images
    BY <1>1, HeldImage
  <2>2. ~failed => checkProgram(main) /\ Held(main) = Held(store)
    BY <1>1, <2>1, HeldUnique DEF BootInv
  <2>3. QED
    BY <1>1, <2>2, HeldByHeader
<1>7. BootInv'
  <2>1. CASE CheckFaults(main) /\ pc' = "fault"
    BY <1>1, <1>5, <2>1 DEF BootInv, AppSteps, CheckFaults
  <2>2. CASE checkProgram(main) /\ pc' = "eraseStore" /\ locked' = locked
    BY <1>1, <1>5, <1>6, <2>2 DEF BootInv, AppSteps
  <2>3. CASE ~checkProgram(main) /\ pc' = "launch"
    BY <1>1, <1>5, <1>6, <2>3 DEF BootInv, AppSteps
  <2>4. QED
    BY <1>2, <2>1, <2>2, <2>3
<1>8. QED
  BY <1>3, <1>4, <1>7

LEMMA BootEraseStoreInv ==
    ASSUME IInv, NEW ok \in BOOLEAN, BootEraseStore(ok)
    PROVE  IInv'
<1> USE DEF IInv
<1>0. /\ ~locked /\ pc = "eraseStore" /\ k \in Sectors /\ store \in Region /\ checkProgram(main)
      /\ failed' = (failed \/ ~ok)
      /\ UNCHANGED <<main, client, session, offered>>
  BY DEF BootEraseStore, BootInv, TypeInv, TypeOK
<1>1. /\ store' \in Region
      /\ \A c \in Cells : store'[c] \in {store[c], Blank, Torn}
  <2>1. /\ flash_erasePage(store, k) \in Region
        /\ \A c \in Cells : flash_erasePage(store, k)[c] \in {store[c], Blank}
    BY <1>0, EraseCells
  <2>2. store' \in Outcomes(ok, store, flash_erasePage(store, k))
    BY DEF BootEraseStore
  <2>3. QED
    BY <1>0, <2>1, <2>2, OutcomeCells
<1>2. \/ k < NSectors /\ k' = k + 1 /\ pc' = "eraseStore" /\ locked' = locked
      \/ ~(k < NSectors) /\ k' = 1 /\ pc' = "launch" /\ locked' = TRUE
  BY <1>0 DEF BootEraseStore, Goto
<1>3. TypeInv'
  <2>1. failed' \in BOOLEAN
    BY <1>0, Zenon
  <2>2. k' \in Sectors
    BY <1>0, <1>2 DEF Sectors
  <2>3. locked' \in BOOLEAN
    <3>1. locked \in BOOLEAN
      BY DEF TypeInv, TypeOK
    <3>2. QED
      BY <1>2, <3>1, Zenon
  <2>4. pc' \in BootSteps
    BY <1>2 DEF BootSteps
  <2>5. QED
    BY <1>0, <1>1, <2>1, <2>2, <2>3, <2>4 DEF TypeInv, TypeOK
<1>4. store'[1] \in {store[1], Blank, Torn}
  BY <1>1 DEF Cells
<1>5. \A v \in Images : Content[v][1] \notin {Blank, Torn}
  <2>1. 1 \in Cells
    BY DEF Cells
  <2>2. QED
    BY <2>1, ContentCell, ContentAssumption
<1>6. HeaderInv' /\ OfferedInv'
  BY <1>0, <1>4, <1>5, ContentAssumption DEF HeaderInv, OfferedInv
<1>7. checkProgram(main)' /\ Held(main)' = Held(main)
  BY <1>0 DEF checkProgram, Holds, Held
<1>8. ASSUME ~failed' PROVE \A v \in Images : store'[1] = Content[v][1] => v = Held(main)
  <2>1. ~failed
    BY <1>0, <1>8, Zenon
  <2>2. QED
    BY <1>0, <1>4, <1>5, <2>1 DEF BootInv
<1>9. ASSUME ~failed' PROVE Settled'
  <2>1. ASSUME checkProgram(store') PROVE Held(store') = Held(main)
    BY <1>8, <1>9, <2>1, HeldImage, HoldsHeader
  <2>2. checkProgram(store)' = checkProgram(store') /\ Held(store)' = Held(store')
    BY DEF checkProgram, Holds, Held
  <2>3. QED
    BY <1>7, <2>1, <2>2 DEF Settled
<1>10. BootInv'
  BY <1>0, <1>2, <1>7, <1>8, <1>9 DEF BootInv, AppSteps
<1>11. StoreInv'
  BY <1>0, <1>2 DEF StoreInv
<1>12. QED
  BY <1>3, <1>6, <1>10, <1>11

LEMMA BootLaunchInv ==
    ASSUME IInv, BootLaunch
    PROVE  IInv'
<1> USE DEF IInv
<1>1. /\ pc = "launch"
      /\ pc' = IF CheckFaults(main) THEN "fault" ELSE IF checkProgram(main) THEN "init" ELSE "halt"
      /\ k' = 1
      /\ UNCHANGED <<main, store, locked, failed, client, session, offered>>
  BY DEF BootLaunch, Goto
<1>2. TypeInv'
  BY <1>1 DEF TypeInv, TypeOK, BootSteps, AppSteps, DeadEnds, Sectors, Cells
<1>3. HeaderInv' /\ OfferedInv'
  BY <1>1 DEF HeaderInv, OfferedInv
<1>4. /\ checkProgram(main)' = checkProgram(main)
      /\ checkProgram(store)' = checkProgram(store)
  BY <1>1 DEF checkProgram, Holds
<1>5. CheckFaults(main) => ~checkProgram(main)
  BY NoHeader DEF CheckFaults
<1>6. BootInv'
  BY <1>1, <1>4, <1>5 DEF BootInv, AppSteps, CheckFaults
<1>7. \A c \in Cells : ~(Sector[c] < k')
  BY <1>1 DEF Sectors
<1>8. StoreInv'
  BY <1>1, <1>7 DEF StoreInv
<1>9. QED
  BY <1>2, <1>3, <1>6, <1>8

-------------------------------------------------------------------------------
(* So does every step of the application and of the script.                *)

LEMMA PortInitInv ==
    ASSUME IInv, NEW ok \in BOOLEAN, xMBTCPPortInit(ok)
    PROVE  IInv'
<1> USE DEF IInv
<1>1. /\ pc = "init"
      /\ k \in Sectors
      /\ store \in Region
      /\ failed' = (failed \/ ~ok)
      /\ UNCHANGED <<main, locked, client, session, offered>>
      /\ store' \in Outcomes(ok, store, CleanedStore)
  BY DEF xMBTCPPortInit, TypeInv, TypeOK
<1>2. /\ CleanedStore \in Region
      /\ \A c \in Cells : CleanedStore[c] = IF Sector[c] = k THEN Blank ELSE store[c]
  BY <1>1 DEF CleanedStore, SectorBlank, Region, Cell
<1>3. /\ store' \in Region
      /\ \A c \in Cells : store'[c] \in {store[c], Blank, Torn}
      /\ ok => store' = CleanedStore
  BY <1>1, <1>2, OutcomeCells
<1>4. failed' \in BOOLEAN /\ (~failed' => ~failed /\ ok)
  BY <1>1, Zenon
<1>5. \/ k < NSectors /\ k' = k + 1 /\ pc' = "init"
      \/ ~(k < NSectors) /\ k' = 1 /\ pc' = "network"
  BY <1>1 DEF xMBTCPPortInit, Goto
<1>6. TypeInv'
  <2>1. k' \in Sectors /\ pc' \in AppSteps
    BY <1>1, <1>5 DEF Sectors, AppSteps
  <2>2. QED
    BY <1>1, <1>3, <1>4, <2>1 DEF TypeInv, TypeOK
<1>7. HeaderInv' /\ OfferedInv'
  <2>1. 1 \in Cells
    BY DEF Cells
  <2>2. \A v \in Images : Content[v][1] \notin {Blank, Torn}
    BY <2>1, ContentCell, ContentAssumption
  <2>3. store'[1] \in {store[1], Blank, Torn}
    BY <1>3, <2>1
  <2>4. QED
    BY <1>1, <2>2, <2>3, ContentAssumption DEF HeaderInv, OfferedInv
<1>8. BootInv'
  <2>1. checkProgram(main)'
    BY <1>1 DEF BootInv, AppSteps, checkProgram, Holds
  <2>2. QED
    BY <1>5, <2>1 DEF BootInv
<1>9. StoreInv'
  <2>1. client.img # None => ~client.clean
    BY <1>1 DEF StoreInv
  <2>2. ASSUME ~failed' PROVE \A c \in Cells : Sector[c] <= k => store'[c] = Blank
    BY <1>1, <1>2, <1>3, <1>4, <2>2 DEF StoreInv, Sectors
  <2>3. CASE pc' = "init"
    <3>1. ~failed' => \A c \in Cells : Sector[c] < k' => store'[c] = Blank
      BY <1>1, <1>5, <2>2, <2>3 DEF Sectors
    <3>2. QED
      BY <1>1, <2>1, <2>3, <3>1 DEF StoreInv
  <2>4. CASE pc' = "network"
    <3>1. ~failed' => \A c \in Cells : store'[c] = Blank
      BY <1>1, <1>5, <2>2, <2>4 DEF Sectors
    <3>2. QED
      BY <1>1, <2>1, <2>4, <3>1 DEF StoreInv
  <2>5. QED
    BY <1>5, <2>3, <2>4
<1>10. QED
  BY <1>6, <1>7, <1>8, <1>9

LEMMA NetworkUpInv ==
    ASSUME IInv, NetworkUp
    PROVE  IInv'
<1> USE DEF IInv
<1>1. /\ pc = "network" /\ pc' = "serve" /\ k' = 1
      /\ UNCHANGED <<main, store, locked, failed, client, session, offered>>
  BY DEF NetworkUp, Goto
<1>2. TypeInv' /\ HeaderInv' /\ OfferedInv'
  BY <1>1 DEF TypeInv, TypeOK, AppSteps, Sectors, Cells, HeaderInv, OfferedInv
<1>3. BootInv'
  BY <1>1 DEF BootInv, AppSteps, checkProgram, Holds
<1>4. StoreInv'
  BY <1>1 DEF StoreInv
<1>5. QED
  BY <1>2, <1>3, <1>4

\* What a record does to the storage: on its own cell what Overlay says, nothing elsewhere.
LEMMA RecordCells ==
    ASSUME IInv, Sending
    PROVE  /\ client.img \in Images
           /\ client.rec \in Cells
           /\ RecordStored \in Region
           /\ \A c \in Cells : c # client.rec => RecordStored[c] = store[c]
           /\ RecordStored[client.rec] \in
                {store[client.rec], Content[client.img][client.rec], Torn, Short}
           /\ RecordStored[client.rec] = Short => store[client.rec] = Short \/ ShortOverlay
           /\ store[client.rec] \in {Blank, Content[client.img][client.rec]} =>
                RecordStored[client.rec] = Content[client.img][client.rec]
<1>1. client.img \in Images /\ client.rec \in 1..Size[client.img]
  BY DEF IInv, TypeInv, TypeOK, Client, Sending
<1>2. client.rec \in Cells
  BY <1>1 DEF Cells
<1>3. store \in Region
  BY DEF IInv, TypeInv, TypeOK
<1>4. Content[client.img][client.rec] \in Cell \ {Torn, Short}
  BY <1>1, <1>2, ContentCell
<1> DEFINE word == Overlay(client.rec, store[client.rec], Content[client.img][client.rec])
<1>5. /\ word \in {store[client.rec], Content[client.img][client.rec], Torn, Short}
      /\ word \in Cell
      /\ word = Short => store[client.rec] = Short \/ ShortOverlay
      /\ store[client.rec] \in {Blank, Content[client.img][client.rec]} =>
            word = Content[client.img][client.rec]
  BY <1>2, <1>3, <1>4, OverlayCell DEF Region
<1>6. RecordStored = [store EXCEPT ![client.rec] = word]
  BY <1>2, <1>3 DEF RecordStored, Region
<1> HIDE DEF word
<1>7. QED
  BY <1>1, <1>2, <1>3, <1>5, <1>6 DEF Region

LEMMA FileRecordInv ==
    ASSUME IInv, NEW ok \in BOOLEAN, NEW answered \in BOOLEAN, eMBFileRecordCB(ok, answered)
    PROVE  IInv'
<1> USE DEF IInv
<1>1. /\ pc = "serve"
      /\ Sending
      /\ store' \in Outcomes(ok, store, RecordStored)
      /\ failed' = (failed \/ ~ok)
      /\ UNCHANGED <<main, locked, pc, k, session, offered>>
      /\ store \in Region
  BY DEF eMBFileRecordCB, TypeInv, TypeOK
<1>2. /\ client.img \in Images \ {None}
      /\ client.rec \in Cells
      /\ client \in Client
  BY <1>1, RecordCells DEF TypeInv, TypeOK, Sending
<1>3. /\ client' \in Client
      /\ client'.img = client.img
      /\ client'.clean = client.clean
      /\ client'.rec \in {client.rec, client.rec + 1}
  <2>1. CASE answered
    <3>1. client' = [img |-> client.img, rec |-> client.rec + 1, clean |-> client.clean]
      BY <1>2, <2>1 DEF eMBFileRecordCB, Client
    <3>2. client.rec + 1 \in 1..(NCells + 1)
      BY <1>2 DEF Cells
    <3>3. QED
      BY <1>2, <3>1, <3>2 DEF Client
  <2>2. CASE ~answered
    BY <1>2, <2>2 DEF eMBFileRecordCB
  <2>3. QED
    BY <2>1, <2>2
<1>4. /\ store' \in Region
      /\ \A c \in Cells : store'[c] \in {store[c], RecordStored[c], Torn}
      /\ ok => store' = RecordStored
  BY <1>1, RecordCells, OutcomeCells
<1>5. failed' \in BOOLEAN /\ (~failed' => ~failed /\ ok)
  BY <1>1, Zenon
<1>6. TypeInv'
  BY <1>1, <1>2, <1>3, <1>4, <1>5 DEF TypeInv, TypeOK
<1>7. /\ store'[1] \in {store[1], Content[client.img][1], Torn, Short}
      /\ store'[1] = Short => store[1] = Short \/ ShortOverlay
  <2>1. 1 \in Cells /\ Torn # Short
    BY ContentAssumption DEF Cells
  <2>2. QED
    BY <1>1, <1>4, <2>1, RecordCells
<1>8. HeaderInv' /\ OfferedInv'
  <2>1. 1 \in Cells
    BY DEF Cells
  <2>2. \A v \in Images : Content[v][1] \notin {Torn, Short}
    BY <2>1, ContentCell
  <2>3. HeaderInv'
    BY <1>1, <1>7 DEF HeaderInv
  <2>4. OfferedInv'
    BY <1>1, <1>2, <1>3, <1>7, <2>2, ContentAssumption DEF OfferedInv
  <2>5. QED
    BY <2>3, <2>4
<1>9. BootInv'
  <2>1. checkProgram(main)'
    BY <1>1 DEF BootInv, AppSteps, checkProgram, Holds
  <2>2. QED
    BY <1>1, <2>1 DEF BootInv
<1>10. StoreInv'
  <2>1. client.img \in session
    BY <1>2 DEF StoreInv
  <2>2. ASSUME session \subseteq {client.img}, ~failed'
        PROVE  /\ \A c \in Cells : store'[c] \in {Blank, Content[client.img][c]}
               /\ store'[client.rec] = Content[client.img][client.rec]
    <3>1. \A c \in Cells : store[c] \in {Blank, Content[client.img][c]}
      BY <1>1, <1>2, <1>5, <2>2 DEF StoreInv
    <3>2. QED
      BY <1>1, <1>2, <1>4, <1>5, <2>2, <3>1, RecordCells
  <2>3. ~failed' => \A v \in Images : session' \subseteq {v} =>
            \A c \in Cells : store'[c] \in {Blank, Content[v][c]}
    BY <1>1, <2>1, <2>2
  <2>4. ASSUME client.clean
        PROVE  /\ session \subseteq {client.img}
               /\ ~failed' => \A c \in Cells : c < client'.rec => store'[c] = Content[client.img][c]
    <3>1. /\ session \subseteq {client.img}
          /\ ~failed => \A c \in Cells : c < client.rec => store[c] = Content[client.img][c]
      BY <1>2, <2>4 DEF StoreInv
    <3>2. ASSUME ~failed' PROVE \A c \in Cells : c < client'.rec => store'[c] = Content[client.img][c]
      BY <1>1, <1>2, <1>3, <1>4, <1>5, <2>2, <3>1, <3>2, RecordCells DEF Cells
    <3>3. QED
      BY <3>1, <3>2
  <2>5. QED
    BY <1>1, <1>3, <2>1, <2>3, <2>4 DEF StoreInv
<1>11. QED
  BY <1>6, <1>8, <1>9, <1>10

LEMMA UploadStartInv ==
    ASSUME IInv, NEW v \in Images, UploadStart(v)
    PROVE  IInv'
<1> USE DEF IInv
<1>1. /\ pc = "serve"
      /\ client' = [img |-> v, rec |-> 1, clean |-> session \subseteq {v}]
      /\ session' = session \cup {v}
      /\ offered' = offered \cup {v}
      /\ UNCHANGED <<main, store, locked, pc, k, failed>>
  BY DEF UploadStart
<1>2. v # None
  OBVIOUS
<1>3. TypeInv'
  <2>1. client' \in Client
    BY <1>1 DEF Client
  <2>2. QED
    BY <1>1, <1>2, <2>1 DEF TypeInv, TypeOK
<1>4. HeaderInv' /\ OfferedInv'
  BY <1>1 DEF HeaderInv, OfferedInv
<1>5. BootInv'
  <2>1. checkProgram(main)'
    BY <1>1 DEF BootInv, AppSteps, checkProgram, Holds
  <2>2. QED
    BY <1>1, <2>1 DEF BootInv
<1>6. StoreInv'
  <2>1. client'.clean => session' \subseteq {v}
    BY <1>1
  <2>2. \A c \in Cells : ~(c < client'.rec)
    BY <1>1 DEF Cells
  <2>3. QED
    BY <1>1, <2>1, <2>2 DEF StoreInv
<1>7. QED
  BY <1>3, <1>4, <1>5, <1>6

\* A step of the client alone disturbs no type but its own.
LEMMA OnlyTheClient ==
    ASSUME TypeInv, client' \in Client, client'.img = None => client' = Idle,
           UNCHANGED <<main, store, locked, pc, k, failed, session, offered>>
    PROVE  TypeInv'
<1>1. main' \in Region /\ store' \in Region /\ session' \subseteq Images /\ offered' \subseteq Images
  BY DEF TypeInv, TypeOK
<1>2. locked' \in BOOLEAN /\ failed' \in BOOLEAN
  BY Zenon DEF TypeInv, TypeOK
<1>3. pc' \in BootSteps \cup AppSteps \cup DeadEnds /\ k' \in Cells \cup Sectors
  BY DEF TypeInv, TypeOK
<1>4. pc' \in {"eraseMain", "eraseStore", "init"} => k' \in Sectors
  BY DEF TypeInv
<1>5. TypeOK'
  BY <1>1, <1>2, <1>3, Zenon DEF TypeOK
<1> QED
  BY <1>4, <1>5, Zenon DEF TypeInv

LEMMA RecordLostInv ==
    ASSUME IInv, RecordLost
    PROVE  IInv'
<1> USE DEF IInv
<1>1. /\ client.img \in Images \ {None}
      /\ client.rec \in Cells
      /\ client \in Client
      /\ UNCHANGED <<main, store, locked, pc, k, failed, session, offered>>
  BY DEF RecordLost, Sending, TypeInv, TypeOK, Client, Cells
<1>2. client' = [img |-> client.img, rec |-> client.rec + 1, clean |-> FALSE]
  BY <1>1 DEF RecordLost, Client
<1>3. client' \in Client
  BY <1>1, <1>2 DEF Client, Cells
<1>4. TypeInv' /\ HeaderInv' /\ OfferedInv'
  BY <1>1, <1>2, <1>3 DEF TypeInv, TypeOK, HeaderInv, OfferedInv
<1>5. BootInv'
  BY <1>1, SMTT(30) DEF BootInv, Recoverable, Settled, checkProgram, Holds, Held
<1>6. StoreInv'
  BY <1>1, <1>2 DEF StoreInv
<1>7. QED
  BY <1>4, <1>5, <1>6

LEMMA UploadEndInv ==
    ASSUME IInv, UploadEnd
    PROVE  IInv'
<1> USE DEF IInv
<1>1. /\ client' = Idle
      /\ UNCHANGED <<main, store, locked, pc, k, failed, session, offered>>
  BY DEF UploadEnd
<1>2. client' \in Client /\ client'.img = None
  BY <1>1 DEF Client, Idle
<1>3. TypeInv' /\ HeaderInv' /\ OfferedInv'
  <2>1. TypeInv'
    BY <1>1, <1>2, OnlyTheClient
  <2>2. HeaderInv' /\ OfferedInv'
    BY <1>1, <1>2 DEF HeaderInv, OfferedInv
  <2>3. QED
    BY <2>1, <2>2
<1>4. BootInv'
  BY <1>1, SMTT(30) DEF BootInv, Recoverable, Settled, checkProgram, Holds, Held
<1>5. StoreInv'
  BY <1>1, <1>2 DEF StoreInv
<1>6. QED
  BY <1>3, <1>4, <1>5

LEMMA RebootInv ==
    ASSUME IInv, Reboot
    PROVE  IInv'
<1> USE DEF IInv
<1>1. /\ pc = "serve" /\ pc' = "check" /\ k' = 1
      /\ client' = Idle
      /\ session' = {}
      /\ failed' = FALSE
      /\ UNCHANGED <<main, store, locked, offered>>
  BY DEF Reboot, Goto
<1>2. client' \in Client /\ client'.img = None
  BY <1>1 DEF Client, Idle
<1>3. TypeInv' /\ HeaderInv' /\ OfferedInv'
  <2>1. pc' \in BootSteps /\ k' \in Sectors
    BY <1>1 DEF BootSteps, Sectors
  <2>2. failed' \in BOOLEAN
    BY <1>1, Zenon
  <2>3. QED
    BY <1>1, <1>2, <2>1, <2>2 DEF TypeInv, TypeOK, HeaderInv, OfferedInv
<1>4. BootInv'
  <2>1. Recoverable'
    BY <1>1 DEF BootInv, AppSteps, Recoverable, checkProgram, Holds
  <2>2. QED
    BY <1>1, <2>1 DEF BootInv, AppSteps
<1>5. StoreInv'
  BY <1>1, <1>2 DEF StoreInv
<1>6. QED
  BY <1>3, <1>4, <1>5

-------------------------------------------------------------------------------
(* A reset finds at most one region being changed, and only a region the   *)
(* device can do without.                                                  *)

LEMMA ResetMain ==
    ASSUME IInv, Reset
    PROVE  /\ main' \in Region
           /\ pc \notin {"eraseMain", "program"} => main' = main
           /\ main'[1] \in {main[1], store[1], Blank, Torn, Short}
           /\ main'[1] = Short => ShortOverlay
<1> USE DEF IInv
<1>1. /\ main' \in Interrupted(main, MainPending)
      /\ main' \in Outcomes(FALSE, main, MainPending)
      /\ main \in Region
      /\ store \in Region
      /\ 1 \in Cells /\ {Torn, Blank} \cap {Short} = {}
  BY ContentAssumption DEF Reset, Outcomes, TypeInv, TypeOK, Cells
<1>2. CASE pc = "eraseMain"
  <2>1. /\ MainPending \in Region
        /\ \A c \in Cells : MainPending[c] \in {main[c], Blank}
    BY <1>1, <1>2, EraseCells DEF MainPending, BootInv
  <2>2. main' \in Region /\ \A c \in Cells : main'[c] \in {main[c], MainPending[c], Torn}
    BY <1>1, <2>1, OutcomeCells
  <2>3. main'[1] \in {main[1], Blank, Torn}
    BY <1>1, <2>1, <2>2
  <2>4. QED
    BY <1>1, <1>2, <2>2, <2>3 DEF HeaderInv
<1>3. CASE pc = "program"
  <2>1. ~locked /\ k \in 1..Size[Held(store)] /\ checkProgram(store)
    BY <1>3 DEF BootInv
  <2>2. k \in Cells
    BY <2>1, HeldImage DEF Cells
  <2> DEFINE word == Overlay(k, main[k], store[k])
  <2>3. /\ word \in {main[k], store[k], Torn, Short}
        /\ word \in Cell
        /\ word = Short => main[k] = Short \/ store[k] = Short \/ ShortOverlay
    BY <1>1, <2>2, OverlayCell DEF Region
  <2>4. MainPending = [main EXCEPT ![k] = word]
    BY <1>1, <1>3, <2>1 DEF MainPending, flash_write
  <2> HIDE DEF word
  <2>5. /\ MainPending \in Region
        /\ \A c \in Cells : MainPending[c] = IF c = k THEN word ELSE main[c]
    BY <1>1, <2>2, <2>3, <2>4 DEF Region
  <2>6. main' \in Region /\ \A c \in Cells : main'[c] \in {main[c], MainPending[c], Torn}
    BY <1>1, <2>5, OutcomeCells
  <2>7. main'[1] \in {main[1], store[1], Torn, Short} /\ (main'[1] = Short => ShortOverlay)
    BY <1>1, <2>3, <2>5, <2>6 DEF HeaderInv
  <2>8. QED
    BY <1>3, <2>6, <2>7
<1>4. CASE pc \notin {"eraseMain", "program"}
  BY <1>1, <1>4, InterruptedIdle DEF MainPending, HeaderInv
<1>5. QED
  BY <1>2, <1>3, <1>4

LEMMA ResetStore ==
    ASSUME IInv, Reset
    PROVE  /\ store' \in Region
           /\ pc \notin {"eraseStore", "init", "serve"} => store' = store
           /\ pc # "serve" => store'[1] \in {store[1], Blank, Torn}
           /\ \A v \in Images : store'[1] = Content[v][1] => v \in offered
           /\ store'[1] = Short => ShortOverlay
<1> USE DEF IInv
<1>1. /\ store' \in Interrupted(store, StorePending)
      /\ store' \in Outcomes(FALSE, store, StorePending)
      /\ store \in Region
      /\ 1 \in Cells /\ {Torn, Blank} \cap {Short} = {}
  BY ContentAssumption DEF Reset, Outcomes, TypeInv, TypeOK, Cells
<1>2. \A v \in Images : Content[v][1] \notin {Blank, Torn, Short}
  BY <1>1, ContentCell, ContentAssumption
<1>3. CASE pc \in {"eraseStore", "init"}
  <2>1. StorePending \in Region /\ \A c \in Cells : StorePending[c] \in {store[c], Blank}
    <3>1. CASE pc = "eraseStore"
      BY <1>1, <3>1, EraseCells DEF StorePending, BootInv
    <3>2. CASE pc = "init"
      BY <1>1, <3>2 DEF StorePending, CleanedStore, Region, Cell
    <3>3. QED
      BY <1>3, <3>1, <3>2
  <2>2. store' \in Region /\ \A c \in Cells : store'[c] \in {store[c], StorePending[c], Torn}
    BY <1>1, <2>1, OutcomeCells
  <2>3. store'[1] \in {store[1], Blank, Torn}
    BY <1>1, <2>1, <2>2
  <2>4. QED
    BY <1>1, <1>2, <1>3, <2>2, <2>3 DEF HeaderInv, OfferedInv
<1>4. CASE pc = "serve" /\ Sending
  <2>1. StorePending = RecordStored
    BY <1>4 DEF StorePending
  <2>2. store' \in Region /\ \A c \in Cells : store'[c] \in {store[c], RecordStored[c], Torn}
    BY <1>1, <1>4, <2>1, OutcomeCells, RecordCells
  <2>3. store'[1] \in {store[1], Content[client.img][1], Torn, Short}
    BY <1>1, <1>4, <2>2, RecordCells
  <2>4. store'[1] = Short => ShortOverlay
    BY <1>1, <1>2, <1>4, <2>2, RecordCells DEF HeaderInv
  <2>5. client.img \in offered /\ client.img \in Images
    BY <1>4, RecordCells DEF OfferedInv, Sending
  <2>6. \A v \in Images : store'[1] = Content[v][1] => v \in offered
    BY <1>2, <2>3, <2>5, ContentAssumption DEF OfferedInv
  <2>7. QED
    BY <1>4, <2>2, <2>4, <2>6
<1>5. CASE pc \notin {"eraseStore", "init"} /\ ~(pc = "serve" /\ Sending)
  <2>1. store' = store
    BY <1>1, <1>5, InterruptedIdle DEF StorePending
  <2>2. QED
    BY <1>1, <2>1 DEF HeaderInv, OfferedInv
<1>6. QED
  BY <1>3, <1>4, <1>5

LEMMA ResetInv ==
    ASSUME IInv, Reset
    PROVE  IInv'
<1> USE DEF IInv
<1>1. /\ locked' = TRUE /\ pc' = "check" /\ k' = 1 /\ failed' = FALSE
      /\ client' = [client EXCEPT !.clean = FALSE]
      /\ session' = IF client.img = None THEN {} ELSE {client.img}
      /\ offered' = offered
      /\ client \in Client
  BY DEF Reset, Goto, TypeInv, TypeOK
<1>2. /\ client' \in Client
      /\ client'.img = client.img
      /\ ~client'.clean
      /\ client = Idle => client' = Idle
  <2>1. client' = [img |-> client.img, rec |-> client.rec, clean |-> FALSE]
    BY <1>1 DEF Client
  <2>2. client' \in Client
    BY <1>1, <2>1 DEF Client
  <2>3. client = Idle => client' = Idle
    BY <2>1 DEF Idle
  <2>4. client'.img = client.img /\ ~client'.clean
    BY <2>1
  <2>5. QED
    BY <2>2, <2>3, <2>4
<1>3. session' \subseteq Images
  BY <1>1 DEF Client
<1>4. TypeInv'
  <2>0. locked' \in BOOLEAN /\ failed' \in BOOLEAN
    BY <1>1, Zenon
  <2>1. pc' \in BootSteps /\ k' \in Sectors
    BY <1>1 DEF BootSteps, Sectors
  <2>2. client.img = None => client = Idle
    BY DEF TypeInv, TypeOK
  <2>3. offered' \subseteq Images
    BY <1>1 DEF TypeInv, TypeOK
  <2>4. QED
    BY <1>1, <1>2, <1>3, <2>0, <2>1, <2>2, <2>3, ResetMain, ResetStore DEF TypeInv, TypeOK
<1>5. \A v \in Images : Content[v][1] \notin {Blank, Torn, Short}
  <2>1. 1 \in Cells
    BY DEF Cells
  <2>2. QED
    BY <2>1, ContentCell, ContentAssumption
<1>6. HeaderInv' /\ OfferedInv'
  <2>1. HeaderInv'
    BY ResetMain, ResetStore, ContentAssumption DEF HeaderInv
  <2>2. OfferedInv'
    BY <1>1, <1>2, <1>5, ResetMain, ResetStore DEF OfferedInv
  <2>3. QED
    BY <2>1, <2>2
<1>7. BootInv'
  <2>1. \/ checkProgram(main) /\ main' = main
        \/ checkProgram(store) /\ store' = store
    BY ResetMain, ResetStore DEF BootInv, Recoverable, TypeInv, TypeOK, BootSteps, AppSteps, DeadEnds
  <2>2. Recoverable'
    BY <2>1 DEF Recoverable, checkProgram, Holds
  <2>3. QED
    BY <1>1, <2>2 DEF BootInv, AppSteps
<1>8. StoreInv'
  BY <1>1, <1>2 DEF StoreInv
<1>9. QED
  BY <1>4, <1>6, <1>7, <1>8

-------------------------------------------------------------------------------
(* The invariant is inductive.                                             *)

LEMMA StutterInv == ASSUME IInv, UNCHANGED vars PROVE IInv'
BY DEF IInv, vars, TypeInv, TypeOK, HeaderInv, OfferedInv, BootInv, StoreInv,
       Recoverable, Settled, checkProgram, Holds, Held

LEMMA NextInv ==
    ASSUME IInv, [Next]_vars
    PROVE  IInv'
BY BootCheckInv, BootEraseMainInv, BootProgramInv, BootVerifyInv, BootEraseStoreInv,
   BootLaunchInv, PortInitInv, NetworkUpInv, FileRecordInv, UploadStartInv, RecordLostInv,
   UploadEndInv, RebootInv, ResetInv, StutterInv
   DEF Next, Boot

\* IInv holds throughout every behaviour.
LEMMA Inductive == Spec => []IInv
BY InitInv, NextInv, PTL DEF Spec

-------------------------------------------------------------------------------
(* Theorems.                                                               *)

\* Every variable of the update path keeps to its range.
THEOREM TypeCorrect == Spec => []TypeOK
<1>1. IInv => TypeOK
  BY DEF IInv, TypeInv
<1>2. QED
  BY <1>1, Inductive, PTL

\* What is left when the bootloader reads past the flash: one region has an overlaid
\* header, the other is whole, and so one region always is (boot.cpp:80-94).
THEOREM ImageSurvives ==
    Spec => [](/\ Recoverable
               /\ pc = "fault" => \/ CheckFaults(store) /\ checkProgram(main)
                                  \/ CheckFaults(main) /\ checkProgram(store))
<1>1. IInv => /\ Recoverable
              /\ pc = "fault" => \/ CheckFaults(store) /\ checkProgram(main)
                                 \/ CheckFaults(main) /\ checkProgram(store)
  BY DEF IInv, TypeInv, TypeOK, BootInv, Recoverable, BootSteps, AppSteps, DeadEnds
<1>2. QED
  BY <1>1, Inductive, PTL

\* At every moment one region holds a complete image; the bootloader gives up
\* only after an erase or a write that failed, and never leaves the flash
\* (boot.cpp:24-74).
THEOREM AlwaysRecoverable == ASSUME ~ShortOverlay PROVE Spec => []NeverBricked
<1>1. IInv => NeverBricked
  BY DEF IInv, TypeInv, TypeOK, HeaderInv, BootInv, NeverBricked, Recoverable,
         BootSteps, AppSteps, DeadEnds, CheckFaults
<1>2. QED
  BY <1>1, Inductive, PTL

\* An upload into a clean storage, all of whose records arrived, is what the next start
\* runs, if no erase and no write of the flash has failed since the reset before it: an
\* acknowledged record may still not be there (porttcp.cpp:130-172).
THEOREM CleanUploadIsCommitted == Spec => []CleanUploadCommits
<1>1. ASSUME IInv PROVE CleanUploadCommits
  <2>1. SUFFICES ASSUME client.img # None, client.clean, ~Sending, ~failed
                 PROVE  Committed = client.img
    BY DEF CleanUploadCommits
  <2>2. client.img \in Images /\ client.rec \in Nat /\ Size[client.img] \in Cells
    BY <1>1, <2>1 DEF IInv, TypeInv, TypeOK, Client
  <2>3. \A c \in Cells : c < client.rec => store[c] = Content[client.img][c]
    BY <1>1, <2>1 DEF IInv, StoreInv
  <2>4. Holds(store, client.img)
    <3>1. ~(client.rec <= Size[client.img])
      BY <2>1 DEF Sending
    <3>2. ASSUME NEW c \in 1..Size[client.img] PROVE c \in Cells /\ c < client.rec
      BY <2>2, <3>1 DEF Cells
    <3>3. QED
      BY <2>3, <3>2 DEF Holds
  <2>5. QED
    BY <2>2, <2>4, HeldUnique DEF Committed
<1>2. QED
  BY <1>1, Inductive, PTL
-------------------------------------------------------------------------------
(* The update path keeps the promise of Firmware.                          *)

LEMMA SameFlash ==
    ASSUME UNCHANGED <<main, store>>
    PROVE  /\ Committed' = Committed
           /\ Held(main)' = Held(main)
BY DEF Committed, Held, checkProgram, Holds

LEMMA SameStore ==
    ASSUME checkProgram(store), store' = store
    PROVE  Committed' = Committed
BY DEF Committed, Held, checkProgram, Holds

\* Erasing a storage that agrees with the main region commits nothing else.
LEMMA SameMain ==
    ASSUME IInv, ~failed, pc = "eraseStore", main' = main, store'[1] \in {store[1], Blank, Torn}
    PROVE  Committed' = Committed
<1>1. /\ checkProgram(main)
      /\ \A v \in Images : store[1] = Content[v][1] => v = Held(main)
  BY DEF IInv, BootInv
<1>2. Committed = Held(main)
  BY <1>1, HeldImage, HoldsHeader DEF Committed
<1>3. ASSUME checkProgram(store') PROVE Held(store') = Held(main)
  BY <1>1, <1>3, NoHeader, HeldImage, HoldsHeader
<1>4. Committed' = IF checkProgram(store') THEN Held(store') ELSE Held(main')
  BY DEF Committed, Held, checkProgram, Holds
<1>5. QED
  BY <1>2, <1>3, <1>4

\* Only an offered image is ever committed.
CommittedInv == Committed \in offered /\ Committed \in Images

LEMMA CommittedOffered == IInv => CommittedInv
<1> SUFFICES ASSUME IInv PROVE Committed \in offered /\ Committed \in Images
  BY DEF CommittedInv
<1>1. Recoverable
  BY DEF IInv, TypeInv, TypeOK, BootInv, Recoverable, BootSteps, AppSteps, DeadEnds
<1>2. QED
  BY <1>1, HeldImage, HoldsHeader DEF Committed, Recoverable, IInv, OfferedInv

LEMMA CommittedOfferedNext == IInv' => CommittedInv'
BY CommittedOffered, PTL

LEMMA PromiseInit == Init => Promise!Init
<1> SUFFICES ASSUME Init PROVE Promise!Init
  OBVIOUS
<1>1. ~checkProgram(store)
  <2>1. store[1] = Blank
    BY DEF Init, Cells
  <2>2. QED
    BY <2>1, NoHeader
<1>2. Held(main) = Factory
  BY FactoryHeld, HeldUnique
<1>3. Committed = Factory /\ Running = None
  BY <1>1, <1>2 DEF Committed, Running, Init, AppSteps
<1>4. offered = {Factory} /\ failed = FALSE
  BY DEF Init
<1>5. QED
  BY <1>3, <1>4, Zenon DEF Promise!Init

\* What the owner sees of a step that changes nothing but what the flash is known to have done.
PromiseStays == Promise!Next \/ UNCHANGED <<Committed, offered, Running, failed>>

LEMMA PromiseFail ==
    ASSUME NEW ok \in BOOLEAN, failed \in BOOLEAN, failed' = (failed \/ ~ok),
           UNCHANGED <<Committed, offered, Running>>
    PROVE  PromiseStays
<1>1. CASE ok
  <2>1. failed' = failed
    BY <1>1, Zenon
  <2>2. QED
    BY <2>1 DEF PromiseStays
<1>2. CASE ~ok
  <2>1. failed' = TRUE
    BY <1>2, Zenon
  <2>2. Promise!Fail
    BY <2>1, Zenon DEF Promise!Fail
  <2>3. QED
    BY <2>2 DEF PromiseStays, Promise!Next
<1>3. QED
  BY <1>1, <1>2

\* The copy loop leaves the storage, which is committed, alone.
LEMMA PromiseCopy ==
    ASSUME IInv, NEW ok \in BOOLEAN, BootEraseMain(ok) \/ BootProgram(ok)
    PROVE  PromiseStays
<1>1. checkProgram(store) /\ store' = store /\ failed' = (failed \/ ~ok) /\ offered' = offered
  BY DEF BootEraseMain, BootProgram, IInv, BootInv
<1>2. Running = None /\ Running' = None
  BY DEF BootEraseMain, BootProgram, Goto, Running, AppSteps
<1>3. failed \in BOOLEAN
  BY Zenon DEF IInv, TypeInv, TypeOK
<1>4. QED
  BY <1>1, <1>2, <1>3, SameStore, PromiseFail

\* The erasure of the storage commits nothing else, unless an earlier step has failed.
LEMMA PromiseErase ==
    ASSUME IInv, IInv', NEW ok \in BOOLEAN, BootEraseStore(ok)
    PROVE  PromiseStays
<1>1. /\ pc = "eraseStore" /\ ~locked /\ k \in Sectors /\ store \in Region
      /\ main' = main /\ offered' = offered /\ failed' = (failed \/ ~ok)
      /\ store' \in Outcomes(ok, store, flash_erasePage(store, k))
  BY DEF BootEraseStore, IInv, BootInv, TypeInv, TypeOK
<1>2. Running = None /\ Running' = None
  BY DEF BootEraseStore, Goto, Running, AppSteps
<1>3. failed \in BOOLEAN
  BY Zenon DEF IInv, TypeInv, TypeOK
<1>4. CASE ~failed
  <2>1. /\ flash_erasePage(store, k) \in Region
        /\ \A c \in Cells : flash_erasePage(store, k)[c] \in {store[c], Blank}
    BY <1>1, EraseCells
  <2>2. store'[1] \in {store[1], Blank, Torn}
    BY <1>1, <2>1, OutcomeCells DEF Cells
  <2>3. Committed' = Committed
    BY <1>1, <1>4, <2>2, SameMain
  <2>4. QED
    BY <1>1, <1>2, <1>3, <2>3, PromiseFail
<1>5. CASE failed
  <2>1. failed = TRUE /\ failed' = TRUE
    BY <1>1, <1>3, <1>5, Zenon
  <2>2. Committed' \in offered /\ Committed' \in Images
    BY <1>1, CommittedOfferedNext DEF CommittedInv
  <2>3. Promise!Commit(Committed')
    BY <1>1, <1>2, <2>1, <2>2 DEF Promise!Commit
  <2>4. QED
    BY <2>2, <2>3 DEF PromiseStays, Promise!Next
<1>6. QED
  BY <1>4, <1>5

\* The start runs what the main region holds: the committed image, if nothing has failed.
LEMMA PromiseLaunch ==
    ASSUME IInv, BootLaunch
    PROVE  PromiseStays
<1>1. /\ pc = "launch"
      /\ pc' = IF CheckFaults(main) THEN "fault" ELSE IF checkProgram(main) THEN "init" ELSE "halt"
      /\ UNCHANGED <<main, store, offered, failed>>
      /\ Running = None
  BY DEF BootLaunch, Goto, Running, AppSteps
<1>2. failed \in BOOLEAN
  BY Zenon DEF IInv, TypeInv, TypeOK
<1>3. Committed' = Committed /\ Held(main)' = Held(main)
  BY <1>1, SameFlash
<1>4. CASE checkProgram(main)
  <2>1. ~CheckFaults(main)
    BY <1>4, NoHeader DEF CheckFaults
  <2>2. Running' = Held(main)
    BY <1>1, <1>3, <1>4, <2>1 DEF Running, AppSteps
  <2>3. ~failed => Committed = Held(main)
    BY <1>1, <1>4 DEF IInv, BootInv, Settled, Committed
  <2>4. Held(main) \in offered
    BY <1>4, HeldImage, HoldsHeader DEF IInv, OfferedInv
  <2>5. Running' \in IF failed THEN offered ELSE {Committed}
    BY <2>2, <2>3, <2>4
  <2>6. Promise!Start
    BY <1>1, <1>3, <2>5 DEF Promise!Start
  <2>7. QED
    BY <2>6 DEF PromiseStays, Promise!Next
<1>5. CASE ~checkProgram(main)
  <2>1. Running' = None
    BY <1>1, <1>5 DEF Running, AppSteps
  <2>2. QED
    BY <1>1, <1>3, <2>1 DEF PromiseStays
<1>6. QED
  BY <1>4, <1>5

\* A step of the bootloader starts an image or does not show.
LEMMA PromiseBoot ==
    ASSUME IInv, IInv', Boot
    PROVE  PromiseStays
<1>1. CASE BootCheck \/ BootVerify
  <2>1. pc \notin AppSteps /\ pc' \notin AppSteps
    BY <1>1 DEF BootCheck, BootVerify, Goto, AppSteps
  <2>2. UNCHANGED <<main, store, offered, failed>>
    BY <1>1 DEF BootCheck, BootVerify
  <2>3. QED
    BY <2>1, <2>2, SameFlash DEF Running, PromiseStays
<1>2. QED
  BY <1>1, PromiseCopy, PromiseErase, PromiseLaunch DEF Boot

\* While the application runs, the flash may commit any offered image.
LEMMA PromiseServe ==
    ASSUME IInv, IInv', NEW ok \in BOOLEAN, NEW answered \in BOOLEAN,
           xMBTCPPortInit(ok) \/ eMBFileRecordCB(ok, answered)
    PROVE  Promise!Next
<1>1. /\ pc \in AppSteps /\ pc' \in AppSteps
      /\ UNCHANGED <<main, offered>>
      /\ failed' = (failed \/ ~ok)
  BY DEF xMBTCPPortInit, eMBFileRecordCB, Goto, AppSteps
<1>2. checkProgram(main)
  BY <1>1 DEF IInv, BootInv
<1>3. Running = Held(main) /\ Running' = Held(main)
  BY <1>1 DEF Running, Held, checkProgram, Holds
<1>4. Held(main) # None
  BY <1>2, HeldImage
<1>5. Committed' \in offered /\ Committed' \in Images
  BY <1>1, CommittedOfferedNext DEF CommittedInv
<1>6. failed \in BOOLEAN
  BY Zenon DEF IInv, TypeInv, TypeOK
<1>7. failed' \in {failed, TRUE}
  BY <1>1, <1>6, Zenon
<1>8. Promise!Commit(Committed')
  BY <1>1, <1>3, <1>4, <1>5, <1>7 DEF Promise!Commit
<1>9. QED
  BY <1>5, <1>8 DEF Promise!Next

\* A reset that cuts a start commits nothing else either, unless a step before it has failed.
LEMMA PromiseReset ==
    ASSUME IInv, IInv', Reset
    PROVE  Promise!Next
<1>1. Running' = None /\ offered' = offered /\ failed' = FALSE
  BY DEF Reset, Goto, Running, AppSteps
<1>2. Committed' \in offered
  BY <1>1, CommittedOfferedNext DEF CommittedInv
<1>3. pc \in AppSteps => Running # None
  BY HeldImage DEF Running, IInv, BootInv
<1>4. ASSUME pc \notin AppSteps, ~failed PROVE Committed' = Committed
  <2>1. CASE pc \in {"eraseMain", "program", "verify"}
    <3>1. checkProgram(store) /\ store' = store
      BY <2>1, ResetStore DEF IInv, BootInv
    <3>2. QED
      BY <3>1, SameStore
  <2>2. CASE pc = "eraseStore"
    <3>1. main' = main /\ store'[1] \in {store[1], Blank, Torn}
      BY <2>2, ResetMain, ResetStore
    <3>2. QED
      BY <1>4, <2>2, <3>1, SameMain
  <2>3. CASE pc \in {"check", "launch", "halt", "fault"}
    BY <2>3, ResetMain, ResetStore, SameFlash
  <2>4. QED
    BY <1>4, <2>1, <2>2, <2>3 DEF IInv, TypeInv, TypeOK, BootSteps, DeadEnds
<1>5. Committed' \in IF Running # None \/ failed THEN {Committed} \cup offered ELSE {Committed}
  BY <1>2, <1>3, <1>4
<1>6. Promise!Stop
  BY <1>1, <1>5 DEF Promise!Stop
<1>7. QED
  BY <1>6 DEF Promise!Next

LEMMA PromiseStep ==
    ASSUME IInv, IInv', [Next]_vars
    PROVE  PromiseStays
<1>1. CASE Boot
  BY <1>1, PromiseBoot
<1>2. CASE \/ \E ok \in BOOLEAN : xMBTCPPortInit(ok)
           \/ \E ok, answered \in BOOLEAN : eMBFileRecordCB(ok, answered)
  BY <1>2, PromiseServe DEF PromiseStays
<1>3. ASSUME NEW v \in Images, UploadStart(v)
      PROVE  Promise!Next
  <2>1. /\ pc = "serve" /\ pc' = pc
        /\ offered' = offered \cup {v}
        /\ UNCHANGED <<main, store, failed>>
    BY <1>3 DEF UploadStart
  <2>2. Running = Held(main) /\ Running' = Running
    BY <2>1, SameFlash DEF Running, AppSteps
  <2>3. Running # None
    BY <2>1, <2>2, HeldImage DEF IInv, BootInv, AppSteps
  <2>4. Promise!Offer(v)
    BY <2>1, <2>2, <2>3, SameFlash DEF Promise!Offer
  <2>5. QED
    BY <2>4 DEF Promise!Next
<1>4. CASE RecordLost \/ UploadEnd \/ UNCHANGED vars
  <2>1. UNCHANGED <<main, store, pc, offered, failed>>
    BY <1>4 DEF RecordLost, UploadEnd, vars
  <2>2. QED
    BY <2>1, SameFlash DEF Running, PromiseStays
<1>5. CASE NetworkUp
  <2>1. /\ pc \in AppSteps /\ pc' \in AppSteps
        /\ UNCHANGED <<main, store, offered, failed>>
    BY <1>5 DEF NetworkUp, Goto, AppSteps
  <2>2. QED
    BY <2>1, SameFlash DEF Running, PromiseStays
<1>6. CASE Reboot
  <2>1. /\ pc = "serve" /\ pc' = "check"
        /\ UNCHANGED <<main, store, offered>>
        /\ failed' = FALSE
    BY <1>6 DEF Reboot, Goto
  <2>2. Running # None /\ Running' = None
    BY <2>1, HeldImage DEF Running, IInv, BootInv, AppSteps
  <2>3. Promise!Stop
    BY <2>1, <2>2, SameFlash DEF Promise!Stop
  <2>4. QED
    BY <2>3 DEF Promise!Next, PromiseStays
<1>7. CASE Reset
  BY <1>7, PromiseReset DEF PromiseStays
<1>8. QED
  BY <1>1, <1>2, <1>3, <1>4, <1>5, <1>6, <1>7 DEF Next, PromiseStays

\* The bootloader, the storage handling and the script implement Firmware:
\* exactly one image is committed, a start runs it, and only an offered image
\* takes its place, before a reset and not after it; where an erase or a write
\* has failed since the last reset, the image may be any that was offered.
THEOREM ImplementsFirmware == Spec => KeepsPromise
<1>1. IInv /\ IInv' /\ [Next]_vars => [Promise!Next]_<<Committed, offered, Running, failed>>
  BY PromiseStep DEF PromiseStays
<1>2. QED
  BY <1>1, PromiseInit, Inductive, PTL DEF Spec, KeepsPromise, Promise!Spec, Promise!fwVars
===============================================================================
