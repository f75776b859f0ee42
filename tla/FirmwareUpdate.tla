---------------------------- MODULE FirmwareUpdate ----------------------------
(***************************************************************************)
(* Firmware update: the bootloader (boot.cpp), the two image regions of    *)
(* the flash (flash.c, memory.ld), the storage handling of the Modbus      *)
(* server (porttcp.cpp) and the uploading script (nucci.py).               *)
(*                                                                         *)
(* A region is a function from cells to words; a cell is the unit in which *)
(* a record is stored, a sector the unit of erasure.  Programming can only *)
(* clear bits, so it replaces a Blank cell and otherwise overlays it.  A   *)
(* reset may happen between any two steps and in the middle of an erase    *)
(* or a write, which then leaves some of its cells done, undone or Torn.   *)
(* So does an erase or a write that fails, and nobody is told: flash.c     *)
(* does not look at the error flags and its callers not at its results.    *)
(***************************************************************************)
EXTENDS Integers

CONSTANTS
    Images,         \* firmware images
    Factory,        \* the image programmed at production
    None,           \* no image
    NSectors,       \* sectors of a region (memory.ld: 3 of 128K)
    NCells,         \* cells of a region
    Sector,         \* Sector[c]: the sector of cell c
    Size,           \* Size[v]: cells of image v (imageHeader.size)
    Content,        \* Content[v][c]: word of image v at cell c; cell 1 is the header
    Blank,          \* an erased cell
    Torn,           \* a cell whose bits belong to no image
    Short,          \* an overlaid header: magic intact, 0 < size < 8
    ShortOverlay    \* whether overlaying two headers can give Short

Sectors == 1..NSectors
Cells == 1..NCells
Words == {Content[v][c] : v \in Images, c \in Cells}
Cell == Words \cup {Blank, Torn, Short}

ASSUME SectorAssumption ==
    /\ NSectors \in Nat \ {0}
    /\ NCells \in Nat \ {0}
    /\ Sector \in [Cells -> Sectors]

ASSUME ImageAssumption ==
    /\ Factory \in Images
    /\ None \notin Images
    /\ Size \in [Images -> Cells]
    /\ ShortOverlay \in BOOLEAN

\* An image is known by its header, which holds its CRC; its body may hold
\* padding that reads as Blank (--gap-fill=0xFF), but no spoilt cell.
ASSUME ContentAssumption ==
    /\ \A v \in Images : DOMAIN Content[v] = Cells
    /\ \A v, w \in Images : Content[v][1] = Content[w][1] => v = w
    /\ \A v \in Images : Content[v][1] # Blank
    /\ {Torn, Short} \cap (Words \cup {Blank}) = {}
    /\ Torn # Short

VARIABLES
    main,       \* main flash region, executed in place
    store,      \* firmware storage region
    locked,     \* FLASH->CR LOCK bit
    pc,         \* what the processor is doing
    k,          \* next sector or cell of the loop at pc
    failed,     \* history: an erase or a write of the flash failed since the last reset
    client,     \* the uploading script
    session,    \* history: images sent since the last reset
    offered     \* history: images ever sent, and Factory

vars == <<main, store, locked, pc, k, failed, client, session, offered>>

BootSteps == {"check", "eraseMain", "program", "verify", "eraseStore", "launch"}
AppSteps == {"init", "network", "serve"}
DeadEnds == {"halt", "fault"}

Idle == [img |-> None, rec |-> 1, clean |-> FALSE]

-------------------------------------------------------------------------------
\* Flash

\* One word programmed over another.
Overlay(c, old, new) ==
    IF new = Blank THEN old
    ELSE IF old = Blank \/ old = new THEN new
    ELSE IF c = 1 /\ old # Torn /\ ShortOverlay THEN Short
    ELSE Torn

flash_erasePage(region, s) ==
    IF locked THEN region
    ELSE [c \in Cells |-> IF Sector[c] = s THEN Blank ELSE region[c]]

flash_write(region, c, word) ==
    IF locked THEN region
    ELSE [region EXCEPT ![c] = Overlay(c, @, word)]

\* What a region may hold when a reset stops the change from old to new, or it fails.
Interrupted(old, new) ==
    LET changing == {c \in Cells : old[c] # new[c]}
    IN  {[c \in Cells |-> IF c \in done THEN new[c]
                          ELSE IF c \in torn THEN Torn
                          ELSE old[c]] : done \in SUBSET changing, torn \in SUBSET changing}

Outcomes(ok, old, new) == IF ok THEN {new} ELSE Interrupted(old, new)

\* checkProgram accepts a region that holds all of an image.
Holds(region, v) == \A c \in 1..Size[v] : region[c] = Content[v][c]

checkProgram(region) == \E v \in Images : Holds(region, v)

Held(region) ==
    IF checkProgram(region) THEN CHOOSE v \in Images : Holds(region, v) ELSE None

\* size - skipbytes wraps below 8: the CRC then reads on past the end of flash.
CheckFaults(region) == region[1] = Short

-------------------------------------------------------------------------------
\* Bootloader

Goto(step) ==
    /\ pc' = step
    /\ k' = 1

\* Mutant: the storage is only a spare for a broken main image.
upgrade_only_if_broken == checkProgram(store) /\ ~checkProgram(main)

upgrade == checkProgram(store) /\ Held(store) # Held(main)

\* Mutant: flash_unlock is forgotten.
BootCheck_still_locked ==
    /\ pc = "check"
    /\ Goto(IF CheckFaults(store) THEN "fault" ELSE IF upgrade THEN "eraseMain" ELSE "launch")
    /\ UNCHANGED <<main, store, locked, failed, client, session, offered>>

BootCheck ==
    /\ pc = "check"
    /\ IF CheckFaults(store) \/ (checkProgram(store) /\ CheckFaults(main))
       THEN Goto("fault") /\ UNCHANGED locked
       ELSE /\ Goto(IF upgrade THEN "eraseMain" ELSE "launch")
            /\ locked' = ~upgrade
    /\ UNCHANGED <<main, store, failed, client, session, offered>>

BootEraseMain(ok) ==
    /\ pc = "eraseMain"
    /\ main' \in Outcomes(ok, main, flash_erasePage(main, k))
    /\ failed' = (failed \/ ~ok)
    /\ IF k < NSectors THEN k' = k + 1 /\ UNCHANGED pc ELSE Goto("program")
    /\ UNCHANGED <<store, locked, client, session, offered>>

BootProgram(ok) ==
    /\ pc = "program"
    /\ main' \in Outcomes(ok, main, flash_write(main, k, store[k]))
    /\ failed' = (failed \/ ~ok)
    /\ IF k < Size[Held(store)] THEN k' = k + 1 /\ UNCHANGED pc ELSE Goto("verify")
    /\ UNCHANGED <<store, locked, client, session, offered>>

\* Mutant: the storage is erased without verifying the main image.
BootVerify_skipped ==
    /\ pc = "verify"
    /\ Goto("eraseStore")
    /\ UNCHANGED <<main, store, locked, failed, client, session, offered>>

BootVerify ==
    /\ pc = "verify"
    /\ IF CheckFaults(main) THEN Goto("fault") /\ UNCHANGED locked
       ELSE IF checkProgram(main) THEN Goto("eraseStore") /\ UNCHANGED locked
       ELSE Goto("launch") /\ locked' = TRUE
    /\ UNCHANGED <<main, store, failed, client, session, offered>>

BootEraseStore(ok) ==
    /\ pc = "eraseStore"
    /\ store' \in Outcomes(ok, store, flash_erasePage(store, k))
    /\ failed' = (failed \/ ~ok)
    /\ IF k < NSectors
       THEN k' = k + 1 /\ UNCHANGED <<pc, locked>>
       ELSE Goto("launch") /\ locked' = TRUE
    /\ UNCHANGED <<main, client, session, offered>>

BootLaunch ==
    /\ pc = "launch"
    /\ Goto(IF CheckFaults(main) THEN "fault" ELSE IF checkProgram(main) THEN "init" ELSE "halt")
    /\ UNCHANGED <<main, store, locked, failed, client, session, offered>>

Boot ==
    \/ BootCheck \/ BootVerify \/ BootLaunch
    \/ \E ok \in BOOLEAN : BootEraseMain(ok) \/ BootProgram(ok) \/ BootEraseStore(ok)

-------------------------------------------------------------------------------
\* Application: the Modbus server

\* Mutant: only the first word of a sector is looked at.
SectorBlank_first_word(s) ==
    \E c \in Cells : /\ Sector[c] = s
                      /\ \A d \in Cells : Sector[d] = s => c <= d
                      /\ store[c] = Blank

SectorBlank(s) == \A c \in Cells : Sector[c] = s => store[c] = Blank

\* xMBTCPPortInit unlocks, erases and locks again, sector by sector.
CleanedStore ==
    IF SectorBlank(k) THEN store
    ELSE [c \in Cells |-> IF Sector[c] = k THEN Blank ELSE store[c]]

xMBTCPPortInit(ok) ==
    /\ pc = "init"
    /\ store' \in Outcomes(ok, store, CleanedStore)
    /\ failed' = (failed \/ ~ok)
    /\ IF k < NSectors THEN k' = k + 1 /\ UNCHANGED pc ELSE Goto("network")
    /\ UNCHANGED <<main, locked, client, session, offered>>

\* The server listens once there is a link or an address, which may be never.
NetworkUp ==
    /\ pc = "network"
    /\ Goto("serve")
    /\ UNCHANGED <<main, store, locked, failed, client, session, offered>>

\* The record the client is sending, as eMBFileRecordCB stores it.
RecordStored ==
    [store EXCEPT ![client.rec] = Overlay(client.rec, @, Content[client.img][client.rec])]

Sending == client.img # None /\ client.rec <= Size[client.img]

\* The record arrives and is acknowledged, whether or not the flash took it; the response
\* may be lost, and the record is then sent again.  A record beyond the storage, or of a
\* file other than the script's, is refused and changes nothing.
eMBFileRecordCB(ok, answered) ==
    /\ pc = "serve"
    /\ Sending
    /\ client.rec \in Cells
    /\ store' \in Outcomes(ok, store, RecordStored)
    /\ failed' = (failed \/ ~ok)
    /\ client' = IF answered THEN [client EXCEPT !.rec = @ + 1] ELSE client
    /\ UNCHANGED <<main, locked, pc, k, session, offered>>

-------------------------------------------------------------------------------
\* Uploading script: updateFw

UploadStart(v) ==
    /\ pc = "serve"
    /\ client = Idle
    /\ client' = [img |-> v, rec |-> 1, clean |-> session \subseteq {v}]
    /\ session' = session \cup {v}
    /\ offered' = offered \cup {v}
    /\ UNCHANGED <<main, store, locked, pc, k, failed>>

\* Mutant: the record loop runs past the end of the file.
RecordLost_past_end ==
    /\ client.img # None
    /\ client' = [client EXCEPT !.rec = @ + 1, !.clean = FALSE]
    /\ UNCHANGED <<main, store, locked, pc, k, failed, session, offered>>

\* All retries of a record fail; the script ignores that and sends the next.
RecordLost ==
    /\ Sending
    /\ client' = [client EXCEPT !.rec = @ + 1, !.clean = FALSE]
    /\ UNCHANGED <<main, store, locked, pc, k, failed, session, offered>>

\* After the last record the script writes the reboot register, or it stops
\* earlier (exception, Ctrl-C) or the write is lost.
UploadEnd ==
    /\ client # Idle
    /\ client' = Idle
    /\ UNCHANGED <<main, store, locked, pc, k, failed, session, offered>>

Reboot ==
    /\ pc = "serve"
    /\ client.img # None
    /\ ~Sending
    /\ Goto("check")
    /\ client' = Idle
    /\ session' = {}
    /\ failed' = FALSE
    /\ UNCHANGED <<main, store, locked, offered>>

-------------------------------------------------------------------------------
\* Reset: power loss, low-battery shutdown, Reboot menu item, fault

MainPending ==
    IF pc = "eraseMain" THEN flash_erasePage(main, k)
    ELSE IF pc = "program" THEN flash_write(main, k, store[k])
    ELSE main

StorePending ==
    IF pc = "eraseStore" THEN flash_erasePage(store, k)
    ELSE IF pc = "init" THEN CleanedStore
    ELSE IF pc = "serve" /\ Sending THEN RecordStored
    ELSE store

Reset ==
    /\ main' \in Interrupted(main, MainPending)
    /\ store' \in Interrupted(store, StorePending)
    /\ locked' = TRUE
    /\ Goto("check")
    /\ failed' = FALSE
    /\ client' = [client EXCEPT !.clean = FALSE]
    /\ session' = IF client.img = None THEN {} ELSE {client.img}
    /\ UNCHANGED offered

-------------------------------------------------------------------------------
Init ==
    /\ main = [c \in Cells |-> IF c <= Size[Factory] THEN Content[Factory][c] ELSE Blank]
    /\ store = [c \in Cells |-> Blank]
    /\ locked = TRUE
    /\ pc = "check"
    /\ k = 1
    /\ failed = FALSE
    /\ client = Idle
    /\ session = {}
    /\ offered = {Factory}

Next ==
    \/ Boot
    \/ \E ok \in BOOLEAN : xMBTCPPortInit(ok)
    \/ NetworkUp
    \/ \E ok, answered \in BOOLEAN : eMBFileRecordCB(ok, answered)
    \/ \E v \in Images : UploadStart(v)
    \/ RecordLost
    \/ UploadEnd
    \/ Reboot
    \/ Reset

\* The processor runs whatever code it is in; nothing obliges the network or a client.
Fairness == WF_vars(Boot) /\ WF_vars(\E ok \in BOOLEAN : xMBTCPPortInit(ok))

Spec == Init /\ [][Next]_vars

FairSpec == Spec /\ Fairness

-------------------------------------------------------------------------------
\* Properties

Region == [Cells -> Cell]
Client == [img : Images \cup {None}, rec : 1..(NCells + 1), clean : BOOLEAN]

\* Every variable keeps to its range.
TypeOK ==
    /\ main \in Region
    /\ store \in Region
    /\ locked \in BOOLEAN
    /\ pc \in BootSteps \cup AppSteps \cup DeadEnds
    /\ k \in Cells \cup Sectors
    /\ failed \in BOOLEAN
    /\ client \in Client
    /\ client.img = None => client = Idle
    /\ session \subseteq Images
    /\ offered \subseteq Images

\* The image the next start runs if nothing more happens to the flash.
Committed == IF checkProgram(store) THEN Held(store) ELSE Held(main)

Running == IF pc \in AppSteps THEN Held(main) ELSE None

\* The update path of boot.cpp and porttcp.cpp keeps the promise of Firmware.
Promise == INSTANCE Firmware WITH committed <- Committed, running <- Running, faulty <- failed
KeepsPromise == Promise!Spec

\* There is an image to start at every moment, wherever resets cut the
\* erasures and writes of boot.cpp:44-64 and whichever of them failed.
Recoverable == checkProgram(main) \/ checkProgram(store)

\* The device is never bricked: it stays recoverable, and the bootloader gives
\* up (boot.cpp:73) only after a failure, for the next reset to repeat.
NeverBricked == Recoverable /\ (pc = "halt" => failed) /\ pc # "fault"

\* An upload whose records all arrived, into a storage that has seen no other
\* image since the last reset, is what the next start runs - whatever earlier
\* uploads, retries, failures and resets left in the storage - if no erase and
\* no write has failed since that reset: the acknowledgement alone says nothing
\* (porttcp.cpp:130-171).
CleanUploadCommits ==
    client.img # None /\ client.clean /\ ~Sending /\ ~failed => Committed = client.img

\* Once failures and resets other than the script's cease, a started bootloader executes
\* the image that was committed when it started, unless the flash failed in that start,
\* and the application comes to wait for the network.
StableSupply == <>[][pc # "check" /\ pc' = "check" => Reboot]_vars /\ <>[](~failed)

BootRunsCommitted ==
    StableSupply =>
        /\ \A v \in Images : (pc = "check" /\ Committed = v) ~> (Running = v \/ failed)
        /\ (pc = "check") ~> (pc = "network")

\* checkProgram reads the image it was given: imageheader.h:17 says that size
\* counts the header, so the CRC never runs past the region.
CheckStaysInside == pc # "fault"
===============================================================================
