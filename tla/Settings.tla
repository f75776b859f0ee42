------------------------------- MODULE Settings -------------------------------
(***************************************************************************)
(* The settings store and the bus it shares with the charger.  systemTSK   *)
(* talks to the charger every 200 ms and loads the settings at the start;  *)
(* settingTSK saves them to the EEPROM when the settings window is left.   *)
(* Both use one I2C controller and one semaphore, with nothing that keeps  *)
(* them apart except that systemTSK has the higher priority.               *)
(***************************************************************************)
EXTENDS Integers, FiniteSets

CONSTANTS
    NChunks,        \* 16-byte chunks of the settings image
    MaxVersion      \* bound: edits of the settings

ASSUME SettingsAssumption == NChunks \in Nat \ {0} /\ MaxVersion \in Nat

Chunks == 1..NChunks

\* A version stands for a settings image; it differs from every other one in
\* every chunk.  Garbage is a chunk of none of them, Foreign one of the image an
\* earlier firmware with other limits has left.
Default == 0
Garbage == -1
Foreign == -2
Versions == Default..MaxVersion
Images == Versions \cup {Foreign}

VARIABLES
    eeprom,     \* what each chunk of the EEPROM holds
    ram,        \* the settings in use
    flagged,    \* fp.state.sysSettingLoadDefault
    sys,        \* the bus operation systemTSK waits for, or where it is
    ui,         \* settingTSK: where it is, the chunk and image it writes
    i2c,        \* the controller, its driver and the semaphore
    meas,       \* what the charger's last read gave
    reconfig,   \* rt9466reconfig
    charger,    \* the registers of the charger that hold the setting in use, as far as known
    missed,     \* history: a setting was edited past reconfig, or its write failed or met a save
    clash,      \* history: both tasks used the bus since both last left it
    kept        \* history: the image of the last good save, until another begins

vars == <<eeprom, ram, flagged, sys, ui, i2c, meas, reconfig, charger, missed, clash, kept>>

-------------------------------------------------------------------------------
(* The bus operations of systemTSK, in order: W writes, R reads.  The next *)
(* operation depends on what the semaphore said.                           *)

BootOps == {"initW", "initR", "firstW", "firstR", "eepW", "eepR"}

ChargerOps == {"statusW", "statusR", "startW", "convW", "convR",
               "highW", "highR", "lowW", "lowR", "voltW", "currW"}

\* The settings of the charger, written one by one while reconfig is set.
ConfigOps == {"voltW", "currW"}

Reads == {"initR", "firstR", "eepR", "statusR", "convR", "highR", "lowR"}

Ops == BootOps \cup ChargerOps

Kind(op) == IF op \in Reads THEN "rx" ELSE "tx"

\* adc_read gives up at the first operation that fails.
AfterRead == IF reconfig THEN "voltW" ELSE "check"

\* Mutant: a failed read of the high byte does not end adc_read.
After_reads_on(op, ok) ==
    CASE op = "highR"                 -> "lowW"
      [] op = "statusW"               -> IF ok THEN "statusR" ELSE "startW"
      [] op = "statusR"               -> "startW"
      [] op = "startW"                -> "pause"
      [] op \in {"eepW", "eepR"}      -> "idle"
      [] op \in {"voltW", "currW"}    -> "check"
      [] op = "convW" /\ ok           -> "convR"
      [] op = "convR" /\ ok           -> "highW"
      [] op = "highW" /\ ok           -> "highR"
      [] op = "lowW" /\ ok            -> "lowR"
      [] op = "initW"                 -> "firstW"
      [] op = "firstW"                -> "eepW"
      [] OTHER                        -> AfterRead

After(op, ok) ==
    CASE op = "initW"   -> IF ok THEN "initR" ELSE "firstW"
      [] op = "initR"   -> "firstW"
      [] op = "firstW"  -> IF ok THEN "firstR" ELSE "eepW"
      [] op = "firstR"  -> "eepW"
      [] op = "eepW"    -> IF ok THEN "eepR" ELSE "idle"
      [] op = "eepR"    -> "idle"
      [] op = "statusW" -> IF ok THEN "statusR" ELSE "startW"
      [] op = "statusR" -> "startW"
      [] op = "startW"  -> "pause"
      [] op = "convW"   -> IF ok THEN "convR" ELSE AfterRead
      [] op = "convR"   -> IF ok THEN "highW" ELSE AfterRead
      [] op = "highW"   -> IF ok THEN "highR" ELSE AfterRead
      [] op = "highR"   -> IF ok THEN "lowW" ELSE AfterRead
      [] op = "lowW"    -> IF ok THEN "lowR" ELSE AfterRead
      [] op = "lowR"    -> AfterRead
      [] op = "voltW"   -> IF ok THEN "currW" ELSE "check"
      [] op = "currW"   -> "check"

-------------------------------------------------------------------------------
(* The driver.  Starting a transfer does not look whether one is running:  *)
(* the running one is cut short or ends first, and the hook is called only *)
(* for an end that fits the state the last start has set.                  *)

Idle == [inflight |-> {}, state |-> "done", src |-> "sys", addr |-> "sys", sem |-> FALSE]

Transfer(op) == [op |-> op, chunk |-> 0, src |-> "sys", addr |-> "sys"]

\* One transfer at most goes on beside the one that starts.
With(t) == IF i2c.inflight = {} THEN {{t}} ELSE {{t, old} : old \in i2c.inflight}

\* i2c_write and i2c_read by systemTSK, which nothing interrupts.
Started(op) ==
    {[i2c EXCEPT !.inflight = both,
                 !.state = Kind(op),
                 !.src = IF Kind(op) = "tx" THEN "sys" ELSE @,
                 !.addr = "sys"] : both \in With(Transfer(op))}

\* What a write of a chunk really sends depends on whose buffer and address the
\* registers held when the start condition was set.
ChunkTransfer == [op |-> "chunk", chunk |-> ui.chunk, src |-> i2c.src, addr |-> i2c.addr]

InUse == i2c.inflight # {} \/ ui.at \notin {"idle", "edited"} \/ sys \in Ops

\* The two tasks are on the bus together.
Meeting(s, u) == s \in Ops /\ u.at \in {"addr", "start", "wait"}

-------------------------------------------------------------------------------
(* What a finished transfer did.                                           *)

\* A chunk has got new contents; of a foreign image nothing is of use any more.
Overwritten(chunk, contents) ==
    [c \in Chunks |-> IF c = chunk THEN contents
                      ELSE IF eeprom[c] = Foreign THEN Garbage ELSE eeprom[c]]

\* The buffer is on the stack of the writer: it is gone when the writer has gone on.
Stored(t) ==
    IF t.op \in Ops \/ t.addr # "ui" THEN {eeprom}
    ELSE IF t.src = "ui" /\ ui.at = "wait" /\ ui.chunk = t.chunk
    THEN {Overwritten(t.chunk, ui.image)}
    ELSE {eeprom} \cup {Overwritten(c, Garbage) : c \in Chunks}

Hooked(t) == Kind(t.op) = i2c.state

TransferEnds(t) ==
    /\ t \in i2c.inflight
    /\ eeprom' \in Stored(t)
    /\ i2c' = [i2c EXCEPT !.inflight = @ \ {t},
                          !.state = IF Hooked(t) THEN "done" ELSE @,
                          !.sem = @ \/ Hooked(t)]
    /\ meas' = [meas EXCEPT !.got = @ \/ (t.op = sys /\ t.op \in Reads)]
    /\ charger' = IF t.op \in ConfigOps /\ ~missed THEN charger \cup {t.op} ELSE charger
    /\ UNCHANGED <<ram, flagged, sys, ui, reconfig, missed, clash, kept>>

\* An error interrupt only notes the error; a transfer that is cut ends nowhere.
TransferLost(t) ==
    /\ t \in i2c.inflight
    /\ i2c' = [i2c EXCEPT !.inflight = @ \ {t}]
    /\ UNCHANGED <<eeprom, ram, flagged, sys, ui, meas, reconfig, charger, missed, clash, kept>>

-------------------------------------------------------------------------------
(* systemTSK.                                                              *)

\* systemTSK goes on to the operation op, or to a point where it starts none.
GoTo(op, taken) ==
    /\ sys' = op
    /\ \E then \in IF op \in Ops THEN Started(op) ELSE {i2c} :
          i2c' = [then EXCEPT !.sem = @ /\ ~taken]
    /\ clash' = (Meeting(op, ui) \/ (clash /\ InUse))

\* What the bytes that were read are: one image in every chunk, or nothing.  Of bytes
\* that were announced and did not come nothing is left either.
Image == IF meas.got /\ \E v \in Images : \A c \in Chunks : eeprom[c] = v
         THEN CHOOSE v \in Images : \A c \in Chunks : eeprom[c] = v
         ELSE Garbage

\* A value outside this firmware's limits is refused, and nobody is told: its default stays.
Accepted(image) == IF image = Foreign THEN Versions ELSE {image}

\* The result of the settings load: no flag when the read itself fails.
LoadParameters(op, ok) ==
    IF op = "eepR" /\ ok
    THEN IF Image = Garbage
         THEN flagged' = TRUE /\ ram' = ram
         ELSE ram' \in Accepted(Image) /\ flagged' = flagged
    ELSE UNCHANGED <<ram, flagged>>

\* rx was zeroed before the read: what the semaphore announced may not be there.  A
\* missing high byte makes a good battery look low; zero counts as not measured.
Measured(op, ok) ==
    CASE op = "highR" /\ ok -> [meas EXCEPT !.got = FALSE, !.high = meas.got]
      [] op = "lowR" /\ ok  -> [got |-> FALSE, high |-> FALSE, low |-> ~meas.high /\ meas.got]
      [] OTHER              -> [meas EXCEPT !.got = FALSE]

\* The wait ends with the result ok.  A conversion that still runs ends adc_read.
Answered(ok) ==
    /\ sys \in Ops
    /\ \E converting \in BOOLEAN :
        /\ converting => sys = "convR" /\ ok /\ meas.got
        /\ GoTo(After(sys, ok /\ ~converting), ok)
    /\ LoadParameters(sys, ok)
    /\ meas' = Measured(sys, ok)
    /\ reconfig' = (reconfig /\ sys # "currW" /\ ~(sys = "voltW" /\ ~ok))
    /\ missed' = IF sys \in ConfigOps THEN missed \/ ~ok \/ clash ELSE missed /\ sys' # "voltW"
    /\ charger' = IF missed' THEN {} ELSE charger
    /\ UNCHANGED <<eeprom, ui, kept>>

SysTakes == i2c.sem /\ Answered(TRUE)

\* Mutant: the time limit is shorter than a transfer.
SysTimeout_early == ~i2c.sem /\ Answered(FALSE)

\* 200 ms are longer than any transfer takes.
SysTimeout == ~i2c.sem /\ i2c.inflight = {} /\ Answered(FALSE)

\* Every 200 ms, and after the 20 ms of the conversion: either is longer than a
\* transfer takes.
SysWakes ==
    /\ sys \in {"idle", "pause"}
    /\ \A t \in i2c.inflight : t.op = "chunk"
    /\ GoTo(IF sys = "idle" THEN "statusW" ELSE "convW", FALSE)
    /\ meas' = [meas EXCEPT !.got = FALSE]
    /\ UNCHANGED <<eeprom, ram, flagged, ui, reconfig, charger, missed, kept>>

UiIdle == [at |-> "idle", chunk |-> 1, image |-> Default]

\* The reset restarts everything but the EEPROM, with the first bus operation.
Restarted ==
    /\ ram' = Default
    /\ flagged' = FALSE
    /\ sys' = "initW"
    /\ ui' = UiIdle
    /\ i2c' = [Idle EXCEPT !.inflight = {Transfer("initW")}, !.state = "tx"]
    /\ meas' = [got |-> FALSE, high |-> FALSE, low |-> FALSE]
    /\ reconfig' = TRUE
    /\ charger' = {}
    /\ missed' = FALSE
    /\ clash' = FALSE
    /\ UNCHANGED kept

\* Reboot command, power, or a battery that is really empty: it can cut the write cycle
\* of the EEPROM.
Reset ==
    /\ Restarted
    /\ \/ UNCHANGED eeprom
       \/ ui.at = "wait" /\ eeprom' = Overwritten(ui.chunk, Garbage)

\* After the charger's turn: shut down on a low battery.
SysChecks ==
    /\ sys = "check"
    /\ IF meas.low
       THEN Restarted /\ UNCHANGED eeprom
       ELSE /\ sys' = "idle"
            /\ clash' = (clash /\ InUse)
            /\ UNCHANGED <<eeprom, ram, flagged, ui, i2c, meas, reconfig, charger, missed, kept>>

-------------------------------------------------------------------------------
(* settingTSK runs only while systemTSK is blocked.                        *)

SysBlocked == sys \in {"idle", "pause"} \/ (sys \in ChargerOps /\ ~i2c.sem)

\* A setting gets a new value.  What the charger holds of it is then behind, and a
\* change in the middle of the charger's turn may be too late for it.
Edited(setting, late) ==
    /\ SysBlocked
    /\ ram < MaxVersion                                      \* bound
    /\ ram' = ram + 1
    /\ missed' = (missed \/ (late /\ setting \in ConfigOps))
    /\ charger' = IF missed' THEN {} ELSE charger \ {setting}
    /\ UNCHANGED <<eeprom, flagged, sys, i2c, meas, reconfig, clash, kept>>

\* eMBRegHoldingCB: nobody tells the charger.
MasterEdits ==
    /\ \E setting \in ConfigOps \cup {"other"} : Edited(setting, TRUE)
    /\ UNCHANGED ui

MenuEdits ==
    /\ ui.at = "idle"
    /\ \E setting \in ConfigOps \cup {"other"} :
        /\ Edited(setting, sys \in ConfigOps)
        /\ \/ ui' = [ui EXCEPT !.at = "edited"]
           \/ setting = "other" /\ UNCHANGED ui            \* an item without a callback

\* settingTSK moves on to u.
UiStep(u) ==
    /\ SysBlocked
    /\ ui' = u
    /\ clash' = (Meeting(sys, u) \/ (clash /\ InUse))
    /\ UNCHANGED <<eeprom, ram, flagged, sys, meas, charger, missed>>

\* Mutant: the item of the menu has no callback.
ChangeTold_to_nobody == reconfig

ChangeTold == TRUE

\* chargerConfig, called after the value was set.
MenuTells ==
    /\ ui.at = "edited"
    /\ UiStep([ui EXCEPT !.at = "idle"])
    /\ reconfig' = ChangeTold
    /\ UNCHANGED <<i2c, kept>>

SaveStarts ==
    /\ ui.at = "idle"
    /\ UiStep([at |-> "src", chunk |-> 1, image |-> ram])
    /\ UNCHANGED <<i2c, reconfig, kept>>

\* i2c_write, one register after the other.
UiSetsSource ==
    /\ ui.at = "src"
    /\ UiStep([ui EXCEPT !.at = "addr"])
    /\ UNCHANGED <<reconfig, kept>>
    /\ i2c' = [i2c EXCEPT !.src = "ui"]

UiSetsAddress ==
    /\ ui.at = "addr"
    /\ UiStep([ui EXCEPT !.at = "start"])
    /\ UNCHANGED <<reconfig, kept>>
    /\ i2c' = [i2c EXCEPT !.addr = "ui"]

UiStartsTransfer ==
    /\ ui.at = "start"
    /\ UiStep([ui EXCEPT !.at = "wait"])
    /\ kept' = Garbage
    /\ UNCHANGED reconfig
    /\ \E both \in With(ChunkTransfer) :
          i2c' = [i2c EXCEPT !.inflight = both, !.state = "tx"]

\* Mutant: the length is tested after the chunk that uses it up.
NextChunk_overrun ==
    IF ui.chunk > NChunks THEN [ui EXCEPT !.at = "saved"]
    ELSE [ui EXCEPT !.at = "src", !.chunk = @ + 1]

\* Mutant: the bytes after the last full page are left out.
NextChunk_short ==
    IF ui.chunk + 1 >= NChunks THEN [ui EXCEPT !.at = "saved"]
    ELSE [ui EXCEPT !.at = "src", !.chunk = @ + 1]

\* The last chunk ends the save; the write cycle of the EEPROM has its own pause.
NextChunk ==
    IF ui.chunk = NChunks THEN [ui EXCEPT !.at = "saved"]
    ELSE [ui EXCEPT !.at = "src", !.chunk = @ + 1]

UiTakes ==
    /\ ui.at = "wait"
    /\ i2c.sem
    /\ UiStep(NextChunk)
    /\ kept' = IF NextChunk.at = "saved" /\ ~clash' THEN ui.image ELSE kept
    /\ i2c' = [i2c EXCEPT !.sem = FALSE]
    /\ UNCHANGED reconfig

\* Mutants: the wait has no time limit; a wait that ran out counts as done.
UiTimeout_never == FALSE

UiTimeout_counts ==
    /\ ui.at = "wait"
    /\ ~i2c.sem
    /\ i2c.inflight = {}
    /\ UiStep(NextChunk)
    /\ UNCHANGED <<i2c, reconfig, kept>>

UiTimeout ==
    /\ ui.at = "wait"
    /\ ~i2c.sem
    /\ i2c.inflight = {}
    /\ UiStep([ui EXCEPT !.at = "failed"])
    /\ UNCHANGED <<i2c, reconfig, kept>>

\* The window is left, whatever the write has returned.
SaveEnds ==
    /\ ui.at \in {"saved", "failed"}
    /\ UiStep(UiIdle)
    /\ UNCHANGED <<i2c, reconfig, kept>>

-------------------------------------------------------------------------------
Init ==
    /\ \E before \in {Garbage, Foreign} :
        /\ eeprom = [c \in Chunks |-> before]
        /\ kept = before
    /\ ram = Default
    /\ flagged = FALSE
    /\ sys = "initW"
    /\ ui = UiIdle
    /\ i2c = [Idle EXCEPT !.inflight = {Transfer("initW")}, !.state = "tx"]
    /\ meas = [got |-> FALSE, high |-> FALSE, low |-> FALSE]
    /\ reconfig = TRUE
    /\ charger = {}
    /\ missed = FALSE
    /\ clash = FALSE

Bus == \E t \in i2c.inflight : TransferEnds(t) \/ TransferLost(t)

ChunkLeavesBus == Bus /\ \E t \in i2c.inflight : t.op = "chunk" /\ t \notin i2c'.inflight

SystemTask == SysTakes \/ SysTimeout \/ SysWakes \/ SysChecks

SettingTask ==
    \/ MenuTells \/ SaveStarts \/ UiSetsSource \/ UiSetsAddress \/ UiStartsTransfer
    \/ UiTakes \/ UiTimeout \/ SaveEnds

Next == Bus \/ SystemTask \/ SettingTask \/ MasterEdits \/ MenuEdits \/ Reset

Spec == Init /\ [][Next]_vars

\* The controller ends or drops every transfer; systemTSK is the task with the
\* highest priority; the window task runs in the 200 ms that systemTSK sleeps.
Fairness ==
    /\ WF_vars(Bus) /\ WF_vars(ChunkLeavesBus)
    /\ WF_vars(SystemTask)
    /\ SF_vars(SettingTask)

FairSpec == Spec /\ Fairness

-------------------------------------------------------------------------------
\* Properties

Transfers == [op : Ops \cup {"chunk"}, chunk : 0..NChunks, src : {"sys", "ui"}, addr : {"sys", "ui"}]

\* Every variable keeps to its range, the chunk number and the versions to theirs.
TypeOK ==
    /\ eeprom \in [Chunks -> Images \cup {Garbage}]
    /\ kept \in Images \cup {Garbage}
    /\ ram \in Versions
    /\ flagged \in BOOLEAN
    /\ sys \in Ops \cup {"idle", "pause", "check"}
    /\ ui.at \in {"idle", "edited", "src", "addr", "start", "wait", "saved", "failed"}
    /\ ui.chunk \in Chunks /\ ui.image \in Versions
    /\ i2c.inflight \subseteq Transfers
    /\ i2c.state \in {"tx", "rx", "done"} /\ i2c.sem \in BOOLEAN
    /\ meas \in [got : BOOLEAN, high : BOOLEAN, low : BOOLEAN]
    /\ reconfig \in BOOLEAN /\ charger \subseteq ConfigOps
    /\ missed \in BOOLEAN /\ clash \in BOOLEAN

\* Whatever the two tasks have done to each other, no token of the semaphore
\* outlives them: with a token left over every later transfer would be taken for
\* finished when it starts (systemTSK.cpp:135-157).
NoStaleToken == ~InUse => ~i2c.sem

\* A save that met no transfer of the charger and reports success is in the EEPROM,
\* every chunk of it (24AAxx.cpp:59-105).
SaveKept == ui.at = "saved" /\ ~clash => \A c \in Chunks : eeprom[c] = ui.image

\* With a good battery the charger's turn ends in a shutdown only when the two tasks
\* have met on the bus (systemTSK.cpp:110-130, 309-311).
NoFalseAlarm == sys = "check" /\ meas.low => clash

\* With reconfig cleared the charger holds both settings in use, in whatever step of its
\* turn the menu changed them and told it, if no write failed or met a save: only a change
\* by a Modbus master or during the two writes is missed (systemTSK.cpp:125-129).
ChargerFollows == ~reconfig /\ ui.at # "edited" /\ ~missed => charger = ConfigOps

\* What a start reads is the last save, when that met no transfer of the charger and
\* reported success, whatever resets, edits, failed reads and saves that never reached
\* the bus came after it, and no flag is raised (24AAxx.cpp:59-105,
\* prmSystem.cpp:74-87, systemTSK.cpp:326-338).
SavesSurvive ==
    [][sys = "eepR" /\ i2c.sem /\ sys' = "idle" /\ kept # Garbage =>
        ram' \in Accepted(kept) /\ ~flagged']_vars

\* A save ends, with or without success: no lost interrupt blocks the settings window.
SaveReturns == ui.at # "idle" ~> ui.at = "idle"

\* The status of a write (24AAxx.cpp:57) tells what is in the EEPROM.
SaveReportHonest == ui.at = "saved" => \A c \in Chunks : eeprom[c] = ui.image

\* Running on default settings in place of the stored ones is announced
\* (startupTSK.cpp:75-80).
DefaultsAnnounced ==
    [][sys' = "idle" /\ sys \in {"eepW", "eepR"} =>
        flagged' \/ \A c \in Chunks : eeprom[c] = ram']_vars
===============================================================================
