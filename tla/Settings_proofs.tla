--------------------------- MODULE Settings_proofs ---------------------------
(***************************************************************************)
(* Proofs about the settings store, for any number of chunks and versions. *)
(***************************************************************************)
EXTENDS Settings, TLAPS

(***************************************************************************)
(* The inductive invariant.  What a task may conclude from the semaphore   *)
(* depends on whether it had the bus for itself, so the invariant has two  *)
(* halves: what holds whatever the tasks do to each other, and what holds  *)
(* while they have not met (~clash).                                       *)
(***************************************************************************)

Places == {"idle", "edited", "src", "addr", "start", "wait", "saved", "failed"}

Points == Ops \cup {"idle", "pause", "check"}

\* TypeOK gives the range of each field; that there is no other field is added here.
Typed ==
    /\ TypeOK
    /\ ui \in [at : Places, chunk : Chunks, image : Versions]
    /\ i2c \in [inflight : SUBSET Transfers, state : {"tx", "rx", "done"},
                src : {"sys", "ui"}, addr : {"sys", "ui"}, sem : BOOLEAN]

Waiting == sys \in Ops \/ ui.at = "wait"

\* Whatever happens: a token is there only for a task that waits, no transfer is left that
\* could give one to nobody, and a token is the last thing of a transfer.
Taken ==
    /\ ~Waiting => ~i2c.sem /\ \A t \in i2c.inflight : ~Hooked(t)
    /\ i2c.sem /\ sys \notin {"statusW", "convW"} => i2c.state = "done"

\* The transfer settingTSK means to start.
Own == [op |-> "chunk", chunk |-> ui.chunk, src |-> "ui", addr |-> "ui"]

\* Alone on the bus, systemTSK is told the end of its own transfer and of no other.
SysAlone ==
    sys \in Ops =>
        /\ i2c.inflight \subseteq {Transfer(sys)}
        /\ i2c.inflight # {} => ~i2c.sem
        /\ i2c.sem /\ sys \in Reads => meas.got
        /\ i2c.sem /\ sys \in ConfigOps /\ ~missed => sys \in charger
        /\ sys \in {"lowW", "lowR"} => meas.high

\* Alone on the bus, settingTSK sends the chunk it means and is told when it is stored.
UiAlone ==
    /\ ui.at = "wait" =>
        /\ i2c.inflight \subseteq {Own}
        /\ i2c.inflight # {} => ~i2c.sem
        /\ i2c.sem => eeprom[ui.chunk] = ui.image
    /\ ui.at \in {"addr", "start"} => i2c.src = "ui"
    /\ ui.at = "start" => i2c.addr = "ui"
    /\ ui.at \in {"src", "addr", "start", "wait"} =>
          \A c \in Chunks : c < ui.chunk => eeprom[c] = ui.image
    /\ ui.at = "saved" => \A c \in Chunks : eeprom[c] = ui.image

Alone == SysAlone /\ UiAlone /\ (~Waiting => i2c.inflight = {})

Met == Meeting(sys, ui) => clash

\* A low reading is a damaged one, and is looked at before the next.
Alarm == meas.low => clash /\ sys \in {"voltW", "currW", "check"}

\* The two writes are made only while reconfig is set, the second only after the first.
Configured ==
    /\ sys \in ConfigOps => reconfig
    /\ sys = "currW" /\ ~missed => "voltW" \in charger

IInv == Typed /\ Taken /\ Met /\ (~clash => Alone) /\ Alarm /\ Configured /\ ChargerFollows

-------------------------------------------------------------------------------
(* Steps of the invariant's proof.                                         *)

\* No operation of systemTSK is one of its places of rest, and each sends or receives.
LEMMA OpsDistinct ==
    /\ "idle" \notin Ops /\ "pause" \notin Ops /\ "check" \notin Ops /\ "chunk" \notin Ops
    /\ \A op : Kind(op) \in {"tx", "rx"}
    /\ Reads \subseteq Ops /\ ConfigOps \subseteq Ops /\ ConfigOps \cap Reads = {}
  BY DEF Ops, BootOps, ChargerOps, Kind, Reads, ConfigOps

\* The bus at rest is as good as a bus of one's own.
LEMMA QuietIsAlone ==
    ASSUME IInv, ~clash \/ ~InUse
    PROVE  Alone
  BY DEF IInv, Typed, Places, InUse, Alone, SysAlone, UiAlone, Waiting

\* What the next operation can be.
LEMMA AfterCases ==
    ASSUME NEW op \in Ops, NEW ok \in BOOLEAN, reconfig \in BOOLEAN
    PROVE  /\ After(op, ok) \in Points
           /\ After(op, ok) = "voltW" => reconfig /\ op \notin ConfigOps
           /\ After(op, ok) = "currW" => op = "voltW" /\ ok
           /\ After(op, ok) \in {"lowW", "lowR"} => ok /\ op \in {"highR", "lowW"}
           /\ op = "lowR" => After(op, ok) \in {"voltW", "check"}
           /\ op = "voltW" => After(op, ok) \in {"currW", "check"}
           /\ op = "currW" => After(op, ok) = "check"
           /\ op = "statusW" \/ (op = "convW" /\ ok) => After(op, ok) \in Ops
<1>1. AfterRead \in {"voltW", "check"} /\ (AfterRead = "voltW" => reconfig)
  BY DEF AfterRead
<1>2. After(op, ok) \in Points
  <2>1. After(op, ok) \in Ops \cup {"idle", "pause", AfterRead, "check"}
    BY DEF After, Ops, BootOps, ChargerOps
  <2> QED BY <1>1, <2>1 DEF Points, Ops, ChargerOps
<1>3. /\ After(op, ok) = "voltW" => reconfig /\ op \notin ConfigOps
      /\ After(op, ok) = "currW" => op = "voltW" /\ ok
  BY <1>1 DEF After, Ops, BootOps, ChargerOps, ConfigOps
<1>4. After(op, ok) \in {"lowW", "lowR"} => ok /\ op \in {"highR", "lowW"}
  BY <1>1 DEF After, Ops, BootOps, ChargerOps
<1>5. /\ op = "lowR" => After(op, ok) \in {"voltW", "check"}
      /\ op = "voltW" => After(op, ok) \in {"currW", "check"}
      /\ op = "currW" => After(op, ok) = "check"
      /\ op = "statusW" \/ (op = "convW" /\ ok) => After(op, ok) \in Ops
  BY <1>1 DEF After, Ops, ChargerOps
<1> QED BY <1>2, <1>3, <1>4, <1>5

\* GoTo, in terms of the fields it changes.
LEMMA GoToFields ==
    ASSUME Typed, NEW op \in Points, NEW taken \in BOOLEAN, GoTo(op, taken)
    PROVE  /\ i2c' \in [inflight : SUBSET Transfers, state : {"tx", "rx", "done"},
                        src : {"sys", "ui"}, addr : {"sys", "ui"}, sem : BOOLEAN]
           /\ i2c'.sem = (i2c.sem /\ ~taken)
           /\ op \in Ops /\ i2c.inflight = {} => i2c'.inflight = {Transfer(op)}
           /\ op \notin Ops => /\ i2c'.inflight = i2c.inflight
                               /\ i2c'.state = i2c.state
           /\ sys' = op
           /\ clash' \in BOOLEAN
           /\ clash' = (Meeting(op, ui) \/ (clash /\ InUse))
<1>1. sys' = op /\ clash' = (Meeting(op, ui) \/ (clash /\ InUse)) /\ clash' \in BOOLEAN
  BY DEF GoTo
<1>2. CASE op \notin Ops
  <2>1. i2c' = [i2c EXCEPT !.sem = @ /\ ~taken]
    BY <1>2 DEF GoTo
  <2> QED BY <1>1, <1>2, <2>1 DEF Typed
<1>3. CASE op \in Ops
  <2>1. PICK both \in With(Transfer(op)), then \in Started(op) :
            /\ then = [i2c EXCEPT !.inflight = both,
                                  !.state = Kind(op),
                                  !.src = IF Kind(op) = "tx" THEN "sys" ELSE @,
                                  !.addr = "sys"]
            /\ i2c' = [then EXCEPT !.sem = @ /\ ~taken]
    BY <1>3 DEF GoTo, Started
  <2>2. Transfer(op) \in Transfers
    BY <1>3, SettingsAssumption DEF Transfer, Transfers
  <2>3. both \in SUBSET Transfers /\ (i2c.inflight = {} => both = {Transfer(op)})
    BY <2>1, <2>2 DEF With, Typed
  <2>4. Kind(op) \in {"tx", "rx"}
    BY OpsDistinct
  <2>5. then \in [inflight : SUBSET Transfers, state : {"tx", "rx", "done"},
                  src : {"sys", "ui"}, addr : {"sys", "ui"}, sem : BOOLEAN]
        /\ then.inflight = both /\ then.sem = i2c.sem
    BY <2>1, <2>3, <2>4 DEF Typed
  <2> QED BY <1>1, <1>3, <2>1, <2>3, <2>5
<1> QED BY <1>2, <1>3

\* The start and every restart begin with one transfer of systemTSK on its way.
LEMMA StartsTyped ==
    /\ UiIdle \in [at : Places, chunk : Chunks, image : Versions]
    /\ [Idle EXCEPT !.inflight = {Transfer("initW")}, !.state = "tx"] \in
            [inflight : SUBSET Transfers, state : {"tx", "rx", "done"},
             src : {"sys", "ui"}, addr : {"sys", "ui"}, sem : BOOLEAN]
    /\ [Idle EXCEPT !.inflight = {Transfer("initW")}, !.state = "tx"].sem = FALSE
    /\ [Idle EXCEPT !.inflight = {Transfer("initW")}, !.state = "tx"].inflight = {Transfer("initW")}
    /\ "initW" \in Ops
<1>1. "initW" \in Ops
  BY DEF Ops, BootOps
<1>2. Transfer("initW") \in Transfers
  BY <1>1, SettingsAssumption DEF Transfer, Transfers
<1>3. 1 \in Chunks /\ Default \in Versions
  BY SettingsAssumption DEF Chunks, Versions, Default
<1> QED BY <1>1, <1>2, <1>3 DEF UiIdle, Idle, Places

LEMMA InitEstablishes == Init => IInv
<1> SUFFICES ASSUME Init PROVE IInv
  OBVIOUS
<1> USE StartsTyped DEF Init
<1>1. Default \in Versions
  BY SettingsAssumption DEF Versions, Default
<1>2. Typed
  BY <1>1 DEF Typed, TypeOK, Points, Places, Images
<1>3. Taken
  BY DEF Taken, Waiting, Idle
<1>4. Alone
  BY OpsDistinct DEF Alone, SysAlone, UiAlone, UiIdle, Waiting, ConfigOps, Reads
<1>5. Met /\ Alarm /\ Configured /\ ChargerFollows
  BY DEF Met, Meeting, UiIdle, Alarm, Configured, ChargerFollows, ConfigOps
<1> QED BY <1>2, <1>3, <1>4, <1>5 DEF IInv

LEMMA RestartKeeps ==
    ASSUME IInv, Restarted, eeprom' \in [Chunks -> Images \cup {Garbage}]
    PROVE  IInv'
<1> USE StartsTyped DEF Restarted
<1>1. Default \in Versions
  BY SettingsAssumption DEF Versions, Default
<1>2. Typed'
  BY <1>1 DEF IInv, Typed, TypeOK, Points, Places
<1>3. Taken'
  BY DEF Taken, Waiting, Idle
<1>4. Alone'
  BY OpsDistinct DEF Alone, SysAlone, UiAlone, UiIdle, Waiting, ConfigOps, Reads
<1>5. Met' /\ Alarm' /\ Configured' /\ ChargerFollows'
  BY DEF Met, Meeting, UiIdle, Alarm, Configured, ChargerFollows, ConfigOps
<1> QED BY <1>2, <1>3, <1>4, <1>5 DEF IInv

-------------------------------------------------------------------------------
(* The bus.                                                                *)

\* A chunk that is overwritten leaves every chunk of this firmware's images alone.
LEMMA OverwrittenTyped ==
    ASSUME Typed, NEW chunk \in Chunks, NEW contents \in Versions \cup {Garbage}
    PROVE  /\ Overwritten(chunk, contents) \in [Chunks -> Images \cup {Garbage}]
           /\ Overwritten(chunk, contents)[chunk] = contents
           /\ \A c \in Chunks : c # chunk /\ eeprom[c] \in Versions =>
                 Overwritten(chunk, contents)[c] = eeprom[c]
  BY DEF Overwritten, Typed, TypeOK, Images, Versions, Default, Foreign

\* A transfer of systemTSK stores nothing; the chunk settingTSK means is stored whole.
LEMMA StoredTyped ==
    ASSUME Typed, NEW t \in i2c.inflight, eeprom' \in Stored(t)
    PROVE  /\ eeprom' \in [Chunks -> Images \cup {Garbage}]
           /\ t.op \in Ops => eeprom' = eeprom
           /\ ui.at = "wait" /\ t = Own => eeprom' = Overwritten(ui.chunk, ui.image)
<1>1. ui.image \in Versions /\ ui.chunk \in Chunks /\ eeprom \in [Chunks -> Images \cup {Garbage}]
  BY DEF Typed, TypeOK
<1>2. Overwritten(ui.chunk, ui.image) \in [Chunks -> Images \cup {Garbage}]
  BY <1>1, OverwrittenTyped
<1>3. \A c \in Chunks : Overwritten(c, Garbage) \in [Chunks -> Images \cup {Garbage}]
  BY OverwrittenTyped
<1>4. eeprom' \in [Chunks -> Images \cup {Garbage}]
  BY <1>1, <1>2, <1>3 DEF Stored
<1>5. t.op \in Ops => eeprom' = eeprom
  BY DEF Stored
<1>6. ui.at = "wait" /\ t = Own => eeprom' = Overwritten(ui.chunk, ui.image)
  BY OpsDistinct DEF Stored, Own
<1> QED BY <1>4, <1>5, <1>6

LEMMA TransferEndsKeeps ==
    ASSUME IInv, NEW t \in i2c.inflight, TransferEnds(t)
    PROVE  IInv'
<1>1. /\ i2c' \in [inflight : SUBSET Transfers, state : {"tx", "rx", "done"},
                   src : {"sys", "ui"}, addr : {"sys", "ui"}, sem : BOOLEAN]
      /\ i2c'.inflight = i2c.inflight \ {t}
      /\ i2c'.state = IF Hooked(t) THEN "done" ELSE i2c.state
      /\ i2c'.sem = (i2c.sem \/ Hooked(t))
      /\ i2c'.src = i2c.src /\ i2c'.addr = i2c.addr
  BY DEF IInv, Typed, TypeOK, TransferEnds, Hooked
<1>2. UNCHANGED <<ram, flagged, sys, ui, reconfig, missed, clash, kept>>
  BY DEF TransferEnds
<1>3. /\ meas' \in [got : BOOLEAN, high : BOOLEAN, low : BOOLEAN]
      /\ meas'.high = meas.high /\ meas'.low = meas.low
      /\ meas'.got = (meas.got \/ (t.op = sys /\ t.op \in Reads))
  BY DEF IInv, Typed, TypeOK, TransferEnds
<1>4. /\ charger \subseteq charger' /\ charger' \subseteq ConfigOps
      /\ t.op \in ConfigOps /\ ~missed => t.op \in charger'
  BY DEF IInv, Typed, TypeOK, TransferEnds
<1>5. /\ eeprom' \in [Chunks -> Images \cup {Garbage}]
      /\ t.op \in Ops => eeprom' = eeprom
      /\ ui.at = "wait" /\ t = Own => eeprom' = Overwritten(ui.chunk, ui.image)
  BY StoredTyped DEF IInv, TransferEnds
<1>6. Typed'
  BY <1>1, <1>2, <1>3, <1>4, <1>5 DEF IInv, Typed, TypeOK
<1>7. Taken'
  <2>1. ~Waiting' => ~i2c'.sem /\ \A u \in i2c'.inflight : Kind(u.op) # i2c'.state
    BY <1>1, <1>2 DEF IInv, Taken, Waiting, Hooked
  <2>2. i2c'.sem /\ sys' \notin {"statusW", "convW"} => i2c'.state = "done"
    BY <1>1, <1>2 DEF IInv, Taken
  <2> QED BY <2>1, <2>2 DEF Taken, Hooked
<1>8. ASSUME ~clash' PROVE Alone'
  <2>1. Alone /\ ~Meeting(sys, ui)
    BY <1>2, <1>8 DEF IInv, Met
  <2>2. Waiting
    BY <2>1 DEF Alone
  <2>3. CASE sys \in Ops
    <3>1. t = Transfer(sys) /\ t.op = sys /\ i2c'.inflight = {} /\ eeprom' = eeprom
      BY <1>1, <1>5, <2>1, <2>3 DEF Alone, SysAlone, Transfer
    <3>2. SysAlone'
      BY <1>1, <1>2, <1>3, <1>4, <2>1, <2>3, <3>1 DEF Alone, SysAlone
    <3>3. ui.at \notin {"addr", "start", "wait"}
      BY <2>1, <2>3 DEF Meeting
    <3>4. UiAlone'
      BY <1>2, <2>1, <3>1, <3>3 DEF Alone, UiAlone
    <3> QED BY <3>1, <3>2, <3>4 DEF Alone
  <2>4. CASE sys \notin Ops
    <3>1. ui.at = "wait" /\ t = Own /\ i2c'.inflight = {}
      BY <1>1, <2>1, <2>2, <2>4 DEF Alone, UiAlone, Waiting
    <3>2. /\ eeprom'[ui.chunk] = ui.image
          /\ \A c \in Chunks : c < ui.chunk => eeprom'[c] = ui.image
      <4>1. \A c \in Chunks : c < ui.chunk => eeprom[c] = ui.image /\ c # ui.chunk
        BY <2>1, <3>1 DEF Alone, UiAlone, IInv, Typed, Chunks
      <4>2. ui.image \in Versions /\ ui.chunk \in Chunks /\ Typed
        BY DEF IInv, Typed
      <4> QED BY <1>5, <3>1, <4>1, <4>2, OverwrittenTyped
    <3>3. UiAlone'
      BY <1>2, <2>1, <3>1, <3>2 DEF Alone, UiAlone
    <3> QED BY <1>2, <2>4, <3>1, <3>3 DEF Alone, SysAlone
  <2> QED BY <2>3, <2>4
<1>9. Met' /\ Alarm' /\ Configured' /\ ChargerFollows'
  BY <1>2, <1>3, <1>4 DEF IInv, Met, Meeting, Alarm, Configured, ChargerFollows
<1> QED BY <1>6, <1>7, <1>8, <1>9 DEF IInv

LEMMA TransferLostKeeps ==
    ASSUME IInv, NEW t \in i2c.inflight, TransferLost(t)
    PROVE  IInv'
<1>1. /\ i2c' \in [inflight : SUBSET Transfers, state : {"tx", "rx", "done"},
                   src : {"sys", "ui"}, addr : {"sys", "ui"}, sem : BOOLEAN]
      /\ i2c'.inflight = i2c.inflight \ {t} /\ i2c'.state = i2c.state /\ i2c'.sem = i2c.sem
      /\ i2c'.src = i2c.src /\ i2c'.addr = i2c.addr
  BY DEF IInv, Typed, TypeOK, TransferLost
<1>2. UNCHANGED <<eeprom, ram, flagged, sys, ui, meas, reconfig, charger, missed, clash, kept>>
  BY DEF TransferLost
<1>3. Typed'
  BY <1>1, <1>2 DEF IInv, Typed, TypeOK
<1>4. Taken'
  BY <1>1, <1>2 DEF IInv, Taken, Waiting, Hooked
<1>5. ~clash' => Alone'
  BY <1>1, <1>2 DEF IInv, Alone, SysAlone, UiAlone, Waiting, Own
<1>6. Met' /\ Alarm' /\ Configured' /\ ChargerFollows'
  BY <1>2 DEF IInv, Met, Meeting, Alarm, Configured, ChargerFollows
<1> QED BY <1>3, <1>4, <1>5, <1>6 DEF IInv

-------------------------------------------------------------------------------
(* systemTSK.                                                              *)

\* The answer to an operation takes the token, or finds none and nothing in flight.
LEMMA AnsweredKeeps ==
    ASSUME IInv, NEW ok \in BOOLEAN, Answered(ok),
           ok => i2c.sem, ~ok => ~i2c.sem /\ i2c.inflight = {}
    PROVE  IInv'
<1>1. PICK b \in BOOLEAN : (b => ok) /\ (sys # "convR" => b = ok) /\ GoTo(After(sys, b), ok)
  BY DEF Answered
<1>2. sys \in Ops /\ reconfig \in BOOLEAN /\ Typed /\ InUse
  BY DEF Answered, IInv, Typed, TypeOK, InUse
<1>3. /\ sys' \in Points
      /\ sys' = "voltW" => reconfig /\ sys \notin ConfigOps
      /\ sys' = "currW" => sys = "voltW" /\ ok
      /\ sys' \in {"lowW", "lowR"} => ok /\ sys \in {"highR", "lowW"}
      /\ sys = "lowR" => sys' \in {"voltW", "check"}
      /\ sys = "voltW" => sys' \in {"currW", "check"}
      /\ sys = "currW" => sys' = "check"
      /\ ok /\ sys \in {"statusW", "convW"} => sys' \in Ops
  <2>1. sys' = After(sys, b)
    BY <1>1, <1>2, AfterCases, GoToFields
  <2> QED BY <1>1, <1>2, <2>1, AfterCases
<1>4. /\ i2c' \in [inflight : SUBSET Transfers, state : {"tx", "rx", "done"},
                   src : {"sys", "ui"}, addr : {"sys", "ui"}, sem : BOOLEAN]
      /\ i2c'.sem = FALSE
      /\ sys' \in Ops /\ i2c.inflight = {} => i2c'.inflight = {Transfer(sys')}
      /\ sys' \notin Ops => i2c'.inflight = i2c.inflight /\ i2c'.state = i2c.state
      /\ clash' \in BOOLEAN
      /\ clash' = (Meeting(sys', ui) \/ clash)
  BY <1>1, <1>2, AfterCases, GoToFields
<1>5. UNCHANGED <<eeprom, ui, kept>>
  BY DEF Answered
<1>6. /\ reconfig' = (reconfig /\ sys # "currW" /\ ~(sys = "voltW" /\ ~ok))
      /\ missed' = IF sys \in ConfigOps THEN missed \/ ~ok \/ clash ELSE missed /\ sys' # "voltW"
      /\ charger' = IF missed' THEN {} ELSE charger
  BY DEF Answered
<1>7. /\ meas' \in [got : BOOLEAN, high : BOOLEAN, low : BOOLEAN]
      /\ meas'.low = IF sys = "lowR" /\ ok THEN ~meas.high /\ meas.got ELSE meas.low
      /\ sys = "highR" /\ ok => meas'.high = meas.got
      /\ sys = "lowW" => meas'.high = meas.high
  <2>1. meas \in [got : BOOLEAN, high : BOOLEAN, low : BOOLEAN]
    BY DEF IInv, Typed, TypeOK
  <2>2. meas' = Measured(sys, ok)
    BY DEF Answered
  <2>3. CASE sys = "highR" /\ ok
    BY <2>1, <2>2, <2>3 DEF Measured
  <2>4. CASE sys = "lowR" /\ ok
    BY <2>1, <2>2, <2>4 DEF Measured
  <2>5. CASE ~(sys \in {"highR", "lowR"} /\ ok)
    BY <2>1, <2>2, <2>5 DEF Measured
  <2> QED BY <2>3, <2>4, <2>5
<1>8. Typed'
  <2>1. ram' \in Versions /\ flagged' \in BOOLEAN
    <3>1. LoadParameters(sys, ok) /\ ram \in Versions /\ flagged \in BOOLEAN
      BY DEF Answered, IInv, Typed, TypeOK
    <3>2. Image \in Versions => Accepted(Image) \subseteq Versions
      BY DEF Accepted
    <3>3. Image \in Versions \cup {Foreign, Garbage}
      BY DEF Image, Images
    <3>4. Accepted(Foreign) = Versions
      BY DEF Accepted
    <3> QED BY <3>1, <3>2, <3>3, <3>4 DEF LoadParameters
  <2>2. reconfig' \in BOOLEAN /\ missed' \in BOOLEAN /\ charger' \subseteq ConfigOps
    BY <1>6, <1>2 DEF Typed, TypeOK
  <2> QED BY <1>2, <1>3, <1>4, <1>5, <1>7, <2>1, <2>2 DEF Typed, TypeOK, Points
<1>9. Taken'
  <2>1. ASSUME ~Waiting' PROVE \A t \in i2c'.inflight : Kind(t.op) # i2c'.state
    <3>1. sys' \notin Ops
      BY <2>1 DEF Waiting
    <3>2. CASE ~ok
      BY <1>4, <3>1, <3>2
    <3>3. CASE ok
      <4>1. i2c.state = "done"
        BY <1>3, <3>1, <3>3 DEF IInv, Taken
      <4> QED BY <1>4, <3>1, <4>1, OpsDistinct
    <3> QED BY <3>2, <3>3
  <2> QED BY <1>4, <2>1 DEF Taken, Hooked
<1>10. ASSUME ~clash PROVE /\ i2c.inflight = {}
                           /\ ok /\ sys \in Reads => meas.got
                           /\ ok /\ sys \in ConfigOps /\ ~missed => sys \in charger
                           /\ sys \in {"lowW", "lowR"} => meas.high
                           /\ UiAlone
                           /\ ui.at \notin {"addr", "start", "wait"}
  BY <1>2, <1>10 DEF IInv, Alone, SysAlone, Met, Meeting
<1>11. ASSUME ~clash' PROVE Alone'
  <2>1. ~clash
    BY <1>4, <1>11
  <2>2. sys' \in {"lowW", "lowR"} => meas'.high
    BY <1>3, <1>7, <1>10, <2>1 DEF Reads
  <2>3. SysAlone'
    BY <1>4, <1>10, <2>1, <2>2 DEF SysAlone
  <2>4. UiAlone'
    BY <1>5, <1>10, <2>1 DEF UiAlone
  <2>5. ~Waiting' => i2c'.inflight = {}
    BY <1>4, <1>10, <2>1 DEF Waiting
  <2> QED BY <2>3, <2>4, <2>5 DEF Alone
<1>12. Met'
  BY <1>4, <1>5 DEF Met
<1>13. Alarm'
  <2>1. CASE sys = "lowR" /\ ok
    BY <1>3, <1>4, <1>7, <1>10, <2>1 DEF Alarm
  <2>2. CASE ~(sys = "lowR" /\ ok)
    BY <1>2, <1>3, <1>4, <1>7, <2>2, OpsDistinct DEF IInv, Alarm
  <2> QED BY <2>1, <2>2
<1>14. Configured'
  BY <1>3, <1>6, <1>10 DEF IInv, Configured, ConfigOps
<1>15. ChargerFollows'
  <2>1. ASSUME ~reconfig', ui.at # "edited", ~missed' PROVE charger = ConfigOps
    <3>1. CASE sys = "currW"
      BY <1>6, <1>10, <2>1, <3>1 DEF IInv, Configured, ConfigOps, Typed, TypeOK
    <3>2. CASE sys # "currW"
      <4>1. ~reconfig
        BY <1>6, <2>1, <3>2 DEF ConfigOps
      <4>2. ~missed
        BY <1>3, <1>6, <2>1, <4>1 DEF IInv, Configured
      <4> QED BY <2>1, <4>1, <4>2 DEF IInv, ChargerFollows
    <3> QED BY <3>1, <3>2
  <2> QED BY <1>5, <1>6, <2>1 DEF ChargerFollows
<1> QED BY <1>8, <1>9, <1>11, <1>12, <1>13, <1>14, <1>15 DEF IInv

LEMMA SysWakesKeeps ==
    ASSUME IInv, SysWakes
    PROVE  IInv'
<1>1. PICK op \in {"statusW", "convW"} : GoTo(op, FALSE)
  BY DEF SysWakes
<1>2. op \in Ops /\ op \in Points /\ op \notin ConfigOps /\ op \notin Reads
  BY DEF Points, Ops, ChargerOps, ConfigOps, Reads
<1>3. /\ i2c' \in [inflight : SUBSET Transfers, state : {"tx", "rx", "done"},
                   src : {"sys", "ui"}, addr : {"sys", "ui"}, sem : BOOLEAN]
      /\ i2c'.sem = i2c.sem
      /\ i2c.inflight = {} => i2c'.inflight = {Transfer(op)}
      /\ sys' = op
      /\ clash' \in BOOLEAN
      /\ clash' = (Meeting(op, ui) \/ (clash /\ InUse))
  BY <1>1, <1>2, GoToFields DEF IInv, Typed, TypeOK
<1>4. UNCHANGED <<eeprom, ram, flagged, ui, reconfig, charger, missed, kept>>
  BY DEF SysWakes
<1>5. /\ meas' \in [got : BOOLEAN, high : BOOLEAN, low : BOOLEAN]
      /\ meas'.low = meas.low
  BY DEF SysWakes, IInv, Typed, TypeOK
<1>6. sys \in {"idle", "pause"} /\ sys \notin Ops
  BY OpsDistinct DEF SysWakes
<1>7. Typed'
  BY <1>2, <1>3, <1>4, <1>5 DEF IInv, Typed, TypeOK
<1>8. Taken'
  BY <1>1, <1>2, <1>3 DEF Taken, Waiting
<1>9. ASSUME ~clash' PROVE Alone'
  <2>1. Alone
    BY <1>3, <1>9, QuietIsAlone
  <2>2. ui.at \notin {"addr", "start", "wait"}
    BY <1>2, <1>3, <1>9 DEF Meeting
  <2>3. ~i2c.sem /\ i2c.inflight = {}
    BY <1>6, <2>1, <2>2 DEF IInv, Taken, Alone, Waiting
  <2>4. SysAlone'
    BY <1>1, <1>2, <1>3, <2>3 DEF SysAlone
  <2>5. UiAlone'
    BY <1>4, <2>1, <2>2 DEF Alone, UiAlone
  <2> QED BY <1>2, <1>3, <2>4, <2>5 DEF Alone, Waiting
<1>10. Met' /\ Alarm' /\ Configured' /\ ChargerFollows'
  BY <1>2, <1>3, <1>4, <1>5, <1>6 DEF IInv, Met, Meeting, Alarm, Configured, ConfigOps, ChargerFollows
<1> QED BY <1>7, <1>8, <1>9, <1>10 DEF IInv

LEMMA SysChecksKeeps ==
    ASSUME IInv, SysChecks
    PROVE  IInv'
<1>1. CASE meas.low
  BY <1>1, RestartKeeps DEF SysChecks, IInv, Typed, TypeOK
<1>2. CASE ~meas.low
  <2>1. /\ sys = "check" /\ sys' = "idle" /\ clash' = (clash /\ InUse)
        /\ UNCHANGED <<eeprom, ram, flagged, ui, i2c, meas, reconfig, charger, missed, kept>>
    BY <1>2 DEF SysChecks
  <2>2. sys \notin Ops /\ sys' \notin Ops /\ sys' \notin ConfigOps
    BY <2>1, OpsDistinct
  <2>3. Typed'
    BY <2>1 DEF IInv, Typed, TypeOK
  <2>4. Taken'
    BY <2>1, <2>2 DEF IInv, Taken, Waiting, Hooked
  <2>5. ASSUME ~clash' PROVE Alone'
    <3>1. Alone
      BY <2>1, <2>5, QuietIsAlone
    <3> QED BY <2>1, <2>2, <3>1 DEF Alone, SysAlone, UiAlone, Waiting, Own
  <2>6. Met' /\ Alarm' /\ Configured' /\ ChargerFollows'
    BY <1>2, <2>1, <2>2 DEF IInv, Met, Meeting, Alarm, Configured, ChargerFollows
  <2> QED BY <2>3, <2>4, <2>5, <2>6 DEF IInv
<1> QED BY <1>1, <1>2

-------------------------------------------------------------------------------
(* Edits, and the steps of settingTSK.                                     *)

LEMMA EditedKeeps ==
    ASSUME IInv, NEW setting \in ConfigOps \cup {"other"}, NEW late \in BOOLEAN,
           Edited(setting, late), ui' \in {ui, [ui EXCEPT !.at = "edited"]},
           ui' # ui => ui.at = "idle",
           setting \in ConfigOps => ui'.at = "edited" \/ late,
           sys \in ConfigOps => late
    PROVE  IInv'
<1>1. /\ ram' \in Versions
      /\ missed' = (missed \/ (late /\ setting \in ConfigOps))
      /\ charger' = IF missed' THEN {} ELSE charger \ {setting}
      /\ UNCHANGED <<eeprom, flagged, sys, i2c, meas, reconfig, clash, kept>>
  BY SettingsAssumption DEF Edited, IInv, Typed, TypeOK, Versions, Default
<1>2. sys \in Ops => ~i2c.sem
  BY OpsDistinct DEF Edited, SysBlocked
<1>3. /\ ui' \in [at : Places, chunk : Chunks, image : Versions]
      /\ ui'.at = ui.at \/ (ui.at = "idle" /\ ui'.at = "edited")
      /\ ui'.chunk = ui.chunk /\ ui'.image = ui.image
  BY DEF IInv, Typed, Places
<1>4. Typed'
  BY <1>1, <1>3 DEF IInv, Typed, TypeOK, Places
<1>5. Taken'
  BY <1>1, <1>3 DEF IInv, Taken, Waiting, Hooked
<1>6. ASSUME ~clash' PROVE Alone'
  <2>1. Alone
    BY <1>1, <1>6 DEF IInv
  <2>2. SysAlone'
    BY <1>1, <1>2, <2>1 DEF Alone, SysAlone
  <2>3. UiAlone'
    BY <1>1, <1>3, <2>1 DEF Alone, UiAlone, Own
  <2>4. ~Waiting' => i2c'.inflight = {}
    BY <1>1, <1>3, <2>1 DEF Alone, Waiting
  <2> QED BY <2>2, <2>3, <2>4 DEF Alone
<1>7. Met' /\ Alarm'
  BY <1>1, <1>3 DEF IInv, Met, Meeting, Alarm
<1>8. Configured'
  BY <1>1 DEF IInv, Configured, ConfigOps
<1>9. ChargerFollows'
  BY <1>1, <1>3 DEF IInv, ChargerFollows, ConfigOps
<1> QED BY <1>4, <1>5, <1>6, <1>7, <1>8, <1>9 DEF IInv

LEMMA EditsKeep ==
    ASSUME IInv, MasterEdits \/ MenuEdits
    PROVE  IInv'
<1>1. CASE MasterEdits
  <2>1. PICK setting \in ConfigOps \cup {"other"} : Edited(setting, TRUE)
    BY <1>1 DEF MasterEdits
  <2> QED BY <1>1, <2>1, EditedKeeps DEF MasterEdits
<1>2. CASE MenuEdits
  <2>1. PICK setting \in ConfigOps \cup {"other"} :
            /\ Edited(setting, sys \in ConfigOps)
            /\ \/ ui' = [ui EXCEPT !.at = "edited"]
               \/ setting = "other" /\ UNCHANGED ui
    BY <1>2 DEF MenuEdits
  <2>2. (ui.at = "idle" /\ ui'.at = "edited") \/ (setting = "other" /\ ui' = ui)
    BY <1>2, <2>1 DEF MenuEdits, IInv, Typed
  <2>3. DEFINE late == sys \in ConfigOps
  <2>4. late \in BOOLEAN /\ Edited(setting, late)
    BY <2>1
  <2> HIDE DEF late
  <2>5. (setting \in ConfigOps => ui'.at = "edited" \/ late) /\ (sys \in ConfigOps => late)
    BY <2>2 DEF late, ConfigOps
  <2> QED BY <2>1, <2>2, <2>4, <2>5, EditedKeeps
<1> QED BY <1>1, <1>2

\* What every step of settingTSK has in common: it finds no token of systemTSK, and the
\* task is alone after it only if it was before.
LEMMA UiStepFacts ==
    ASSUME IInv, NEW u \in [at : Places, chunk : Chunks, image : Versions], UiStep(u)
    PROVE  /\ ui' = u
           /\ UNCHANGED <<eeprom, ram, flagged, sys, meas, charger, missed>>
           /\ sys \in Ops => ~i2c.sem
           /\ sys \notin Ops => sys \in {"idle", "pause"}
           /\ ~Meeting(sys, u) \/ clash'
           /\ clash' \in BOOLEAN
           /\ ~clash' => Alone
           /\ Met' /\ Alarm'
<1>1. /\ ui' = u /\ SysBlocked
      /\ UNCHANGED <<eeprom, ram, flagged, sys, meas, charger, missed>>
      /\ clash' = (Meeting(sys, u) \/ (clash /\ InUse))
      /\ clash' \in BOOLEAN
  BY DEF UiStep
<1>2. (sys \in Ops => ~i2c.sem) /\ (sys \notin Ops => sys \in {"idle", "pause"})
  BY <1>1, OpsDistinct DEF SysBlocked, Ops
<1>3. ~clash' => Alone
  BY <1>1, QuietIsAlone
<1>4. Met'
  BY <1>1 DEF Met
<1>5. Alarm'
  BY <1>1, <1>2, OpsDistinct DEF IInv, Alarm, InUse, ConfigOps
<1> QED BY <1>1, <1>2, <1>3, <1>4, <1>5

\* The steps that leave the bus alone: the menu's callback and the two ends of a save.
LEMMA UiAsideKeeps ==
    ASSUME IInv, MenuTells \/ SaveStarts \/ SaveEnds
    PROVE  IInv'
<1>1. PICK u \in [at : Places, chunk : Chunks, image : Versions] :
         /\ UiStep(u) /\ u.at \in {"idle", "src"}
         /\ u.at = "src" => u.chunk = 1
  <2>1. 1 \in Chunks /\ Default \in Versions /\ ram \in Versions
    BY SettingsAssumption DEF Chunks, Versions, Default, IInv, Typed, TypeOK
  <2> QED BY <2>1 DEF MenuTells, SaveStarts, SaveEnds, UiIdle, Places, IInv, Typed
<1>2. i2c' = i2c /\ kept' = kept /\ reconfig' \in BOOLEAN /\ ui.at \notin {"addr", "start", "wait"}
  BY DEF MenuTells, SaveStarts, SaveEnds, ChangeTold, IInv, Typed, TypeOK
<1>3. reconfig' \/ (reconfig' = reconfig /\ ui.at # "edited")
  BY DEF MenuTells, SaveStarts, SaveEnds, ChangeTold
<1>4. /\ ui' = u
      /\ UNCHANGED <<eeprom, ram, flagged, sys, meas, charger, missed>>
      /\ clash' \in BOOLEAN
      /\ ~clash' => Alone
      /\ Met' /\ Alarm'
  BY <1>1, UiStepFacts
<1>5. Typed'
  BY <1>1, <1>2, <1>4 DEF IInv, Typed, TypeOK, Places
<1>6. Taken'
  BY <1>1, <1>2, <1>4 DEF IInv, Taken, Waiting, Hooked
<1>7. ASSUME ~clash' PROVE Alone'
  <2>1. SysAlone'
    BY <1>2, <1>4, <1>7 DEF Alone, SysAlone
  <2>2. UiAlone'
    BY <1>1, <1>4 DEF UiAlone, Chunks
  <2>3. ~Waiting' => i2c'.inflight = {}
    BY <1>1, <1>2, <1>4, <1>7 DEF Alone, Waiting
  <2> QED BY <2>1, <2>2, <2>3 DEF Alone
<1>8. Configured'
  BY <1>3, <1>4 DEF IInv, Configured
<1>9. ChargerFollows'
  BY <1>3, <1>4 DEF IInv, ChargerFollows
<1> QED BY <1>4, <1>5, <1>6, <1>7, <1>8, <1>9 DEF IInv

\* The two registers of the driver that a write sets before it starts.
LEMMA UiSetsKeeps ==
    ASSUME IInv, UiSetsSource \/ UiSetsAddress
    PROVE  IInv'
<1>1. PICK u \in [at : Places, chunk : Chunks, image : Versions] :
         /\ UiStep(u) /\ u.chunk = ui.chunk /\ u.image = ui.image
         /\ \/ ui.at = "src" /\ u.at = "addr" /\ i2c' = [i2c EXCEPT !.src = "ui"]
            \/ ui.at = "addr" /\ u.at = "start" /\ i2c' = [i2c EXCEPT !.addr = "ui"]
  BY DEF UiSetsSource, UiSetsAddress, Places, IInv, Typed
<1>2. /\ i2c' \in [inflight : SUBSET Transfers, state : {"tx", "rx", "done"},
                   src : {"sys", "ui"}, addr : {"sys", "ui"}, sem : BOOLEAN]
      /\ i2c'.inflight = i2c.inflight /\ i2c'.state = i2c.state /\ i2c'.sem = i2c.sem
      /\ u.at = "addr" => i2c'.src = "ui"
      /\ u.at = "start" => i2c'.src = i2c.src /\ i2c'.addr = "ui"
  BY <1>1 DEF IInv, Typed
<1>3. /\ ui' = u
      /\ UNCHANGED <<eeprom, ram, flagged, sys, meas, charger, missed>>
      /\ clash' \in BOOLEAN
      /\ ~clash' => Alone
      /\ Met' /\ Alarm'
  BY <1>1, UiStepFacts
<1>4. reconfig' = reconfig /\ kept' = kept
  BY DEF UiSetsSource, UiSetsAddress
<1>5. Typed'
  BY <1>1, <1>2, <1>3, <1>4 DEF IInv, Typed, TypeOK, Places
<1>6. Taken'
  BY <1>1, <1>2, <1>3 DEF IInv, Taken, Waiting, Hooked
<1>7. ASSUME ~clash' PROVE Alone'
  <2>1. SysAlone'
    BY <1>2, <1>3, <1>7 DEF Alone, SysAlone
  <2>2. UiAlone'
    BY <1>1, <1>2, <1>3, <1>7 DEF Alone, UiAlone
  <2>3. ~Waiting' => i2c'.inflight = {}
    BY <1>1, <1>2, <1>3, <1>7 DEF Alone, Waiting
  <2> QED BY <2>1, <2>2, <2>3 DEF Alone
<1>8. Configured' /\ ChargerFollows'
  BY <1>1, <1>3, <1>4 DEF IInv, Configured, ChargerFollows
<1> QED BY <1>3, <1>5, <1>6, <1>7, <1>8 DEF IInv

LEMMA UiStartsTransferKeeps ==
    ASSUME IInv, UiStartsTransfer
    PROVE  IInv'
<1> DEFINE u == [ui EXCEPT !.at = "wait"]
<1>1. /\ UiStep(u) /\ ui.at = "start" /\ reconfig' = reconfig
      /\ u \in [at : Places, chunk : Chunks, image : Versions]
      /\ u.at = "wait" /\ u.chunk = ui.chunk /\ u.image = ui.image
  BY DEF UiStartsTransfer, Places, IInv, Typed
<1> HIDE DEF u
<1>2. PICK both \in With(ChunkTransfer) : i2c' = [i2c EXCEPT !.inflight = both, !.state = "tx"]
  BY DEF UiStartsTransfer
<1>3. ChunkTransfer \in Transfers
  BY SettingsAssumption DEF ChunkTransfer, Transfers, IInv, Typed, Chunks
<1>4. /\ i2c' \in [inflight : SUBSET Transfers, state : {"tx", "rx", "done"},
                   src : {"sys", "ui"}, addr : {"sys", "ui"}, sem : BOOLEAN]
      /\ i2c.inflight = {} => i2c'.inflight = {ChunkTransfer}
      /\ i2c'.sem = i2c.sem
  <2>1. both \in SUBSET Transfers /\ (i2c.inflight = {} => both = {ChunkTransfer})
    BY <1>2, <1>3 DEF With, IInv, Typed
  <2> QED BY <1>2, <2>1 DEF IInv, Typed
<1>5. /\ ui' = u
      /\ UNCHANGED <<eeprom, ram, flagged, sys, meas, charger, missed>>
      /\ sys \in Ops => ~i2c.sem
      /\ ~Meeting(sys, u) \/ clash'
      /\ clash' \in BOOLEAN
      /\ ~clash' => Alone
      /\ Met' /\ Alarm'
  BY <1>1, UiStepFacts
<1>6. ~i2c.sem
  BY <1>1, <1>5 DEF IInv, Taken, Waiting
<1>7. Typed'
  <2>1. kept' \in Images \cup {Garbage}
    BY DEF UiStartsTransfer
  <2>2. reconfig' \in BOOLEAN /\ missed' \in BOOLEAN /\ flagged' \in BOOLEAN
    BY <1>1, <1>5, Zenon DEF IInv, Typed, TypeOK
  <2>3. /\ eeprom' \in [Chunks -> Images \cup {Garbage}] /\ ram' \in Versions
        /\ sys' \in Ops \cup {"idle", "pause", "check"}
        /\ meas' \in [got : BOOLEAN, high : BOOLEAN, low : BOOLEAN] /\ charger' \subseteq ConfigOps
    BY <1>5 DEF IInv, Typed, TypeOK
  <2>4. /\ ui' \in [at : Places, chunk : Chunks, image : Versions]
        /\ ui'.at \in Places /\ ui'.chunk \in Chunks /\ ui'.image \in Versions
    BY <1>1, <1>5
  <2>5. /\ i2c'.inflight \subseteq Transfers /\ i2c'.state \in {"tx", "rx", "done"}
        /\ i2c'.sem \in BOOLEAN
    BY <1>4
  <2> QED BY <1>4, <1>5, <2>1, <2>2, <2>3, <2>4, <2>5 DEF Typed, TypeOK, Places
<1>8. Taken'
  BY <1>1, <1>4, <1>5, <1>6 DEF Taken, Waiting
<1>9. ASSUME ~clash' PROVE Alone'
  <2>1. sys \notin Ops /\ Alone
    BY <1>1, <1>5, <1>9 DEF Meeting
  <2>2. i2c'.inflight = {ChunkTransfer} /\ i2c.src = "ui" /\ i2c.addr = "ui"
    BY <1>1, <1>4, <2>1 DEF Alone, UiAlone, Waiting
  <2>3. ChunkTransfer = Own'
    BY <1>1, <1>5, <2>2 DEF ChunkTransfer, Own
  <2>4. UiAlone'
    BY <1>1, <1>4, <1>5, <1>6, <2>1, <2>2, <2>3 DEF Alone, UiAlone
  <2> QED BY <1>1, <1>5, <2>1, <2>4 DEF Alone, SysAlone, Waiting
<1>10. Configured' /\ ChargerFollows'
  BY <1>1, <1>5 DEF IInv, Configured, ChargerFollows
<1> QED BY <1>5, <1>7, <1>8, <1>9, <1>10 DEF IInv

\* The wait of settingTSK ends: with the token, or with none and nothing in flight.
LEMMA UiWaitEndsKeeps ==
    ASSUME IInv, UiTakes \/ UiTimeout
    PROVE  IInv'
<1>1. PICK u \in [at : Places, chunk : Chunks, image : Versions] :
         /\ UiStep(u) /\ u.image = ui.image
         /\ \/ UiTakes /\ u = NextChunk
            \/ UiTimeout /\ u.at = "failed"
  <2>1. CASE UiTakes
    <3>1. ui \in [at : Places, chunk : Chunks, image : Versions]
      BY DEF IInv, Typed
    <3>2. CASE ui.chunk = NChunks
      BY <2>1, <3>1, <3>2 DEF UiTakes, NextChunk, Places
    <3>3. CASE ui.chunk # NChunks
      <4>1. ui.chunk + 1 \in Chunks
        BY SettingsAssumption, <3>1, <3>3 DEF Chunks
      <4> QED BY <2>1, <3>1, <3>3, <4>1 DEF UiTakes, NextChunk, Places
    <3> QED BY <3>2, <3>3
  <2>2. CASE UiTimeout
    BY <2>2 DEF UiTimeout, Places, IInv, Typed
  <2> QED BY <2>1, <2>2
<1>2. /\ ui' = u
      /\ UNCHANGED <<eeprom, ram, flagged, sys, meas, charger, missed>>
      /\ sys \in Ops => ~i2c.sem
      /\ sys \notin Ops => sys \in {"idle", "pause"}
      /\ clash' \in BOOLEAN
      /\ ~clash' => Alone
      /\ Met' /\ Alarm'
  BY <1>1, UiStepFacts
<1>3. /\ i2c' \in [inflight : SUBSET Transfers, state : {"tx", "rx", "done"},
                   src : {"sys", "ui"}, addr : {"sys", "ui"}, sem : BOOLEAN]
      /\ i2c'.inflight = i2c.inflight /\ i2c'.state = i2c.state
      /\ ~i2c'.sem
      /\ ui.at = "wait" /\ reconfig' = reconfig
  BY DEF UiTakes, UiTimeout, IInv, Typed
<1>4. u.at \in {"saved", "src", "failed"}
  BY <1>1 DEF NextChunk, IInv, Typed
<1>5. Typed'
  <2>1. kept' \in Images \cup {Garbage}
    BY DEF UiTakes, UiTimeout, IInv, Typed, TypeOK, Images
  <2> QED BY <1>1, <1>2, <1>3, <1>4, <2>1 DEF IInv, Typed, TypeOK, Places
<1>6. Taken'
  <2>1. CASE i2c.sem
    BY <1>2, <1>3, <2>1, OpsDistinct DEF IInv, Taken, Hooked
  <2>2. CASE ~i2c.sem
    BY <1>1, <1>3, <2>2 DEF UiTakes, UiTimeout, Taken
  <2> QED BY <2>1, <2>2
<1>7. ASSUME ~clash' PROVE Alone'
  <2>1. Alone
    BY <1>2, <1>7
  <2>2. SysAlone'
    BY <1>2, <1>3, <2>1 DEF Alone, SysAlone
  <2>3. i2c'.inflight = {}
    BY <1>1, <1>3, <2>1 DEF Alone, UiAlone, UiTakes, UiTimeout
  <2>4. UiAlone'
    <3>1. CASE UiTimeout /\ u.at = "failed"
      BY <1>2, <3>1 DEF UiAlone
    <3>2. CASE UiTakes /\ u = NextChunk
      <4>1. \A c \in Chunks : c <= ui.chunk => eeprom[c] = ui.image
        BY <1>3, <2>1, <3>2 DEF Alone, UiAlone, UiTakes, IInv, Typed, Chunks
      <4>2. u = IF ui.chunk = NChunks THEN [ui EXCEPT !.at = "saved"]
                ELSE [ui EXCEPT !.at = "src", !.chunk = ui.chunk + 1]
        BY <3>2 DEF NextChunk
      <4>3. ui.chunk \in 1..NChunks /\ NChunks \in Nat
        BY SettingsAssumption DEF IInv, Typed, Chunks
      <4>4. u.at = "saved" => \A c \in Chunks : eeprom[c] = u.image
        BY <4>1, <4>2, <4>3 DEF IInv, Typed, Chunks
      <4>5. \A c \in Chunks : u.at = "src" /\ c < u.chunk => eeprom[c] = u.image
        BY <4>1, <4>2, <4>3 DEF IInv, Typed, Chunks
      <4> QED BY <1>2, <1>4, <4>4, <4>5 DEF UiAlone
    <3> QED BY <1>1, <3>1, <3>2
  <2> QED BY <2>2, <2>3, <2>4 DEF Alone
<1>8. Configured' /\ ChargerFollows'
  BY <1>2, <1>3, <1>4 DEF IInv, Configured, ChargerFollows
<1> QED BY <1>2, <1>5, <1>6, <1>7, <1>8 DEF IInv

LEMMA NextKeeps == IInv /\ [Next]_vars => IInv'
<1> SUFFICES ASSUME IInv, [Next]_vars PROVE IInv'
  OBVIOUS
<1>1. CASE Bus
  BY <1>1, TransferEndsKeeps, TransferLostKeeps DEF Bus
<1>2. CASE SysTakes
  BY <1>2, AnsweredKeeps DEF SysTakes
<1>3. CASE SysTimeout
  BY <1>3, AnsweredKeeps DEF SysTimeout
<1>4. CASE SysWakes
  BY <1>4, SysWakesKeeps
<1>5. CASE SysChecks
  BY <1>5, SysChecksKeeps
<1>6. CASE SettingTask
  BY <1>6, UiAsideKeeps, UiSetsKeeps, UiStartsTransferKeeps, UiWaitEndsKeeps DEF SettingTask
<1>7. CASE MasterEdits \/ MenuEdits
  BY <1>7, EditsKeep
<1>8. CASE Reset
  <2>1. eeprom' \in [Chunks -> Images \cup {Garbage}]
    BY <1>8, OverwrittenTyped DEF Reset, IInv, Typed, TypeOK
  <2> QED BY <1>8, <2>1, RestartKeeps DEF Reset
<1>9. CASE UNCHANGED vars
  BY <1>9 DEF vars, IInv, Typed, TypeOK, Taken, Waiting, Hooked, Met, Meeting, Alone, SysAlone, UiAlone,
              Own, Alarm, Configured, ChargerFollows
<1> QED BY <1>1, <1>2, <1>3, <1>4, <1>5, <1>6, <1>7, <1>8, <1>9 DEF Next, SystemTask

LEMMA Invariance == Spec => []IInv
<1> QED BY InitEstablishes, NextKeeps, PTL DEF Spec

-------------------------------------------------------------------------------

\* Every variable of the store, the bus and the two tasks keeps to its range, for any
\* number of chunks and versions.
THEOREM TypeCorrect == Spec => []TypeOK
<1>1. IInv => TypeOK
  BY DEF IInv, Typed
<1> QED BY <1>1, Invariance, PTL

\* No token of the semaphore outlives the use of the bus: the end of a transfer is never
\* taken for that of a later one (systemTSK.cpp:135-157).
THEOREM TokensAreTaken == Spec => []NoStaleToken
<1>1. IInv => NoStaleToken
  BY DEF IInv, Taken, Waiting, NoStaleToken, InUse
<1> QED BY <1>1, Invariance, PTL

\* A save that met no transfer of systemTSK and reports success has stored every chunk
\* (24AAxx.cpp:59-105).
THEOREM SaveIsKept == Spec => []SaveKept
<1>1. IInv => SaveKept
  BY DEF IInv, Alone, UiAlone, SaveKept
<1> QED BY <1>1, Invariance, PTL

\* With a good battery only a meeting of the two tasks can shut the device down
\* (systemTSK.cpp:110-130, 309-311).
THEOREM AlarmNeedsMeeting == Spec => []NoFalseAlarm
<1>1. IInv => NoFalseAlarm
  BY DEF IInv, Alarm, NoFalseAlarm
<1> QED BY <1>1, Invariance, PTL

\* Once reconfig is cleared the charger holds both settings in use, but for the changes
\* that nobody tells it (systemTSK.cpp:125-129).
THEOREM ChargerHoldsSettings == Spec => []ChargerFollows
<1>1. IInv => ChargerFollows
  BY DEF IInv
<1> QED BY <1>1, Invariance, PTL
-------------------------------------------------------------------------------
(* What a good save leaves.                                                *)

\* The image of the last good save is in every chunk, and no transfer is on its way that
\* could write another.
KeptWhole ==
    kept # Garbage =>
        /\ \A c \in Chunks : eeprom[c] = kept
        /\ ui.at # "wait"
        /\ \A t \in i2c.inflight : t.op \in Ops

\* Until the settings are loaded systemTSK is alone, and nothing is announced.
Booting == sys \in BootOps => ~clash /\ ui.at = "idle" /\ ~flagged

\* The bus operations of the start are followed by one another or by none.
LEMMA AfterBoot ==
    ASSUME NEW op, NEW ok \in BOOLEAN, After(op, ok) \in BootOps, op \in Ops
    PROVE  op \in BootOps \ {"eepR"}
  BY DEF After, AfterRead, BootOps, ChargerOps, Ops

\* A step of systemTSK puts no chunk on the bus.
LEMMA GoToOps ==
    ASSUME Typed, NEW op \in Points, NEW taken \in BOOLEAN, GoTo(op, taken),
           \A t \in i2c.inflight : t.op \in Ops
    PROVE  \A t \in i2c'.inflight : t.op \in Ops
<1>1. CASE op \notin Ops
  BY <1>1, GoToFields
<1>2. CASE op \in Ops
  <2>1. PICK both \in With(Transfer(op)), then \in Started(op) :
            /\ then = [i2c EXCEPT !.inflight = both,
                                  !.state = Kind(op),
                                  !.src = IF Kind(op) = "tx" THEN "sys" ELSE @,
                                  !.addr = "sys"]
            /\ i2c' = [then EXCEPT !.sem = @ /\ ~taken]
    BY <1>2 DEF GoTo, Started
  <2>2. i2c'.inflight = both
    BY <2>1 DEF Typed
  <2>3. \A t \in both : t = Transfer(op) \/ t \in i2c.inflight
    BY DEF With
  <2>4. Transfer(op).op = op
    BY DEF Transfer
  <2> QED BY <1>2, <2>2, <2>3, <2>4
<1> QED BY <1>1, <1>2

LEMMA AnsweredKeepsSave ==
    ASSUME IInv, KeptWhole, Booting, NEW ok \in BOOLEAN, Answered(ok)
    PROVE  KeptWhole' /\ Booting'
<1>1. PICK b \in BOOLEAN : GoTo(After(sys, b), ok)
  BY DEF Answered
<1>2. sys \in Ops /\ Typed /\ UNCHANGED <<eeprom, ui, kept>> /\ After(sys, b) \in Points
  BY AfterCases DEF Answered, IInv, Typed, TypeOK
<1>3. KeptWhole'
  BY <1>1, <1>2, GoToOps DEF KeptWhole
<1>4. ASSUME sys' \in BootOps PROVE ~clash' /\ ui'.at = "idle" /\ ~flagged'
  <2>1. /\ sys' = After(sys, b)
        /\ clash' = (Meeting(After(sys, b), ui) \/ (clash /\ InUse))
    BY <1>1, <1>2, GoToFields
  <2>2. sys \in BootOps \ {"eepR"}
    BY <1>2, <1>4, <2>1, AfterBoot
  <2>3. flagged' = flagged
    BY <2>2 DEF Answered, LoadParameters
  <2> QED BY <1>2, <2>1, <2>2, <2>3 DEF Booting, Meeting
<1> QED BY <1>3, <1>4 DEF Booting

\* Only a transfer of a save reaches the EEPROM.
LEMMA BusKeepsSave ==
    ASSUME IInv, KeptWhole, Booting, Bus
    PROVE  KeptWhole' /\ Booting'
<1>1. PICK t \in i2c.inflight : TransferEnds(t) \/ TransferLost(t)
  BY DEF Bus
<1>2. UNCHANGED <<sys, ui, clash, flagged, kept>> /\ i2c'.inflight = i2c.inflight \ {t}
  BY <1>1 DEF TransferEnds, TransferLost, IInv, Typed
<1>3. t.op \in Ops => eeprom' = eeprom
  BY <1>1 DEF TransferEnds, TransferLost, Stored
<1>4. KeptWhole'
  BY <1>2, <1>3 DEF KeptWhole
<1> QED BY <1>2, <1>4 DEF Booting

\* The last chunk of a save that met nobody completes the image.
LEMMA UiTakesKeepsSave ==
    ASSUME IInv, KeptWhole, UiTakes, IInv'
    PROVE  KeptWhole'
<1>1. /\ UiStep(NextChunk) /\ ui' = NextChunk /\ i2c.sem /\ ui.at = "wait"
      /\ UNCHANGED <<eeprom, sys>> /\ i2c'.inflight = i2c.inflight
      /\ kept' = IF NextChunk.at = "saved" /\ ~clash' THEN ui.image ELSE kept
  BY DEF UiTakes, UiStep, IInv, Typed
<1>2. CASE NextChunk.at = "saved" /\ ~clash'
  <2>1. NextChunk.image = ui.image /\ ui'.at = "saved"
    BY <1>1, <1>2 DEF NextChunk, IInv, Typed
  <2>2. \A c \in Chunks : eeprom[c] = ui.image
    BY <1>1, <1>2, <2>1 DEF IInv, Alone, UiAlone
  <2>3. NextChunk \in [at : Places, chunk : Chunks, image : Versions]
    BY <1>1 DEF IInv, Typed
  <2>4. Alone
    BY <1>1, <1>2, <2>3, UiStepFacts
  <2>5. i2c.inflight = {}
    BY <1>1, <2>4 DEF Alone, UiAlone
  <2> QED BY <1>1, <1>2, <2>1, <2>2, <2>5 DEF KeptWhole
<1>3. CASE ~(NextChunk.at = "saved" /\ ~clash')
  BY <1>1, <1>3 DEF KeptWhole
<1> QED BY <1>2, <1>3

LEMMA NextKeepsSave ==
    ASSUME IInv, KeptWhole, Booting, [Next]_vars
    PROVE  KeptWhole' /\ Booting'
<1>1. CASE Bus
  BY <1>1, BusKeepsSave
<1>2. CASE SysTakes \/ SysTimeout
  BY <1>2, AnsweredKeepsSave DEF SysTakes, SysTimeout
<1>3. CASE SysWakes
  <2>1. PICK op \in {"statusW", "convW"} : GoTo(op, FALSE)
    BY <1>3 DEF SysWakes
  <2>2. op \in Points /\ op \notin BootOps /\ Typed
    BY DEF Points, Ops, ChargerOps, BootOps, IInv
  <2>3. sys' = op /\ UNCHANGED <<eeprom, ui, kept>>
    BY <1>3, <2>1 DEF GoTo, SysWakes
  <2> QED BY <2>1, <2>2, <2>3, GoToOps DEF KeptWhole, Booting
<1>4. ASSUME Restarted, UNCHANGED eeprom \/ ui.at = "wait" PROVE KeptWhole' /\ Booting'
  <2>1. \A t \in i2c'.inflight : t.op \in Ops
    BY <1>4, StartsTyped DEF Restarted, Transfer
  <2>2. ui'.at = "idle" /\ ~flagged' /\ ~clash' /\ kept' = kept
    BY <1>4 DEF Restarted, UiIdle
  <2>3. kept' # Garbage => \A c \in Chunks : eeprom'[c] = kept'
    BY <1>4, <2>2 DEF KeptWhole
  <2> QED BY <2>1, <2>2, <2>3 DEF KeptWhole, Booting
<1>5. CASE SysChecks
  <2>1. CASE meas.low
    BY <1>4, <1>5, <2>1 DEF SysChecks
  <2>2. CASE ~meas.low
    BY <1>5, <2>2 DEF SysChecks, KeptWhole, Booting, BootOps
  <2> QED BY <2>1, <2>2
<1>6. CASE Reset
  BY <1>4, <1>6 DEF Reset
<1>7. CASE SettingTask \/ MasterEdits \/ MenuEdits
  <2>1. sys' = sys /\ eeprom' = eeprom /\ SysBlocked
    BY <1>7 DEF SettingTask, MasterEdits, MenuEdits, Edited, MenuTells, SaveStarts, UiSetsSource, UiSetsAddress,
                UiStartsTransfer, UiTakes, UiTimeout, SaveEnds, UiStep
  <2>2. sys \notin BootOps
    BY <2>1 DEF SysBlocked, BootOps, ChargerOps
  <2>3. CASE UiStartsTransfer
    BY <2>1, <2>2, <2>3 DEF UiStartsTransfer, KeptWhole, Booting
  <2>4. CASE UiTakes
    <3>1. IInv'
      BY <2>4, UiWaitEndsKeeps
    <3> QED BY <2>1, <2>2, <2>4, <3>1, UiTakesKeepsSave DEF Booting
  <2>5. CASE ~UiStartsTransfer /\ ~UiTakes
    <3>1. kept' = kept /\ i2c'.inflight = i2c.inflight /\ (ui'.at = "wait" => ui.at = "wait")
      BY <1>7, <2>5 DEF SettingTask, MasterEdits, MenuEdits, Edited, MenuTells, SaveStarts, UiSetsSource,
                        UiSetsAddress, UiTimeout, SaveEnds, UiStep, UiIdle, IInv, Typed
    <3> QED BY <2>1, <2>2, <3>1 DEF KeptWhole, Booting
  <2> QED BY <2>3, <2>4, <2>5
<1>8. CASE UNCHANGED vars
  BY <1>8 DEF vars, KeptWhole, Booting
<1> QED BY <1>1, <1>2, <1>3, <1>5, <1>6, <1>7, <1>8 DEF Next, SystemTask

\* Only the answer to the read of the EEPROM can end the load.
LEMMA LoadEndsWithAnswer ==
    ASSUME [Next]_vars, sys = "eepR", i2c.sem, sys' = "idle"
    PROVE  Answered(TRUE)
<1>1. CASE UNCHANGED vars \/ Bus
  BY <1>1 DEF vars, Bus, TransferEnds, TransferLost
<1>2. CASE SystemTask
  BY <1>2 DEF SystemTask, SysTakes, SysTimeout, SysWakes, SysChecks
<1>3. CASE SettingTask \/ MasterEdits \/ MenuEdits
  BY <1>3 DEF SettingTask, MenuTells, SaveStarts, UiSetsSource, UiSetsAddress, UiStartsTransfer,
              UiTakes, UiTimeout, SaveEnds, UiStep, MasterEdits, MenuEdits, Edited
<1>4. CASE Reset
  BY <1>4 DEF Reset, Restarted
<1> QED BY <1>1, <1>2, <1>3, <1>4 DEF Next

\* What a start reads is the last good save, for any number of chunks and versions: it is
\* whole in the EEPROM until the next save reaches the bus, no reset between touches it,
\* and the end of the read is not that of another transfer (24AAxx.cpp:59-138,
\* systemTSK.cpp:326-338).
THEOREM SavesAreFound == Spec => SavesSurvive
<1>1. Init => KeptWhole /\ Booting
  BY StartsTyped DEF Init, KeptWhole, Booting, UiIdle, Transfer
<1>2. IInv /\ KeptWhole /\ Booting /\ [Next]_vars => KeptWhole' /\ Booting'
  BY NextKeepsSave
<1>3. ASSUME IInv, KeptWhole, Booting, [Next]_vars,
             sys = "eepR", i2c.sem, sys' = "idle", kept # Garbage
      PROVE  ram' \in Accepted(kept) /\ ~flagged'
  <2>1. LoadParameters("eepR", TRUE)
    BY <1>3, LoadEndsWithAnswer DEF Answered
  <2>2. ~clash /\ ~flagged /\ meas.got
    BY <1>3 DEF Booting, BootOps, IInv, Alone, SysAlone, Ops, Reads
  <2>3. kept \in Images /\ \A c \in Chunks : eeprom[c] = kept
    BY <1>3 DEF KeptWhole, IInv, Typed, TypeOK
  <2>4. 1 \in Chunks
    BY SettingsAssumption DEF Chunks
  <2>5. Image = kept
    BY <2>2, <2>3, <2>4 DEF Image
  <2> QED BY <1>3, <2>1, <2>2, <2>5 DEF LoadParameters
<1>4. IInv /\ KeptWhole /\ Booting /\ [Next]_vars =>
        [sys = "eepR" /\ i2c.sem /\ sys' = "idle" /\ kept # Garbage =>
            ram' \in Accepted(kept) /\ ~flagged']_vars
  BY <1>3
<1> QED BY <1>1, <1>2, <1>4, Invariance, PTL DEF Spec, SavesSurvive
===============================================================================
