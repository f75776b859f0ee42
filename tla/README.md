# Nucci: models, checks and proofs

Nucci is a hand-held radiation meter: an STM32F407 with FreeRTOS, a Geiger tube
behind a high-voltage converter, a colour display, a lithium charger and an EEPROM on one I2C
bus, and Ethernet with lwIP. This directory models the parts of its firmware
(`src/NucciF`) whose correctness depends on resets, on the order of events or on
several tasks meeting, checks them with TLC and proves the central facts with TLAPS.

## Inventory

Tasks, by priority: `systemTSK` 8, `adcTSK` 7, the Ethernet input 6, lwIP's `tcpip`
thread 5, the Modbus, HTTP and radmon tasks 3, one window task at a time 1. The
scheduler is preemptive with a tick of 1 ms. Interrupts: ADC, PWM, pulse counter, I2C, DMA, UART,
SPI. A bootloader runs before all of it.

| Part | Source | State | Operations | Hard behaviour | Correct when |
|---|---|---|---|---|---|
| Bootloader | `boot.cpp`, `flash.c` | two image regions, lock bit | check, erase, copy, verify, erase the storage, launch | a reset inside any step; erasures and writes that fail unnoticed | there is always an image to start, and it is the committed one |
| Firmware storage | `porttcp.cpp` 130-172, `scripts/nucci.py` | storage region | clean at start, store a record | lost and repeated records, acknowledged ones that were not stored, resets, two uploads without a reset | a complete upload is committed, nothing else ever is |
| SNTP client | `sntp.c` | server index, pcb, lwIP timers, lookups | request, timer, DNS callback, receive | lost and late answers racing with timers and lookups | it never waits for nothing, one chain of requests, the clock is set |
| Settings store | `prmSystem.cpp`, `systemTSK.cpp`, `settingTSK.cpp` | EEPROM, parameters, default flag | load, edit, save | reset inside a save, failed read | a start finds the last good save |
| I2C bus | `i2c.c`, `24AAxx.cpp`, `rt9466.cpp` | DMA registers, driver state, one semaphore | write, read, hook, wait with time limit | two tasks of different priority with no lock; lost interrupts | a save that was undisturbed is kept, no stray token, no false battery alarm |
| RTC and backup registers | `rtc.c` | odometer image, clock, two write protections, the calendar's mode | set time, write, read | callers of three priorities, each closing the protection for the one it interrupted; waits without a limit; resets | the odometer does not go back, an image is whole, a setting takes effect, no call waits for ever |
| Pulse meter | `systemTSK.cpp` 82-104, 227-248 | 60 one-second buckets, counters | pulse, clear, add up | interrupt against task, wrap of the tick | the sum counts the pulses of the last minute |
| Windows and keys | `menuSystem.cpp`, `key.c`, `systemTSK.cpp` 250-276 | current window, window task, key counters | select, delete and create, debounce | a task deleted in the middle of a step | a window is running, none is left half deleted |
| High voltage | `adcTSK.cpp`, `hvpwm.c` | integrator, modulator | sample, control, modulate | windup, integer limits, torn sample | the output stays in its range and returns |
| Modbus registers | `porttcp.cpp` 33-128, `prmSystem.cpp`, `prmSystem.h` | the table of the parameters, the walk of a request | read, write, step of the menu, measurement | a request between the load and the store of a step, a write refused half-way, a row larger than the buffer | parameters keep their limits, every register reaches its row |
| Modbus, HTTP, radmon | `porttcp.cpp`, `portevent.c`, `httpServerTSK.c`, `radmonClient.cpp` | connections of a pool of four | listen, accept, serve, submit | silent clients, writes without a limit, failed connects, an exhausted pool | no connection is shared or lost, answers go to who asked, each task goes on |
| Log, display, beeper | `write.c`, `display.c`, `beep.c` | ring buffer, flush semaphore, timer | write, flush, beep | interrupt against task | output is not lost or doubled |

How they interact: the Modbus task fills the storage region that the bootloader reads after the
next reset; the reboot register, the menu and a low battery reset the device
(`systemTSK.cpp` 309-317); the window task and `systemTSK` share the I2C bus; the parameters
(`Prm::`) are plain variables that every task reads and writes; `lwIP` calls the SNTP
client under its core lock; the SNTP client, the settings window, the startup window and `systemTSK` write the RTC domain; the three
network tasks share lwIP's pool of four netconns.

`PROJECT.json` lists every hazard at its line, and every component with what is left out of it.

## Modules

### Firmware, FirmwareUpdate, MCFirmwareUpdate

`FirmwareUpdate` models the whole path of an update. A region of the flash is a function
from cells to words. A cell is what one record stores; sectors are sets of cells.
Programming only clears bits: `Overlay` keeps a word that is programmed over itself,
fills a blank cell, and spoils any other. The bootloader (`boot.cpp` 25-94) is one action per
step of its loops: `BootCheck`, `BootEraseMain`, `BootProgram`, `BootVerify`,
`BootEraseStore`, `BootLaunch`. The application part is `xMBTCPPortInit`, which erases every sector
that is not blank, `NetworkUp`, the wait for a link or an address, and `eMBFileRecordCB`. The script is `UploadStart`, `RecordLost` (all retries
failed, which `updateFw` ignores), `UploadEnd` and `Reboot`; a repeated record is
`eMBFileRecordCB` without an answer. `Reset` may happen in every state, also in the middle of an
erasure or a write: `Interrupted` gives every state in which each cell under change is done,
undone or `Torn`.

`flash.c` does not read the error flags, and nobody looks at its results. So each erasure and each write, of the bootloader and of
the application, has a parameter `ok`: with `ok` false it leaves any state that a cut one may leave (`Outcomes`), and the code goes on; the
record is acknowledged all the same. `failed` is a history variable: this has happened since the last reset. What the
properties say of a failure: the device is recoverable whatever fails (`NeverBricked`); after one, the bootloader may start an image
that was offered before, and the acknowledgements of an upload prove nothing (`CleanUploadCommits` and `BootRunsCommitted` except it).

Abstractions: an image is known by its header, whose CRC covers the rest (a collision of the CRC
is left out); a torn header or cell is rejected by the magic or the CRC; the
padding of an image may read as blank.

`Firmware` is the abstract specification: one image is committed, a start runs it, and it changes
only to an image that was offered, while the application runs. `FirmwareUpdate` implements it with
`committed <- Committed` (the storage's image if it holds one, else the main region's),
`running <- Running` and `faulty <- failed`: a flash that fails may bring any offered image back, and no other. The point of the mapping is that the bootloader's dozens of steps, with resets in them, are
stuttering steps.

### Sntp

One action per handler of `sntp.c`: `RequestTimer`, `NextServerTimer`, `sntp_dns_found`,
`sntp_recv`, and `AnswerLost`. `pending` counts the timers, lookups and answers
there are; lwIP's `sys_untimeout` removes one timer. The handlers run one at a time under the lwIP core
lock, which is why one handler is one step. `sntp_request` ends in a lookup, in a packet with its timer, or in
a timer alone, as the DNS cache and the allocation decide. `Init` is `sntp_init`: if there is no memory for the
pcb the client is never started and never tried again, so the properties speak of a client that got one (`pcbOpen`). The exhaustion of lwIP's
timer pool (`MEMP_NUM_SYS_TIMEOUT`) and the use of the removed pcb's memory are not modelled.

### Settings

The I2C controller with its driver and semaphore, `systemTSK`'s operations on it in their order (`BootOps` at the
start, `ChargerOps` every 200 ms), and `settingTSK`'s save. `systemTSK` has the
higher priority, so its start of a transfer is one step and the lower task takes steps only
while `SysBlocked` holds; `settingTSK` can be preempted between the three register writes of
`i2c_write` (`UiSetsSource`, `UiSetsAddress`, `UiStartsTransfer`). A transfer ends
(`TransferEnds`), is lost, or is cut by the other task's; the hook gives the semaphore only
for an end that fits the driver's state. Whoever waits takes the token, whatever transfer it
stands for. `Measured` says what a charger reading is when the token came from another transfer.

Abstractions: settings images are versions that differ in every chunk, so that a mixed image is
recognised (its CRC is wrong); before the first save the EEPROM holds nothing usable, or an image of an earlier firmware whose values may be
out of this one's limits (`Foreign`): `deserialize` does not look at what the parameters say, so each of those keeps its default and no flag is
raised (`Accepted`); the controller holds the starting transfer and at most one older;
the EEPROM takes a chunk when its transfer ends; the battery is good (a really empty one is a `Reset`).
Not modelled: a DMA write into a stack frame that is gone, registers of the charger
changed by a transfer with the wrong address, an interrupt that repeats for ever.
The settings of the charger are two of the parameters. `rt9466reconfig` tells `systemTSK` to write them both; only the menu's
callback sets it (`MenuTells`, after the value is stored), a Modbus master that writes the same parameters does not
(`MasterEdits`): the charger then goes on with the old value until the menu is used or the device starts again. `charger` is what is known
of its registers, and `missed` remembers why they may be behind.
`clash` is a history variable: both tasks have been on the bus together since both
last left it. The two tasks do disturb each other, so `SaveKept` and `NoFalseAlarm` say what
holds when they have not met; what they do to each other when they meet is the run `settings_save_report`,
and `NoStaleToken` holds in spite of it. `kept` is a history variable too: the image of the last save that met no transfer and reported success, until the
next one begins to write. `SavesSurvive` says that this is what a start reads, whatever resets (in a load, in a transfer
of the charger), edits, failed loads and saves that got no further than their first register came between the two. A reset in the write cycle of a chunk,
which `UiTakes` ends, leaves that chunk unusable. A load that fails before it reads anything is the run `settings_defaults`.

### Meter

The 60 buckets of `systemTSK.cpp`. `cntIntHandled` is the pulse interrupt, one step, as nothing of
lower priority interrupts it. systemTSK's pass is `SysStarts`, one `SysAdds` per bucket and `SysPublishes`, between
which only the two interrupts can act. `meter_clear`, called by the lowest task, is `ClearSeconds`, `ClearDose`, `ClearTime`
and one `ClearBucket` per bucket; systemTSK may run whole passes between any two. The tick
count is taken apart into `second` and `phase`, and `countTime` is kept as `late`, its distance to now. `fresh`, `age`,
`ahead` and the field `due` of `pass` are history: what the last minute really brought and how much time really passed.
The wrap of the 32-bit tick after 49 days, at which the buckets jump from second 47 to 0, and of a 16-bit bucket are left out;
so are the conversions of counts to doses, and the odometer but for its difference to `sparkOffset`.

### Connections

The three network tasks on lwIP's pool of four netconns (`MEMP_NUM_NETCONN`). The Modbus server (`modbusServerTSK.cpp`, `porttcp.cpp` 174-270,
`portevent.c`, and of `mb.c` the order in which it polls) and the web server each keep one listening netconn; for each client that connects lwIP takes a
netconn from the pool, or puts the news of an empty pool into the accept box. `Given` fixes which netconn comes next: they differ in nothing else.
The radmon client takes one per report. Every lwIP call that can fail has its failure: no netconn at the start
(`ModbusFaults`: `eMBTCPInit` fails, nobody looks at it, and `eMBEnable` calls a null pointer; `HttpEnds`), an accept without a connection
(`HttpAccepts` writes the time limit through a null pointer: `halted`, or nothing), a connect that fails (`RadmonConnects` forgets its
netconn: `lost`). `porttcp.cpp` sets its receive timeout on the listening connection, where it limits the accept only,
so a silent master keeps the Modbus server as long as it likes; `httpServerTSK.c` sets it on the accepted one. It limits receiving: a write has no
limit at all. An answer of the Modbus server and all pages but one fit into the send buffer; `favicon.png` (6503 bytes, `TCP_SND_BUF` is
5840) does not, and a browser that asks for it and does not read keeps the web server (`HttpSends`; the premise `BrowsersRead` of `BrowsersLetGo`). The radmon
client looks the name of its site up until it is found, for ever if need be (`RadmonResolves` has no fairness).

Abstractions: a request is a number in `peer.sent`; `owed` counts requests received and not answered; whether a frame is valid is chosen
freely; the pages, the texts and the bytes of frames are left out.

### Backup

`rtc_backupWrite` and `rtc_setTime`, one action per register access, called by three tasks: `systemTSK` (the odometer), lwIP's
thread (SNTP sets the clock), and the window task (one save by `startupTSK`, later settings by `settingTSK`). A task
takes a step only while no task above it is in `rtc.c` (`Runs`). Each call opens the protection for itself and closes it at its end
(`Lock`), for whomever it interrupted too: `hit` remembers which kind of call that was.

Two facts of the code matter. `RTC->ISR = 0xffffff` (lines 202 and 247), meant to clear flags, sets `INIT` as well, so each
save leaves the calendar standing until the next setting of the clock or reset (`StandsBySave`). Each call waits for `RSF` first, without a limit (lines
198 and 243), and in the initialization mode the hardware may clear `RSF` (`SyncWithdrawn`) and sets it only for a calendar that
runs (`Synchronized`). Whether it does clear it is the hardware's choice; if so, the next call waits for ever and keeps the tasks below from
running, and as every call waits first nobody can end it: that is `Hung`, the one exception of `CallsEnd` besides the setting that was hit. And for the same reason a setting of the clock that a save
interrupts does not wait for `INITF` in vain: the save has asked for it (`NobodyWaitsInVain`, which the mutant that
clears the flags only breaks). What does go wrong is in the properties as their exceptions: a setting on lwIP's thread that interrupts
`startupTSK`'s save closes the backup domain and tears the image (`cut`); the same setting that interrupts `settingTSK`'s lets it wait for ever
(`CallsEnd`); a save that
finds the calendar standing may wait for `RSF` for ever, at its priority (`Hung`, below); `startupTSK` may write an image it had serialized before a save of `systemTSK` (`stale`).

Assumed of the peripheral (external): DBP protects every register of the domain, WPR all but the backup registers, a reset clears DBP,
INIT and RSF, and the clock source is there (without it both functions return at once). An image is the sum of
the two numbers in it, both of which only grow, and its CRC tells a mixture.

### Registers, MCRegisters

`eMBRegHoldingCB`: a request finds its first parameter by the address and walks the table from there, one action per row, so
the addresses of the following rows play no part. `Rows` has per row the address, size, limits, default, step and kind. A row of one byte takes the low
byte of its register; a row of four bytes takes two registers, low half first, and half of it is refused; a write out of range ends the request
and leaves the rows before it changed; `getFwVer` overwrites what was written. `mac0` has eight bytes, for which the function has no case and a
buffer of four: reading it writes four bytes past that buffer into the stack frame of the walk
(`ReadsBehind`: the locals of the walk have any value afterwards, `spilt`, or the task stops, `halted`; what else a
compiler may have put there is not modelled, and `AnsweredAsStored` says nothing of such an answer), writing it takes what lies there
(`WritesFromBehind`), and neither moves on in the request's registers. `systemTSK` puts an address beyond `mac0`'s own limit into it, which is why `InRange`
leaves it out. The read-only marks of `parametres.txt` are not looked at by this function, and the model does not either.
The menu steps a value in two actions (`MenuLoads`, `MenuStores`), since a request may come between them; the
menu is of lower priority than the Modbus task and cannot come into a request. It steps measured values as well, whose items it does not let the user
change. The editors of the clock and of the addresses store a whole value without a look at its limits (`EditorStores`, the rows
of kind `edited`): `utcTime` leaves its limits with a clock before 2017 or a year after 2106, so `InRange` excepts these rows. `systemTSK` assigns measured
values in any state.

Abstractions: values are unsigned (the one signed parameter, the byte `timezone`, is shifted; its differences are computed as `int` and its step is 1,
so nothing wraps), a byte has `Byte` values, the value is loaded once per step of the menu.

## Runs

| Run | Question | Bounds |
|---|---|---|
| `fw_update` | Is the device always recoverable, does a clean upload commit, does it keep the promise of `Firmware`, does a start end in the committed image? | three images of two and three cells, two sectors of two cells |
| `firmware_short_overlay` | Does the image check stay inside the flash? It does not: two headers programmed over each other can hold a size below 8 | the same, with `ShortOverlay` |
| `sntp` | Does the client always have something pending, one chain, and set the clock? | two servers, three chains, two answers |
| `sntp_single_sync` | Does a single synchronisation end the requests? It does not when a late answer meets a lookup | the same |
| `settings` | Are tokens, saves, measurements and the charger's settings right, does a start find the last good save, and do saves end? | two chunks, two versions |
| `settings_save_report` | Is a save that reports success in the EEPROM? Not when `systemTSK` preempts `i2c_write` | the same |
| `settings_defaults` | Is running on defaults announced? Not when the read itself failed | the same |
| `meter` | Are all pulses of the last minute counted, nothing from before a clearing, and is a minute a minute? | two buckets, two ticks a second, six ticks between clearings |
| `meter_cpm` | Are the counts per minute at most those of the last minute? Not when a second is quiet | three buckets, one tick a second |
| `connections` | Is a netconn ever shared, used after it was freed or forgotten, is each request answered in turn, and when does each of the three tasks go on? | four netconns, one message in an accept box, one request under way per client |
| `backup` | When can the odometer's image be torn or old, when does a setting of the clock take effect, who leaves the calendar standing, which call may not return? | two words, two starts or pulses, a save for every pulse |
| `registers` | Do parameters keep their limits, does every register reach its row and no other? | six rows, one of each kind, a setting of four bytes and one of one, three registers, two values a byte |

Why the bounds are enough. Firmware: an image needs a header and a body, one image must be longer than another,
one cell of a body must be equal in two images, and an image must reach into a second sector,
which two sectors of two cells give; with three images a third may spoil the second's upload over a first in the main region. Sntp: one lookup beside one timer is the
overlap that matters, and three chains leave room for a second one; `MaxChains` and
`MaxAnswers` stand as guards in `sntp_recv` and `udp_sendto`, and the answer that sets the clock is never held back by
them. Settings: a save of two chunks can be torn between them; two versions are needed to tell a mixed image;
after `MaxVersion` edits the system goes on without further edits.
The EEPROM begins unusable or with a foreign image, so a first save and a second one over it are both there.
Meter: with two buckets one is being replaced while the other must be kept; `MaxAge` is a
minute and a second, so that buckets come round and the seconds reach `N`; `MaxLate` is a second and a half, more than a pass
waits for a dead charger.
Connections: the pool has its real size; with two netconns listening, two are left for clients and reports, which one message per
box and one client of each server exhaust in every order. The code makes three calls at the start;
`Setup` = 2 has the first and the last of them: two that fail to connect already empty the pool.
Backup: the image has three words; of two one is the first and one the last, between which a save can be cut; two counts make an old image, a newer one and the newest; with `Every` = 0 the pulse
after a start makes `systemTSK` save before, in and after `startupTSK`'s save. Registers: three registers cover a row of two and one before or behind
it, or reach over the row of eight bytes; the address 1 occurs twice, so that the search must find the first; the limits of
the row of four bytes cut its range on both sides. The safety
properties of all of them are proved for every size.

Deadlock is checked in every run except the two of `Sntp`, where the client is
meant to stop after the clock is set, `connections`, where a fault stops the processor, and `registers`, where reading
`mac0` may stop the task.

## Fairness

- `FirmwareUpdate`: weak fairness of `Boot` and of `xMBTCPPortInit`, because the processor executes
  whatever code it is in. Nothing is assumed of clients or of the network (`NetworkUp`), so a start is followed up to the wait for it. `BootRunsCommitted` is stated for
  executions in which resets other than the script's and failures of the flash end at some time.
- `Sntp`: weak fairness of the handlers (lwIP runs its timers and ends each lookup with a callback); strong
  fairness of a request that is really sent and of the correct answer, which say that the network and the memory
  do not refuse for ever what is tried again and again.
- `Settings`: weak fairness of the bus (the controller ends or drops each transfer), of `systemTSK`
  (highest priority), and strong fairness of the window task, which runs in the 200 ms for which `systemTSK` sleeps.
- `Connections`: weak fairness of each of the three tasks once it serves, whose calls return when there is something to return. Nothing is assumed of the network, for which both
  servers wait, of the lookup, of the minute between reports, of clients and of sites: what they must do is in the properties (`MastersLeave`, `BrowsersRead`, the premises of `RadmonGoesOn`).
- `Backup`: strong fairness of each task's steps in `rtc.c`, because those above it sleep most of the time; weak fairness of `Synchronized`, which a
  calendar that runs brings every two cycles of its clock. Nothing makes `RSF` come while the calendar stands.
- `Registers`: none, the module states no liveness: an overwritten stack frame may do anything to a walk.
- `Meter`: weak fairness of the tick and of `systemTSK`, the highest priority; `MinuteEnds` is stated for
  a meter that is in the end no longer cleared.

## Proofs

All theorems are checked by TLAPS for every value of the constants that meets the named
assumptions of the modules.

- `FirmwareUpdate_proofs`: `TypeCorrect`, `ImageSurvives`, `AlwaysRecoverable`, `CleanUploadIsCommitted`,
  `ImplementsFirmware`. Only `AlwaysRecoverable` needs `~ShortOverlay`: with it the run `firmware_short_overlay` shows how the bootloader faults,
  and `ImageSurvives` says what is true even then: one region has the overlaid header, and the other is whole.
  None of the properties is inductive. `IInv` adds to the types: `HeaderInv` (only two overlaid headers make a `Short` one),
  `BootInv` (what main and storage hold at each step of the bootloader: during erasing and programming the storage holds an
  image, and, if nothing has failed, the cells of main before `k` are blank or copied; the storage is erased only under a whole main region), `StoreInv` (what the
  storage holds during an upload if nothing has failed: the records so far if all arrived, and blank or the session's image elsewhere) and
  `OfferedInv` (only offered images are anywhere in the flash). `Outcomes` has one lemma (`OutcomeCells`): each cell is undone, done or torn, whether an operation failed or was cut. The refinement theorem shows that each action, `Reset` with
  all its interrupted states included, maps to a step of `Firmware` or a stutter.
- `Sntp_proofs`: `SntpTypeCorrect`, `NeverGivesUp`, `OneRequestUnderWay`. The strengthening is
  that the pcb is open exactly until the clock is set.
- `Settings_proofs`: `TypeCorrect`, `TokensAreTaken`, `SaveIsKept`, `AlarmNeedsMeeting`, `ChargerHoldsSettings`, `SavesAreFound`.
  The invariant has two halves. `Taken` holds whatever the tasks do to each other: a token, or a transfer that could give one, is
  there only for a task that waits, and a token is the last thing of a transfer. `SysAlone` and `UiAlone` hold while the two have not met: each is told the end of its own
  transfer and of no other, so that a reading is a reading, a chunk is stored and a setting is in the charger when the token comes. `SavesAreFound` adds `KeptWhole`, what is kept is in every chunk as long as no transfer of a save is
  on the bus, and that during the load of a start nobody has raised the flag and nothing but the load is on the bus: the window opens after it.
- `Meter_proofs`: `MeterTypeCorrect`; `NoPulseIsMissed`, with the strengthening that the current second has pulses only if `indexPrev` is its
  bucket (else the next pulse would empty it); `MinutesAreMinutes`, with the conservation law
  `seconds * T + late = age + ahead * T`; `BucketsWithinDose`, whose invariant follows a clearing: once it has emptied the dose only the buckets before
  its index are within the pulses counted since; and `CpmNeverTooLow`, whose invariant says that what is due of a pass is at most what it has
  added up and the buckets it has not reached together. None uses the bounds of the guards.
- `Connections_proofs`: `ConnectionsTypeCorrect`, `NoneIsShared`, `NoneIsForgotten`, `AnswersKeepTurn`, for any pool and any bounds. The invariant says that the nine
  places a netconn can be in are disjoint and cover the pool, that no accept box holds one twice, and which pointers each task has in each of
  its states. Every action moves one netconn from one place to another (`Moves`), and one lemma shows that such a move keeps the partition.
- `Backup_proofs`: `BackupTypeCorrect`, `ImageIsWhole`, `NewestIsKept`, `SettingIsTaken`, `NoWaitIsInVain`, `OnlySavesStop`. The core of the invariant is `Held`: a task
  that may run, has opened the protection and was not interrupted by another call has the peripheral as it left it. `Torn` and `Newest`
  say what the words hold while a save is under way: its own image up to the word it has come to.
- `Registers_proofs`: `RegistersTypeCorrect`, `LimitsAreKept`, `WritesReachTheirRows`, `AnswersMatchTheirRows`, `WrittenBackIsSame`, for every table. Besides types and limits
  the invariant says that the value the menu is about to store is
  within the limits, and that the registers left lie in the request. `RequestInOrder` adds where they lie: of a walk that did not spoil its locals, the registers of the rows it has passed are the first ones,
  row after row, each row that nobody else has assigned has the value of its own, and of a write the rest are those that are left. `RegistersAssumption` says of a
  table what that needs and `parametres.txt` fulfils: limits are values of the parameter's type (they are declared as such, `prmSystem.h` 63-101), and only
  `mac0`, which has no register, is beyond its own.
- `Sums`: what `SumFunctionOnSet` of the community modules computes for every finite set of natural numbers: any element may be taken first (`SumTakes`), so the order in which
  the fold takes them does not matter; a sum grows with its terms (`SumGrows`) and with its set (`SumOfPart`). `Meter_proofs` needs it for the sum over the buckets, `Registers_proofs` for the
  place of a row. The induction is over sets of numbers, closed under successor (`SetInduction`), since the provers cannot instantiate the library's
  theorems, which take a predicate.

Only model-checked: the liveness properties (`BootRunsCommitted`, `EventuallySynced`, `SaveReturns`, `MinuteEnds`, `BrowsersLetGo`, `MastersAreServed`, `RadmonGoesOn`,
`CallsEnd`), because the prover handles neither fairness nor `ENABLED`; and the five counterexamples. Every safety property and every action
property of a passing run is a theorem.

## Findings

`PROJECT.json` quotes the lines. (1) The image check reads past the flash when two headers were programmed over each other.
(2) After the single synchronisation the SNTP client can go on sending. (3) A settings save can report success although a chunk was never
stored. (4) A failed read of the settings leaves the defaults in force unannounced. (5) A bucket is emptied only by a pulse, so
seconds without one keep old pulses in the counts per minute.

## Plan

Done, in this order: the firmware update, the SNTP client, the settings with their bus, the meter, the network tasks, the clock with the backup
registers, the Modbus registers, the settings of the charger; then the theorems for every safety and action property of a passing run. What could still be proved:

1. The part of the liveness properties that needs no fairness: what decreases with every step of a walk, a pass, a save or a start, and that no other step increases it.
2. Under which condition the counts per minute are exact: each second of the window has had a pulse, and no whole minute was without one.

## Not modelled

- High-voltage control: one task reads a sample, filters it and drives the modulator. What it does over time depends on the converter and
  the tube, which the repository does not describe; a model of the integer arithmetic alone would check nothing about it.
- Window manager: only the window task asks for another window, as its last act, and only `systemTSK`, the task of highest priority, deletes and creates.
  Drawing, fonts and navigation are data; the flush waits for its own transfer.
- Keys: counters of one task, read by the window task; no other component depends on them.
- Log: a ring buffer between tasks and the UART; nothing depends on what is printed.
- LED, beeper, GPIO, clocks, random numbers, supply monitor: registers set once or by one caller.
- The Ethernet driver and third-party code (lwIP, FreeRTOS, freemodbus, CMSIS, IQmath): the models take it as their environment. `mbfuncholding.c`
  184-185 drops the high byte of the number of registers to read before it tests the limit, so `eMBRegHoldingCB` gets at most 125; the model gives it any
  number up to its bound.
