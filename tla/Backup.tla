-------------------------------- MODULE Backup --------------------------------
(***************************************************************************)
(* The clock and the backup registers of the RTC (rtc.c).  systemTSK saves *)
(* the odometer every so many pulses and startupTSK once after a start;    *)
(* the clock is set by the SNTP client on lwIP's thread and by settingTSK. *)
(* The tasks differ in priority, and nothing but the priority orders their *)
(* calls: each call opens the write protection for itself and closes it at *)
(* its end, for whoever it interrupted as well.                            *)
(*                                                                         *)
(* The peripheral is what rtc.c takes it for: a register keeps its value   *)
(* while it is protected, the protection by PWR_CR_DBP covers all of them  *)
(* and the one by RTC_WPR all but the backup registers, RTC_ISR_INIT stops *)
(* the calendar, and a reset clears DBP, INIT and RSF.  RTC_ISR_RSF is set *)
(* when the running calendar has been copied to RTC_TR and RTC_DR, and the *)
(* hardware may clear it in the initialization mode.  The CRC of an image  *)
(* tells an image that was written in parts.  The RTC has a clock source.  *)
(***************************************************************************)
EXTENDS Integers, FiniteSets

CONSTANTS
    Words,      \* the words of an image are 1..Words
    Every,      \* pulses between two saves
    MaxCount    \* bound: starts and pulses counted

ASSUME BackupAssumption ==
    /\ Words \in Nat \ {0}
    /\ Every \in Nat
    /\ MaxCount \in Nat

\* The window task is startupTSK first and settingTSK later.
Tasks == {"window", "tcpip", "system"}

\* Mutant: tasks of one priority that share the processor.
Above_none(t) == {}

Above(t) == CASE t = "window" -> {"tcpip", "system"}
              [] t = "tcpip" -> {"system"}
              [] t = "system" -> {}

VARIABLES
    dbp,        \* PWR_CR_DBP: the backup domain may be written
    unlocked,   \* RTC_WPR holds the key
    init,       \* RTC_ISR_INIT: the calendar stands
    rsf,        \* RTC_ISR_RSF: the calendar has been read out
    clock,      \* RTC_TR and RTC_DR: whose call in progress set them, or an older one
    words,      \* RTC_BKPxR: which image each word belongs to
    count,      \* odoPulseCount + startcnt: both only grow, so it tells images apart
    since,      \* systemTSK: odoPulseCount - odoPulseCountPrev
    stage,      \* how far the start has come
    call,       \* what each task does in rtc.c
    saved,      \* history: count in the last image systemTSK completed, or loaded
    cut,        \* history: the last image was cut short
    stale,      \* history: startupTSK was about to write an older image over saved
    standing    \* history: a save has set INIT, and nobody has cleared it since

vars == <<dbp, unlocked, init, rsf, clock, words, count, since, stage, call,
          saved, cut, stale, standing>>

registers == <<dbp, unlocked, init, rsf, clock, words>>
counters == <<count, since, stage>>
history == <<saved, cut, stale, standing>>

Idle == [at |-> "idle", job |-> "none", image |-> 0, word |-> 1, hit |-> "none"]

Busy(t) == call[t].at # "idle"

\* A task goes on when no task above it is in rtc.c: none of them blocks there.
Runs(t) == \A u \in Above(t) : ~Busy(u)

Saving == \E t \in Tasks : call[t].job = "save"

\* The call has opened the protection and not closed it yet.
Open(t) == call[t].at \notin {"idle", "serialize", "unlock"}

Goes(t, at) == call' = [call EXCEPT ![t].at = at]

-------------------------------------------------------------------------------
\* What is saved and set.

\* cntIntHandled.
Pulse ==
    /\ count < MaxCount                                     \* bound
    /\ count' = count + 1
    /\ since' = since + 1
    /\ UNCHANGED <<registers, stage, call, history>>

Begins(t, job, at) ==
    /\ ~Busy(t)
    /\ Runs(t)
    /\ call' = [call EXCEPT ![t] = [Idle EXCEPT !.at = at, !.job = job]]

\* systemTSK before its loop: pulses are counted already.
SystemStarts ==
    /\ stage = "loaded"
    /\ stage' = "loop"
    /\ since' = 0
    /\ UNCHANGED <<registers, count, call, history>>

\* systemTSK, once in every pass.
SystemSaves ==
    /\ stage # "loaded"
    /\ since > Every
    /\ since' = 0
    /\ Begins("system", "save", "serialize")
    /\ UNCHANGED <<registers, count, stage, history>>

\* startupTSK, once.
StartupSaves ==
    /\ stage = "loop"
    /\ stage' = "shown"
    /\ count < MaxCount                                     \* bound
    /\ count' = count + 1
    /\ Begins("window", "save", "serialize")
    /\ UNCHANGED <<registers, since, history>>

\* sntp_process on lwIP's thread, rtcUnselect in settingTSK.
SetsTime(t) ==
    /\ t = "window" => stage = "shown"
    /\ Begins(t, "set", "unlock")
    /\ UNCHANGED <<registers, counters, history>>

\* Prm::serialize.
Serialize(t) ==
    /\ Runs(t)
    /\ call[t].at = "serialize"
    /\ call' = [call EXCEPT ![t].at = "unlock", ![t].image = count]
    /\ UNCHANGED <<registers, counters, history>>

-------------------------------------------------------------------------------
\* rtc_backupWrite and rtc_setTime, register by register.

Unlock(t) ==
    /\ Runs(t)
    /\ call[t].at = "unlock"
    /\ Goes(t, "sync")
    /\ dbp' = TRUE
    /\ UNCHANGED <<unlocked, init, rsf, clock, words, counters, history>>

\* Without a limit, and without giving way to a task below.
SyncSeen(t) ==
    /\ Runs(t)
    /\ call[t].at = "sync"
    /\ rsf
    /\ Goes(t, "open")
    /\ UNCHANGED <<registers, counters, history>>

OpenWpr(t) ==
    /\ Runs(t)
    /\ call[t].at = "open"
    /\ Goes(t, "clear")
    /\ unlocked' = (dbp \/ unlocked)
    /\ UNCHANGED <<dbp, init, rsf, clock, words, counters, history>>

\* The calendar's registers take a value.
Writable == dbp /\ unlocked

\* Mutant: the flags only.
Cleared_flags_only == init

Cleared == Writable \/ init

\* RTC->ISR = 0xffffff: INIT is one of the bits, for a save as well.
ClearFlags(t) ==
    /\ Runs(t)
    /\ call[t].at = "clear"
    /\ Goes(t, IF call[t].job = "save" THEN "word" ELSE "request")
    /\ init' = Cleared
    /\ standing' = (standing \/ (call[t].job = "save" /\ Writable))
    /\ UNCHANGED <<dbp, unlocked, rsf, clock, words, counters, saved, cut, stale>>

\* Mutant: one word too many.
LastWord_passed(t) == call[t].word = Words + 1

\* Mutant: the last word is left out.
LastWord_missed(t) == Words = 1 \/ call[t].word = Words - 1

LastWord(t) == call[t].word = Words

WriteWord(t) ==
    /\ Runs(t)
    /\ call[t].at = "word"
    /\ words' = IF dbp THEN [words EXCEPT ![call[t].word] = call[t].image] ELSE words
    /\ call' = IF LastWord(t) THEN [call EXCEPT ![t].at = "protect"]
               ELSE [call EXCEPT ![t].word = @ + 1]
    /\ UNCHANGED <<dbp, unlocked, init, rsf, clock, counters, history>>

RequestInit(t) ==
    /\ Runs(t)
    /\ call[t].at = "request"
    /\ Goes(t, "wait")
    /\ init' = (Writable \/ init)
    /\ UNCHANGED <<dbp, unlocked, rsf, clock, words, counters, history>>

\* INITF follows INIT.
InitEntered(t) ==
    /\ Runs(t)
    /\ call[t].at = "wait"
    /\ init
    /\ Goes(t, "time")
    /\ UNCHANGED <<registers, counters, history>>

WriteTr(t) ==
    /\ Runs(t)
    /\ call[t].at = "time"
    /\ Goes(t, "date")
    /\ clock' = IF Writable THEN [clock EXCEPT !.tr = t] ELSE clock
    /\ UNCHANGED <<dbp, unlocked, init, rsf, words, counters, history>>

WriteDr(t) ==
    /\ Runs(t)
    /\ call[t].at = "date"
    /\ Goes(t, "leave")
    /\ clock' = IF Writable THEN [clock EXCEPT !.dr = t] ELSE clock
    /\ UNCHANGED <<dbp, unlocked, init, rsf, words, counters, history>>

\* Mutant: the initialization mode is left after the protection was closed.
Left_too_late == init

Left == init /\ ~Writable

LeaveInit(t) ==
    /\ Runs(t)
    /\ call[t].at = "leave"
    /\ Goes(t, "protect")
    /\ init' = Left
    /\ standing' = (standing /\ ~Writable)
    /\ UNCHANGED <<dbp, unlocked, rsf, clock, words, counters, saved, cut, stale>>

Protect(t) ==
    /\ Runs(t)
    /\ call[t].at = "protect"
    /\ Goes(t, "lock")
    /\ unlocked' = (unlocked /\ ~dbp)
    /\ UNCHANGED <<dbp, init, rsf, clock, words, counters, history>>

\* Closing the backup domain closes it for the calls below as well.
Lock(t) ==
    /\ Runs(t)
    /\ call[t].at = "lock"
    /\ dbp' = FALSE
    /\ call' = [u \in Tasks |-> IF u = t THEN Idle
                                ELSE IF Open(u) THEN [call[u] EXCEPT !.hit = call[t].job] ELSE call[u]]
    /\ saved' = IF t = "system" /\ call[t].job = "save" THEN call[t].image ELSE saved
    /\ cut' = IF call[t].job = "set" /\ call["window"].job = "save" /\ Open("window") /\ t # "window"
              THEN TRUE
              ELSE cut /\ ~(call[t].job = "save" /\ call[t].hit = "none")
    /\ stale' = IF t = "system" /\ call[t].job = "save"
                THEN call["window"].job = "save" /\ call["window"].at = "unlock"
                ELSE stale
    /\ clock' = [r \in {"tr", "dr"} |-> IF clock[r] = t THEN "older" ELSE clock[r]]
    /\ UNCHANGED <<unlocked, init, rsf, words, counters, standing>>

-------------------------------------------------------------------------------
\* The peripheral.

Synchronized ==
    /\ ~init
    /\ ~rsf
    /\ rsf' = TRUE
    /\ UNCHANGED <<dbp, unlocked, init, clock, words, counters, call, history>>

\* In the initialization mode, sooner or later: how soon is not taken for granted.
SyncWithdrawn ==
    /\ init
    /\ rsf
    /\ rsf' = FALSE
    /\ UNCHANGED <<dbp, unlocked, init, clock, words, counters, call, history>>

-------------------------------------------------------------------------------
Whole == \A i, j \in 1..Words : words[i] = words[j]

\* A reset at any moment; loadParameters takes the image or the defaults.
Reset ==
    /\ dbp' = FALSE
    /\ init' = FALSE
    /\ rsf' = FALSE
    /\ call' = [t \in Tasks |-> Idle]
    /\ count' = IF Whole THEN words[1] ELSE 0
    /\ saved' = count'
    /\ since' = 0
    /\ stage' = "loaded"
    /\ cut' = (cut \/ (Saving /\ ~Whole))
    /\ clock' = [r \in {"tr", "dr"} |-> "older"]
    /\ stale' = FALSE
    /\ standing' = FALSE
    /\ UNCHANGED <<unlocked, words>>

Init ==
    /\ dbp = FALSE
    /\ unlocked = FALSE
    /\ init = FALSE
    /\ rsf = FALSE
    /\ clock = [tr |-> "older", dr |-> "older"]
    /\ words = [i \in 1..Words |-> 0]
    /\ count = 0
    /\ since = 0
    /\ stage = "loaded"
    /\ call = [t \in Tasks |-> Idle]
    /\ saved = 0
    /\ cut = FALSE
    /\ stale = FALSE
    /\ standing = FALSE

Steps(t) ==
    \/ Serialize(t) \/ Unlock(t) \/ SyncSeen(t) \/ OpenWpr(t) \/ ClearFlags(t) \/ WriteWord(t)
    \/ RequestInit(t) \/ InitEntered(t) \/ WriteTr(t) \/ WriteDr(t) \/ LeaveInit(t)
    \/ Protect(t) \/ Lock(t)

Next ==
    \/ Pulse \/ SystemStarts \/ SystemSaves \/ StartupSaves \/ Reset
    \/ Synchronized \/ SyncWithdrawn
    \/ \E t \in {"window", "tcpip"} : SetsTime(t)
    \/ \E t \in Tasks : Steps(t)

\* A task in rtc.c goes on: it waits for nothing but the peripheral, and those above it
\* sleep most of the time.  A calendar that runs is read out every two cycles of its clock.
Fairness == WF_vars(Synchronized) /\ \A t \in Tasks : SF_vars(Steps(t))

Spec == Init /\ [][Next]_vars /\ Fairness
-------------------------------------------------------------------------------
\* Properties

Points == {"idle", "serialize", "unlock", "sync", "open", "clear", "word", "request", "wait", "time",
           "date", "leave", "protect", "lock"}

Images == 0..MaxCount

Calls == [at : Points, job : {"none", "save", "set"}, image : Images,
          word : 1..Words, hit : {"none", "save", "set"}]

TypeOK ==
    /\ dbp \in BOOLEAN /\ unlocked \in BOOLEAN /\ init \in BOOLEAN /\ rsf \in BOOLEAN
    /\ clock \in [tr : {"older", "window", "tcpip"}, dr : {"older", "window", "tcpip"}]
    /\ words \in [1..Words -> Images]
    /\ count \in 0..MaxCount /\ since \in 0..MaxCount
    /\ stage \in {"loaded", "loop", "shown"}
    /\ call \in [Tasks -> Calls]
    /\ saved \in 0..MaxCount
    /\ cut \in BOOLEAN
    /\ stale \in BOOLEAN
    /\ standing \in BOOLEAN

\* The image in the backup registers is whole whenever no task is saving, although a
\* save is interrupted in any place by a save of another task: only a reset in the middle
\* of a save or a setting of the clock that interrupted startupTSK's save leaves a torn
\* one, and the next complete save mends it.
TornOnlyIfCut == ~Whole => Saving \/ cut

\* What systemTSK saved last is not lost to an older image, but for the one startupTSK
\* had serialized and not begun to write.
NewestKept ==
    ~Saving /\ ~cut /\ ~stale => \A i \in 1..Words : words[i] >= saved

\* A setting of the clock that nobody interrupted takes effect as a whole, and the
\* calendar runs again after it, although a save leaves the calendar standing.
SettingTaken ==
    \A t \in Tasks :
        /\ Runs(t)
        /\ call[t].job = "set" /\ call[t].at \in {"protect", "lock"} /\ call[t].hit = "none"
        =>
            clock = [tr |-> t, dr |-> t] /\ ~init

\* No task waits for a calendar that was not asked to stop, unless a setting of a task
\* above it closed the protection: a save in between asks in its place.
NobodyWaitsInVain ==
    \A t \in Tasks : Runs(t) /\ call[t].at = "wait" /\ call[t].hit # "set" => init

\* A setting of the clock never leaves the calendar standing, whoever interrupts it: if it
\* stands and nobody is setting it, a save has stopped it and no setting came after.
StandsBySave ==
    init => \/ standing
            \/ \E t \in Tasks : call[t].at \in {"request", "wait", "time", "date", "leave"}

\* The device hangs: a task waits for RSF and keeps those below from running, the calendar
\* stands, and whoever could start it would have to wait for RSF as well.
Hung == init /\ ~rsf /\ \E t \in Tasks : Runs(t) /\ call[t].at = "sync"

\* Every call into rtc.c returns, whatever interrupts it, with two exceptions: a setting of
\* the clock from the menu that the SNTP client's interrupted, and a device that hangs
\* because INIT was set, by an earlier save or by the call that was interrupted.
CallsEnd ==
    \A t \in Tasks : Busy(t) ~> (~Busy(t) \/ Hung \/ (t = "window" /\ call[t].hit = "set"))
===============================================================================
