---------------------------- MODULE Backup_proofs ----------------------------
(***************************************************************************)
(* What the tasks in rtc.c can rely on, for every size of the image.  A    *)
(* task that runs and was not interrupted owns the peripheral: the         *)
(* protection is open, and all it wrote is still there (Held).  A task     *)
(* below can come to run again only by the end of a call above it, and     *)
(* that end marks it as hit: so Held is only claimed of tasks that run.    *)
(***************************************************************************)
EXTENDS Backup, TLAPS

\* What a call is for at each of its points.
JobsOK(t) ==
    /\ call[t].at = "idle" <=> call[t].job = "none"
    /\ call[t].at \in {"serialize", "word"} => call[t].job = "save"
    /\ call[t].at \in {"request", "wait", "time", "date", "leave"} => call[t].job = "set"
    /\ call[t].at \in {"serialize", "unlock", "sync", "open", "clear"} => call[t].word = 1
    /\ ~Open(t) => call[t].hit = "none"
    /\ t = "tcpip" => call[t].job # "save"
    /\ t = "system" => call[t].job # "set" /\ call[t].hit = "none"

Jobs == \A t \in Tasks : JobsOK(t)

\* The words the save of t wrote so far.
Written(t) ==
    IF call[t].at = "word" THEN {i \in 1..Words : i < call[t].word} ELSE 1..Words

\* The peripheral belongs to the save of t.
HeldSave(t) ==
    /\ call[t].at \notin {"sync", "open", "clear"} => init /\ standing
    /\ call[t].at \in {"word", "protect", "lock"} =>
          \A i \in Written(t) : words[i] = call[t].image

\* The peripheral belongs to the setting of t.
HeldSet(t) ==
    /\ call[t].at \in {"wait", "time", "date", "leave"} => init
    /\ call[t].at \in {"protect", "lock"} => ~init
    /\ call[t].at \in {"date", "leave", "protect", "lock"} => clock["tr"] = t
    /\ call[t].at \in {"leave", "protect", "lock"} => clock["dr"] = t

HeldBy(t) ==
    /\ call[t].hit = "none" =>
          /\ dbp
          /\ call[t].at \notin {"sync", "open", "lock"} => unlocked
          /\ call[t].job = "save" => HeldSave(t)
          /\ call[t].job = "set" => HeldSet(t)
    /\ call[t].hit # "none" => ~dbp /\ (init => standing)
    /\ call[t].hit = "save" => init

Held == \A t \in Tasks : Runs(t) /\ Open(t) => HeldBy(t)

\* A save is among its words and nothing has closed the protection.
Writing == \/ call["system"].at = "word"
           \/ call["window"].at = "word" /\ call["window"].hit = "none"

Torn == Whole \/ cut \/ Writing

\* Images only grow.
Newest ==
    /\ saved <= count
    /\ since <= count
    /\ call["system"].job = "save" /\ call["system"].at # "serialize" =>
          call["system"].image \in saved..count
    /\ /\ call["window"].job = "save" /\ call["window"].at # "serialize"
       /\ call["window"].hit = "none" /\ ~stale
       => call["window"].image >= saved
    /\ cut \/ stale \/ Writing \/ \A i \in 1..Words : words[i] >= saved

Inv == TypeOK /\ Jobs /\ Held /\ Torn /\ Newest /\ StandsBySave

-------------------------------------------------------------------------------
LEMMA CallFields ==
    ASSUME NEW c \in Calls
    PROVE  /\ \A at \in Points : [c EXCEPT !.at = at] \in Calls
           /\ \A at \in Points, n \in Images : [c EXCEPT !.at = at, !.image = n] \in Calls
           /\ \A w \in 1..Words : [c EXCEPT !.word = w] \in Calls
           /\ \A h \in {"none", "save", "set"} : [c EXCEPT !.hit = h] \in Calls
  BY DEF Calls

LEMMA IdleCall == Idle \in Calls
  BY BackupAssumption DEF Idle, Calls, Points, Images

LEMMA StartedCall ==
    \A at \in Points, job \in {"save", "set"} : [Idle EXCEPT !.at = at, !.job = job] \in Calls
  BY IdleCall DEF Calls

\* At most one task in rtc.c runs.
LEMMA OneRuns ==
    ASSUME NEW t \in Tasks, NEW u \in Tasks, Runs(t), Runs(u), Busy(t), Busy(u)
    PROVE  t = u
  BY DEF Tasks, Runs, Above

LEMMA InitInv == Init => Inv
<1> SUFFICES ASSUME Init PROVE Inv
  OBVIOUS
<1> USE BackupAssumption DEF Init, Tasks
<1>1. TypeOK
  <2>1. call \in [Tasks -> Calls]
    BY IdleCall
  <2>2. words \in [1..Words -> Images]
    BY DEF Images
  <2>3. clock \in [tr : {"older", "window", "tcpip"}, dr : {"older", "window", "tcpip"}]
    OBVIOUS
  <2>4. /\ dbp \in BOOLEAN /\ unlocked \in BOOLEAN /\ init \in BOOLEAN
        /\ cut \in BOOLEAN /\ stale \in BOOLEAN /\ rsf \in BOOLEAN /\ standing \in BOOLEAN
        /\ count = 0 /\ since = 0 /\ saved = 0 /\ stage = "loaded"
    OBVIOUS
  <2> HIDE DEF Init
  <2> QED
    BY <2>1, <2>2, <2>3, <2>4 DEF TypeOK
<1>2. Jobs /\ Held
  BY DEF Jobs, JobsOK, Held, Open, Idle
<1>3. Torn /\ Newest /\ StandsBySave
  BY DEF Torn, Newest, Whole, Idle, StandsBySave
<1> QED
  BY <1>1, <1>2, <1>3 DEF Inv

LEMMA SerializeKeeps == ASSUME NEW t \in Tasks, Inv, Serialize(t) PROVE Inv'
<1> USE BackupAssumption DEF Inv, Tasks, Serialize, Goes, registers, counters, history
<1>1. TypeOK'
  <2>1. call' \in [Tasks -> Calls]
    BY CallFields, IdleCall DEF TypeOK, Points, Images
  <2> QED
    BY <2>1 DEF TypeOK, Images
<1>2. Jobs'
  <2>1. /\ call'[t] = [call[t] EXCEPT !.at = "unlock", !.image = count]
        /\ \A u \in Tasks \ {t} : call'[u] = call[u]
    BY DEF TypeOK
  <2> QED
    BY <2>1 DEF TypeOK, Calls, Jobs, JobsOK, Open
<1>3. Held'
  <2>1. /\ call'[t] = [call[t] EXCEPT !.at = "unlock", !.image = count]
        /\ \A u \in Tasks \ {t} : call'[u] = call[u]
    BY DEF TypeOK
  <2>2. \A u \in Tasks : /\ Busy(u)' <=> Busy(u)
                         /\ Open(u)' <=> Open(u)
                         /\ Open(u) => call'[u] = call[u]
    BY <2>1 DEF TypeOK, Calls, Busy, Open
  <2>3. \A u \in Tasks : Runs(u)' <=> Runs(u)
    BY <2>2 DEF Runs, Above
  <2> SUFFICES ASSUME NEW u \in Tasks, Runs(u)', Open(u)' PROVE HeldBy(u)'
    BY DEF Held
  <2>4. HeldBy(u) /\ call'[u] = call[u]
    BY <2>2, <2>3 DEF Held
  <2> QED
    BY <2>4 DEF HeldBy, HeldSave, HeldSet, Written
<1>4. Torn'
  BY SMTT(30) DEF TypeOK, Calls, Points, Jobs, JobsOK, Torn, Writing, Whole
<1>5. Newest'
  BY SMTT(30) DEF TypeOK, Calls, Points, Jobs, JobsOK, Newest, Writing
<1>6. StandsBySave'
  BY DEF TypeOK, Calls, Points, Jobs, JobsOK, StandsBySave
<1> QED
  BY <1>1, <1>2, <1>3, <1>4, <1>5, <1>6

LEMMA UnlockKeeps == ASSUME NEW t \in Tasks, Inv, Unlock(t) PROVE Inv'
<1> USE BackupAssumption DEF Inv, Tasks, Unlock, Goes, registers, counters, history
<1>1. TypeOK'
  <2>1. call' \in [Tasks -> Calls]
    BY CallFields, IdleCall DEF TypeOK, Points, Images
  <2> QED
    BY <2>1 DEF TypeOK, Images
<1>2. Jobs'
  BY DEF TypeOK, Calls, Points, Jobs, JobsOK, Open
<1>3. Held'
  BY DEF TypeOK, Calls, Points, Jobs, JobsOK, Held, HeldBy, HeldSave, HeldSet, Written, Runs, Above, Busy, Open
<1>4. Torn'
  BY DEF TypeOK, Calls, Points, Jobs, JobsOK, Torn, Writing, Whole
<1>5. Newest'
  BY DEF TypeOK, Calls, Points, Jobs, JobsOK, Newest, Writing
<1>6. StandsBySave'
  BY DEF TypeOK, Calls, Points, Jobs, JobsOK, StandsBySave
<1> QED
  BY <1>1, <1>2, <1>3, <1>4, <1>5, <1>6

LEMMA SyncSeenKeeps == ASSUME NEW t \in Tasks, Inv, SyncSeen(t) PROVE Inv'
<1> USE BackupAssumption DEF Inv, Tasks, SyncSeen, Goes, registers, counters, history
<1>1. TypeOK'
  <2>1. call' \in [Tasks -> Calls]
    BY CallFields, IdleCall DEF TypeOK, Points, Images
  <2> QED
    BY <2>1 DEF TypeOK, Images
<1>2. Jobs'
  BY DEF TypeOK, Calls, Points, Jobs, JobsOK, Open
<1>3. Held'
  BY DEF TypeOK, Calls, Points, Jobs, JobsOK, Held, HeldBy, HeldSave, HeldSet, Written, Runs, Above, Busy, Open
<1>4. Torn'
  BY DEF TypeOK, Calls, Points, Jobs, JobsOK, Torn, Writing, Whole
<1>5. Newest'
  BY DEF TypeOK, Calls, Points, Jobs, JobsOK, Newest, Writing
<1>6. StandsBySave'
  BY DEF TypeOK, Calls, Points, Jobs, JobsOK, StandsBySave
<1> QED
  BY <1>1, <1>2, <1>3, <1>4, <1>5, <1>6

LEMMA OpenWprKeeps == ASSUME NEW t \in Tasks, Inv, OpenWpr(t) PROVE Inv'
<1> USE BackupAssumption DEF Inv, Tasks, OpenWpr, Goes, registers, counters, history
<1>1. TypeOK'
  <2>1. call' \in [Tasks -> Calls]
    BY CallFields, IdleCall DEF TypeOK, Points, Images
  <2> QED
    BY <2>1 DEF TypeOK, Images
<1>2. Jobs'
  BY DEF TypeOK, Calls, Points, Jobs, JobsOK, Open
<1>3. Held'
  BY DEF TypeOK, Calls, Points, Jobs, JobsOK, Held, HeldBy, HeldSave, HeldSet, Written, Runs, Above, Busy, Open
<1>4. Torn'
  BY DEF TypeOK, Calls, Points, Jobs, JobsOK, Torn, Writing, Whole
<1>5. Newest'
  BY DEF TypeOK, Calls, Points, Jobs, JobsOK, Newest, Writing
<1>6. StandsBySave'
  BY DEF TypeOK, Calls, Points, Jobs, JobsOK, StandsBySave
<1> QED
  BY <1>1, <1>2, <1>3, <1>4, <1>5, <1>6

LEMMA ClearFlagsKeeps == ASSUME NEW t \in Tasks, Inv, ClearFlags(t) PROVE Inv'
<1> USE BackupAssumption DEF Inv, Tasks, ClearFlags, Cleared, Writable, Goes, registers, counters, history
<1>1. TypeOK'
  <2>1. call' \in [Tasks -> Calls]
    BY CallFields, IdleCall DEF TypeOK, Points, Images
  <2> QED
    BY <2>1 DEF TypeOK, Images
<1>2. Jobs'
  BY DEF TypeOK, Calls, Points, Jobs, JobsOK, Open
<1>3. Held'
  BY DEF TypeOK, Calls, Points, Jobs, JobsOK, Held, HeldBy, HeldSave, HeldSet, Written, Runs, Above, Busy, Open
<1>4. Torn'
  BY DEF TypeOK, Calls, Points, Jobs, JobsOK, Torn, Writing, Whole
<1>5. Newest'
  BY DEF TypeOK, Calls, Points, Jobs, JobsOK, Newest, Writing
<1>6. StandsBySave'
  BY DEF TypeOK, Calls, Points, Jobs, JobsOK, StandsBySave
<1> QED
  BY <1>1, <1>2, <1>3, <1>4, <1>5, <1>6

LEMMA WriteWordKeeps == ASSUME NEW t \in Tasks, Inv, WriteWord(t) PROVE Inv'
<1> USE BackupAssumption DEF Inv
<1> DEFINE c == call[t]
           last == c.word = Words
<1>1. /\ Runs(t) /\ c.at = "word" /\ c \in Calls
      /\ UNCHANGED <<dbp, unlocked, init, rsf, clock, count, since, stage, saved, cut, stale,
                     standing>>
  BY DEF WriteWord, TypeOK, counters, history
<1>2. /\ call'[t] = IF last THEN [c EXCEPT !.at = "protect"] ELSE [c EXCEPT !.word = @ + 1]
      /\ \A u \in Tasks \ {t} : call'[u] = call[u]
  BY DEF WriteWord, LastWord, TypeOK
<1>3. /\ c.job = "save" /\ t # "tcpip"
      /\ c.hit = "none" => dbp /\ init /\ unlocked
      /\ c.hit = "none" => \A i \in 1..Words : i < c.word => words[i] = c.image
      /\ c.hit # "none" => ~dbp /\ (init => standing)
      /\ c.hit = "none" => standing
      /\ c.hit = "save" => init
  BY <1>1 DEF Jobs, JobsOK, Held, HeldBy, HeldSave, Written, Open
<1>4. /\ c.hit = "none" => \A i \in 1..Words : words'[i] = IF i = c.word THEN c.image ELSE words[i]
      /\ c.hit # "none" => words' = words
  BY <1>1, <1>3 DEF WriteWord, TypeOK, Calls
<1>5. TypeOK'
  <2>1. /\ [c EXCEPT !.at = "protect"] \in Calls
        /\ ~last => [c EXCEPT !.word = @ + 1] \in Calls
    BY <1>1 DEF Calls, Points
  <2>2. call' \in [Tasks -> Calls]
    BY <1>1, <2>1 DEF WriteWord, LastWord, TypeOK
  <2>3. words' \in [1..Words -> Images]
    BY <1>1 DEF WriteWord, TypeOK, Calls
  <2> QED
    BY <1>1, <2>2, <2>3 DEF TypeOK
<1>6. Jobs'
  BY <1>1, <1>2, <1>3 DEF Jobs, JobsOK, Open, Calls
<1>7. Held'
  <2> SUFFICES ASSUME NEW u \in Tasks, Runs(u)', Open(u)' PROVE HeldBy(u)'
    BY DEF Held
  <2>1. Busy(t) /\ Runs(u) /\ Busy(u)
    BY <1>1, <1>2 DEF Calls, Busy, Runs, Above, Open, Tasks
  <2>2. u = t
    BY <1>1, <2>1, OneRuns
  <2>3. call'[t].image = c.image /\ call'[t].hit = c.hit /\ call'[t].job = c.job
    BY <1>1, <1>2 DEF Calls
  <2>4. CASE last
    <3>1. call'[t].at = "protect"
      BY <1>1, <1>2, <2>4 DEF Calls
    <3>2. c.hit = "none" => \A i \in 1..Words : words'[i] = c.image
      BY <1>1, <1>3, <1>4, <2>4 DEF Calls
    <3> QED
      BY <1>1, <1>3, <2>2, <2>3, <3>1, <3>2 DEF HeldBy, HeldSave, Written
  <2>5. CASE ~last
    <3>1. call'[t].at = "word" /\ call'[t].word = c.word + 1
      BY <1>1, <1>2, <2>5 DEF Calls
    <3>2. c.hit = "none" => \A i \in 1..Words : i < c.word + 1 => words'[i] = c.image
      BY <1>1, <1>3, <1>4 DEF Calls
    <3> QED
      BY <1>1, <1>3, <2>2, <2>3, <3>1, <3>2 DEF HeldBy, HeldSave, Written
  <2> QED
    BY <2>4, <2>5
<1>8. \A u \in Tasks : /\ call'[u].job = call[u].job /\ call'[u].image = call[u].image
                       /\ call'[u].hit = call[u].hit
                       /\ call'[u].at = "serialize" <=> call[u].at = "serialize"
  BY <1>1, <1>2 DEF Calls
<1>9. c.hit # "none" => words' = words /\ (Writing' <=> Writing)
  <2>1. c.hit # "none" => t = "window"
    BY <1>3 DEF Jobs, JobsOK, Tasks
  <2> QED
    BY <1>2, <1>4, <1>8, <2>1 DEF Writing, Tasks
<1>10. c.hit = "none" /\ ~Writing' => \A i \in 1..Words : words'[i] = c.image
  <2>1. c.hit = "none" /\ ~last => Writing'
    <3>1. ~last => call'[t].at = "word"
      BY <1>1, <1>2 DEF Calls
    <3> QED
      BY <1>3, <1>8, <3>1 DEF Writing, Tasks
  <2> QED
    BY <1>1, <1>3, <1>4, <2>1 DEF Calls
<1>11. Torn'
  BY <1>1, <1>9, <1>10 DEF Torn, Whole
<1>12. Newest'
  <2>1. c.hit = "none" /\ ~stale => c.image >= saved
    BY <1>1, <1>3 DEF Newest, Tasks
  <2> QED
    BY <1>1, <1>8, <1>9, <1>10, <2>1 DEF Newest, Tasks
<1>13. StandsBySave'
  <2>1. \A u \in Tasks : call[u].at \in {"request", "wait", "time", "date", "leave"} => u # t
    BY <1>1
  <2> QED
    BY <1>1, <1>2, <2>1 DEF StandsBySave
<1> QED
  BY <1>5, <1>6, <1>7, <1>11, <1>12, <1>13

LEMMA RequestInitKeeps == ASSUME NEW t \in Tasks, Inv, RequestInit(t) PROVE Inv'
<1> USE BackupAssumption DEF Inv, Tasks, RequestInit, Writable, Goes, registers, counters, history
<1>1. TypeOK'
  <2>1. call' \in [Tasks -> Calls]
    BY CallFields, IdleCall DEF TypeOK, Points, Images
  <2> QED
    BY <2>1 DEF TypeOK, Images
<1>2. Jobs'
  BY DEF TypeOK, Calls, Points, Jobs, JobsOK, Open
<1>3. Held'
  BY DEF TypeOK, Calls, Points, Jobs, JobsOK, Held, HeldBy, HeldSave, HeldSet, Written, Runs, Above, Busy, Open
<1>4. Torn'
  BY DEF TypeOK, Calls, Points, Jobs, JobsOK, Torn, Writing, Whole
<1>5. Newest'
  BY DEF TypeOK, Calls, Points, Jobs, JobsOK, Newest, Writing
<1>6. StandsBySave'
  BY DEF TypeOK, Calls, Points, Jobs, JobsOK, StandsBySave
<1> QED
  BY <1>1, <1>2, <1>3, <1>4, <1>5, <1>6

LEMMA InitEnteredKeeps == ASSUME NEW t \in Tasks, Inv, InitEntered(t) PROVE Inv'
<1> USE BackupAssumption DEF Inv, Tasks, InitEntered, Goes, registers, counters, history
<1>1. TypeOK'
  <2>1. call' \in [Tasks -> Calls]
    BY CallFields, IdleCall DEF TypeOK, Points, Images
  <2> QED
    BY <2>1 DEF TypeOK, Images
<1>2. Jobs'
  BY DEF TypeOK, Calls, Points, Jobs, JobsOK, Open
<1>3. Held'
  BY DEF TypeOK, Calls, Points, Jobs, JobsOK, Held, HeldBy, HeldSave, HeldSet, Written, Runs, Above, Busy, Open
<1>4. Torn'
  BY DEF TypeOK, Calls, Points, Jobs, JobsOK, Torn, Writing, Whole
<1>5. Newest'
  BY DEF TypeOK, Calls, Points, Jobs, JobsOK, Newest, Writing
<1>6. StandsBySave'
  BY DEF TypeOK, Calls, Points, Jobs, JobsOK, StandsBySave
<1> QED
  BY <1>1, <1>2, <1>3, <1>4, <1>5, <1>6

LEMMA WriteTrKeeps == ASSUME NEW t \in Tasks, Inv, WriteTr(t) PROVE Inv'
<1> USE BackupAssumption DEF Inv, Tasks, WriteTr, Writable, Goes, registers, counters, history
<1>1. TypeOK'
  <2>1. call' \in [Tasks -> Calls]
    BY CallFields, IdleCall DEF TypeOK, Points, Images
  <2>2. clock' \in [tr : {"older", "window", "tcpip"}, dr : {"older", "window", "tcpip"}]
    BY DEF TypeOK, Jobs, JobsOK
  <2> QED
    BY <2>1, <2>2 DEF TypeOK
<1>2. Jobs'
  BY DEF TypeOK, Calls, Points, Jobs, JobsOK, Open
<1>3. Held'
  BY DEF TypeOK, Calls, Points, Jobs, JobsOK, Held, HeldBy, HeldSave, HeldSet, Written, Runs, Above, Busy, Open
<1>4. Torn'
  BY DEF TypeOK, Calls, Points, Jobs, JobsOK, Torn, Writing, Whole
<1>5. Newest'
  BY DEF TypeOK, Calls, Points, Jobs, JobsOK, Newest, Writing
<1>6. StandsBySave'
  BY DEF TypeOK, Calls, Points, Jobs, JobsOK, StandsBySave
<1> QED
  BY <1>1, <1>2, <1>3, <1>4, <1>5, <1>6

LEMMA WriteDrKeeps == ASSUME NEW t \in Tasks, Inv, WriteDr(t) PROVE Inv'
<1> USE BackupAssumption DEF Inv, Tasks, WriteDr, Writable, Goes, registers, counters, history
<1>1. TypeOK'
  <2>1. call' \in [Tasks -> Calls]
    BY CallFields, IdleCall DEF TypeOK, Points, Images
  <2>2. clock' \in [tr : {"older", "window", "tcpip"}, dr : {"older", "window", "tcpip"}]
    BY DEF TypeOK, Jobs, JobsOK
  <2> QED
    BY <2>1, <2>2 DEF TypeOK
<1>2. Jobs'
  BY DEF TypeOK, Calls, Points, Jobs, JobsOK, Open
<1>3. Held'
  BY DEF TypeOK, Calls, Points, Jobs, JobsOK, Held, HeldBy, HeldSave, HeldSet, Written, Runs, Above, Busy, Open
<1>4. Torn'
  BY DEF TypeOK, Calls, Points, Jobs, JobsOK, Torn, Writing, Whole
<1>5. Newest'
  BY DEF TypeOK, Calls, Points, Jobs, JobsOK, Newest, Writing
<1>6. StandsBySave'
  BY DEF TypeOK, Calls, Points, Jobs, JobsOK, StandsBySave
<1> QED
  BY <1>1, <1>2, <1>3, <1>4, <1>5, <1>6

LEMMA LeaveInitKeeps == ASSUME NEW t \in Tasks, Inv, LeaveInit(t) PROVE Inv'
<1> USE BackupAssumption DEF Inv, Tasks, LeaveInit, Left, Writable, Goes, registers, counters, history
<1>1. TypeOK'
  <2>1. call' \in [Tasks -> Calls]
    BY CallFields, IdleCall DEF TypeOK, Points, Images
  <2> QED
    BY <2>1 DEF TypeOK, Images
<1>2. Jobs'
  BY DEF TypeOK, Calls, Points, Jobs, JobsOK, Open
<1>3. Held'
  <2> SUFFICES ASSUME NEW u \in Tasks, Runs(u)', Open(u)' PROVE HeldBy(u)'
    BY DEF Held
  <2>1. Busy(t) /\ Runs(u) /\ Busy(u)
    BY DEF TypeOK, Calls, Busy, Runs, Above, Open
  <2>2. u = t
    BY <2>1, OneRuns, SMTT(30)
  <2>3. Open(t) /\ HeldBy(t)
    BY DEF Held, Open
  <2>4. call'[t] = [call[t] EXCEPT !.at = "protect"]
    BY DEF TypeOK
  <2>5. call'[t].at = "protect" /\ call'[t].job = "set" /\ call'[t].hit = call[t].hit
    BY <2>4 DEF TypeOK, Calls, Jobs, JobsOK
  <2>6. CASE call[t].hit = "none"
    BY <2>2, <2>3, <2>5, <2>6 DEF TypeOK, Jobs, JobsOK, HeldBy, HeldSet
  <2>7. CASE call[t].hit # "none"
    BY <2>2, <2>3, <2>5, <2>7 DEF TypeOK, HeldBy
  <2> QED
    BY <2>6, <2>7
<1>4. Torn'
  BY DEF TypeOK, Calls, Points, Jobs, JobsOK, Torn, Writing, Whole
<1>5. Newest'
  BY DEF TypeOK, Calls, Points, Jobs, JobsOK, Newest, Writing
<1>6. StandsBySave'
  <2>1. Open(t) /\ HeldBy(t)
    BY DEF Held, Open
  <2>2. call[t].hit = "none" => Writable
    BY <2>1 DEF HeldBy
  <2>3. CASE Writable
    BY <2>3 DEF StandsBySave
  <2>4. CASE ~Writable
    BY <2>1, <2>2, <2>4 DEF HeldBy, StandsBySave
  <2> QED
    BY <2>3, <2>4
<1> QED
  BY <1>1, <1>2, <1>3, <1>4, <1>5, <1>6

LEMMA ProtectKeeps == ASSUME NEW t \in Tasks, Inv, Protect(t) PROVE Inv'
<1> USE BackupAssumption DEF Inv, Tasks, Protect, Goes, registers, counters, history
<1>1. TypeOK'
  <2>1. call' \in [Tasks -> Calls]
    BY CallFields, IdleCall DEF TypeOK, Points, Images
  <2> QED
    BY <2>1 DEF TypeOK, Images
<1>2. Jobs'
  BY DEF TypeOK, Calls, Points, Jobs, JobsOK, Open
<1>3. Held'
  BY DEF TypeOK, Calls, Points, Jobs, JobsOK, Held, HeldBy, HeldSave, HeldSet, Written, Runs, Above, Busy, Open
<1>4. Torn'
  BY DEF TypeOK, Calls, Points, Jobs, JobsOK, Torn, Writing, Whole
<1>5. Newest'
  BY DEF TypeOK, Calls, Points, Jobs, JobsOK, Newest, Writing
<1>6. StandsBySave'
  BY DEF TypeOK, Calls, Points, Jobs, JobsOK, StandsBySave
<1> QED
  BY <1>1, <1>2, <1>3, <1>4, <1>5, <1>6

LEMMA LockKeeps == ASSUME NEW t \in Tasks, Inv, Lock(t) PROVE Inv'
<1> USE BackupAssumption DEF Inv
<1> DEFINE c == call[t]
<1>1. /\ Runs(t) /\ c.at = "lock" /\ c \in Calls /\ Open(t) /\ Busy(t)
      /\ c.job \in {"save", "set"}
      /\ dbp' = FALSE
      /\ UNCHANGED <<unlocked, init, rsf, words, count, since, stage, standing>>
  BY DEF Lock, TypeOK, counters, Open, Busy, Calls, Jobs, JobsOK
<1>2. call'[t] = Idle
  BY DEF Lock
<1>3. \A u \in Tasks \ {t} :
          /\ call[u] \in Calls /\ call'[u] \in Calls
          /\ call'[u] = IF Open(u) THEN [call[u] EXCEPT !.hit = c.job] ELSE call[u]
  BY <1>1, CallFields DEF Lock, TypeOK
<1>4. \A u \in Tasks \ {t} :
          /\ call'[u].at = call[u].at /\ call'[u].job = call[u].job
          /\ call'[u].image = call[u].image /\ call'[u].word = call[u].word
          /\ call'[u].hit = IF Open(u) THEN c.job ELSE call[u].hit
  BY <1>3, ZenonT(30) DEF Calls
<1>5. Idle.at = "idle" /\ Idle.job = "none" /\ Idle.hit = "none" /\ Idle.word = 1
  BY DEF Idle
<1>6. c.hit = "none" => /\ dbp
                        /\ c.job = "save" => init /\ \A i \in 1..Words : words[i] = c.image
  BY <1>1 DEF Held, HeldBy, HeldSave, Written
<1>7. /\ c.job = "save" => t # "tcpip"
      /\ t = "system" => c.hit = "none" /\ c.job = "save"
  BY <1>1 DEF Jobs, JobsOK
<1>8. \A u \in Tasks \ {t} : Open(u) => t \in Above(u) /\ u # "system" /\ t # "window"
  BY <1>1 DEF Tasks, Runs, Above, Busy, Open
<1>9. TypeOK'
  <2>1. call' \in [Tasks -> Calls]
    BY <1>2, <1>3, IdleCall DEF Lock, TypeOK
  <2>2. clock' \in [tr : {"older", "window", "tcpip"}, dr : {"older", "window", "tcpip"}]
    BY DEF Lock, TypeOK
  <2>3. saved' \in 0..MaxCount /\ cut' \in BOOLEAN /\ stale' \in BOOLEAN
    BY <1>1 DEF Lock, TypeOK, Calls, Images
  <2> QED
    BY <1>1, <2>1, <2>2, <2>3 DEF TypeOK
<1>10. Jobs'
  BY <1>1, <1>2, <1>4, <1>5, <1>8 DEF Jobs, JobsOK, Open
<1>11. Held'
  <2>0. init => standing
    <3>1. HeldBy(t)
      BY <1>1 DEF Held
    <3> QED
      BY <1>1, <3>1 DEF HeldBy, HeldSave, HeldSet
  <2> SUFFICES ASSUME NEW u \in Tasks, Runs(u)', Open(u)' PROVE HeldBy(u)'
    BY DEF Held
  <2>1. u # t /\ Open(u) /\ call'[u].hit = c.job
    BY <1>2, <1>4, <1>5 DEF Open
  <2>2. c.job = "save" => init
    BY <1>6, <1>7, <1>8, <2>1 DEF Tasks
  <2> QED
    BY <1>1, <2>0, <2>1, <2>2 DEF HeldBy
<1>12. ~Writing \/ cut' \/ t = "system"
  <2>1. t # "system" => call["system"].at # "word"
    BY <1>1, <1>8 DEF Tasks, Open
  <2>2. t = "window" => ~Writing
    BY <1>1, <2>1 DEF Writing
  <2>3. t = "tcpip" /\ Writing => cut'
    <3>1. t = "tcpip" /\ Writing => call["window"].job = "save" /\ Open("window")
      BY <2>1 DEF Writing, Jobs, JobsOK, Open, Tasks
    <3> QED
      BY <1>1, <1>7, <3>1 DEF Lock
  <2> QED
    BY <2>2, <2>3 DEF Tasks
<1>13. cut' \/ ~cut \/ (c.job = "save" /\ c.hit = "none")
  BY DEF Lock
<1>14. c.job = "save" /\ c.hit = "none" => Whole
  BY <1>6 DEF Whole
<1>15. Torn'
  BY <1>1, <1>7, <1>12, <1>13, <1>14 DEF Torn, Whole, Writing
<1>16. saved' = (IF t = "system" THEN c.image ELSE saved) /\ (t # "system" => stale' = stale)
  BY <1>7 DEF Lock, Tasks, Jobs, JobsOK
<1>17. c.hit = "none" /\ c.job = "save" /\ (t = "window" => ~stale) =>
          \A i \in 1..Words : words[i] >= saved'
  BY <1>1, <1>6, <1>7, <1>16 DEF Newest, Tasks, TypeOK, Calls, Images
<1>18. call'["window"].job = "save" /\ call'["window"].at # "serialize"
       /\ call'["window"].hit = "none" /\ ~stale' => call'["window"].image >= saved'
  <2> SUFFICES ASSUME call'["window"].job = "save", call'["window"].at # "serialize",
                      call'["window"].hit = "none", ~stale'
               PROVE  call'["window"].image >= saved'
    OBVIOUS
  <2>1. /\ t # "window" /\ ~Open("window") /\ call["window"].job = "save"
        /\ call["window"].at # "serialize" /\ call["window"].hit = "none"
        /\ call'["window"].image = call["window"].image
    BY <1>1, <1>2, <1>4, <1>5 DEF Tasks
  <2>2. call["window"].at = "unlock"
    BY <2>1 DEF Jobs, JobsOK, Open, Tasks
  <2>3. t # "system"
    BY <1>7, <2>1, <2>2 DEF Lock
  <2> QED
    BY <1>16, <2>1, <2>3 DEF Newest
<1>19. Newest'
  <2>1. saved' <= count' /\ since' <= count'
    BY <1>1, <1>7, <1>16 DEF Newest
  <2>2. call'["system"].job = "none"
    BY <1>1, <1>2, <1>4, <1>5, <1>8 DEF Tasks, Runs, Above, Busy, Jobs, JobsOK
  <2>3. cut' \/ stale' \/ Writing' \/ \A i \in 1..Words : words'[i] >= saved'
    <3>1. CASE t = "system"
      BY <1>1, <1>7, <1>17, <3>1
    <3>2. CASE t # "system"
      BY <1>1, <1>12, <1>13, <1>16, <1>17, <3>2 DEF Newest
    <3> QED
      BY <3>1, <3>2
  <2> QED
    BY <1>18, <2>1, <2>2, <2>3 DEF Newest
<1>20. StandsBySave'
  <2>1. \A u \in Tasks : call[u].at \in {"request", "wait", "time", "date", "leave"} =>
           u # t /\ call'[u].at = call[u].at
    BY <1>1, <1>4
  <2> QED
    BY <1>1, <2>1 DEF StandsBySave
<1> QED
  BY <1>9, <1>10, <1>11, <1>15, <1>19, <1>20

LEMMA PulseKeeps == ASSUME Inv, Pulse PROVE Inv'
<1> USE BackupAssumption DEF Inv, Tasks, Pulse, Begins, registers, counters, history
<1>1. TypeOK'
  <2>1. call' \in [Tasks -> Calls]
    BY StartedCall DEF TypeOK, Points
  <2> QED
    BY <2>1 DEF TypeOK, Newest
<1>2. Jobs'
  BY DEF TypeOK, Calls, Idle, Jobs, JobsOK, Open, Busy
<1>3. Held'
  BY DEF TypeOK, Calls, Idle, Jobs, JobsOK, Held, HeldBy, HeldSave, HeldSet, Written, Runs, Above, Busy, Open
<1>4. Torn'
  BY DEF TypeOK, Calls, Idle, Jobs, JobsOK, Torn, Writing, Whole, Busy
<1>5. Newest'
  BY DEF TypeOK, Calls, Idle, Jobs, JobsOK, Newest, Writing, Busy
<1>6. StandsBySave'
  BY DEF TypeOK, Calls, Idle, StandsBySave, Busy
<1> QED
  BY <1>1, <1>2, <1>3, <1>4, <1>5, <1>6

LEMMA SystemStartsKeeps == ASSUME Inv, SystemStarts PROVE Inv'
<1> USE BackupAssumption DEF Inv, Tasks, SystemStarts, Begins, registers, counters, history
<1>1. TypeOK'
  <2>1. call' \in [Tasks -> Calls]
    BY StartedCall DEF TypeOK, Points
  <2> QED
    BY <2>1 DEF TypeOK, Newest
<1>2. Jobs'
  BY DEF TypeOK, Calls, Idle, Jobs, JobsOK, Open, Busy
<1>3. Held'
  BY DEF TypeOK, Calls, Idle, Jobs, JobsOK, Held, HeldBy, HeldSave, HeldSet, Written, Runs, Above, Busy, Open
<1>4. Torn'
  BY DEF TypeOK, Calls, Idle, Jobs, JobsOK, Torn, Writing, Whole, Busy
<1>5. Newest'
  BY DEF TypeOK, Calls, Idle, Jobs, JobsOK, Newest, Writing, Busy
<1>6. StandsBySave'
  BY DEF TypeOK, Calls, Idle, StandsBySave, Busy
<1> QED
  BY <1>1, <1>2, <1>3, <1>4, <1>5, <1>6

LEMMA SystemSavesKeeps == ASSUME Inv, SystemSaves PROVE Inv'
<1> USE BackupAssumption DEF Inv, Tasks, SystemSaves, Begins, registers, counters, history
<1>1. TypeOK'
  <2>1. call' \in [Tasks -> Calls]
    BY StartedCall DEF TypeOK, Points
  <2> QED
    BY <2>1 DEF TypeOK, Newest
<1>2. Jobs'
  BY DEF TypeOK, Calls, Idle, Jobs, JobsOK, Open, Busy
<1>3. Held'
  BY DEF TypeOK, Calls, Idle, Jobs, JobsOK, Held, HeldBy, HeldSave, HeldSet, Written, Runs, Above, Busy, Open
<1>4. Torn'
  BY DEF TypeOK, Calls, Idle, Jobs, JobsOK, Torn, Writing, Whole, Busy
<1>5. Newest'
  BY DEF TypeOK, Calls, Idle, Jobs, JobsOK, Newest, Writing, Busy
<1>6. StandsBySave'
  BY DEF TypeOK, Calls, Idle, StandsBySave, Busy
<1> QED
  BY <1>1, <1>2, <1>3, <1>4, <1>5, <1>6

LEMMA StartupSavesKeeps == ASSUME Inv, StartupSaves PROVE Inv'
<1> USE BackupAssumption DEF Inv, Tasks, StartupSaves, Begins, registers, counters, history
<1>1. TypeOK'
  <2>1. call' \in [Tasks -> Calls]
    BY StartedCall DEF TypeOK, Points
  <2> QED
    BY <2>1 DEF TypeOK, Newest
<1>2. Jobs'
  BY DEF TypeOK, Calls, Idle, Jobs, JobsOK, Open, Busy
<1>3. Held'
  BY DEF TypeOK, Calls, Idle, Jobs, JobsOK, Held, HeldBy, HeldSave, HeldSet, Written, Runs, Above, Busy, Open
<1>4. Torn'
  BY DEF TypeOK, Calls, Idle, Jobs, JobsOK, Torn, Writing, Whole, Busy
<1>5. Newest'
  BY DEF TypeOK, Calls, Idle, Jobs, JobsOK, Newest, Writing, Busy
<1>6. StandsBySave'
  BY DEF TypeOK, Calls, Idle, StandsBySave, Busy
<1> QED
  BY <1>1, <1>2, <1>3, <1>4, <1>5, <1>6

LEMMA SetsTimeKeeps == ASSUME NEW t \in {"window", "tcpip"}, Inv, SetsTime(t) PROVE Inv'
<1> USE BackupAssumption DEF Inv, Tasks, SetsTime, Begins, registers, counters, history
<1>1. TypeOK'
  <2>1. call' \in [Tasks -> Calls]
    BY StartedCall DEF TypeOK, Points
  <2> QED
    BY <2>1 DEF TypeOK, Newest
<1>2. Jobs'
  BY DEF TypeOK, Calls, Idle, Jobs, JobsOK, Open, Busy
<1>3. Held'
  BY DEF TypeOK, Calls, Idle, Jobs, JobsOK, Held, HeldBy, HeldSave, HeldSet, Written, Runs, Above, Busy, Open
<1>4. Torn'
  BY DEF TypeOK, Calls, Idle, Jobs, JobsOK, Torn, Writing, Whole, Busy
<1>5. Newest'
  BY DEF TypeOK, Calls, Idle, Jobs, JobsOK, Newest, Writing, Busy
<1>6. StandsBySave'
  BY DEF TypeOK, Calls, Idle, StandsBySave, Busy
<1> QED
  BY <1>1, <1>2, <1>3, <1>4, <1>5, <1>6

LEMMA PeripheralKeeps == ASSUME Inv, Synchronized \/ SyncWithdrawn PROVE Inv'
<1>1. /\ rsf' \in BOOLEAN
      /\ UNCHANGED <<dbp, unlocked, init, clock, words, count, since, stage, call,
                     saved, cut, stale, standing>>
  BY DEF Synchronized, SyncWithdrawn, counters, history
<1>2. TypeOK' /\ Jobs'
  BY <1>1 DEF Inv, TypeOK, Jobs, JobsOK, Open
<1>3. Held'
  BY <1>1 DEF Inv, Held, HeldBy, HeldSave, HeldSet, Written, Runs, Busy, Open
<1>4. Torn' /\ Newest' /\ StandsBySave'
  BY <1>1 DEF Inv, Torn, Newest, Writing, Whole, StandsBySave
<1> QED
  BY <1>2, <1>3, <1>4 DEF Inv

LEMMA ResetKeeps == ASSUME Inv, Reset PROVE Inv'
<1> USE BackupAssumption DEF Inv, Reset, Tasks
<1>1. TypeOK'
  <2>1. call' \in [Tasks -> Calls]
    BY IdleCall
  <2>2. clock' \in [tr : {"older", "window", "tcpip"}, dr : {"older", "window", "tcpip"}]
    OBVIOUS
  <2>3. count' \in 0..MaxCount /\ saved' = count'
    BY DEF TypeOK, Images
  <2>4. UNCHANGED <<unlocked, words>> /\ dbp' = FALSE /\ init' = FALSE /\ stale' = FALSE
        /\ rsf' = FALSE /\ standing' = FALSE
        /\ cut' \in BOOLEAN /\ since' = 0 /\ stage' = "loaded"
    BY DEF TypeOK, Saving, Whole
  <2>5. 0 \in 0..MaxCount
    OBVIOUS
  <2> HIDE DEF Reset
  <2> QED
    BY <2>1, <2>2, <2>3, <2>4, <2>5 DEF TypeOK
<1>2. Jobs' /\ Held'
  BY DEF Jobs, JobsOK, Held, Open, Idle
<1>3. Torn'
  <2>1. ~Whole => cut'
    BY DEF Torn, Writing, Saving, Jobs, JobsOK
  <2> QED
    BY <2>1 DEF Torn, Whole
<1>4. Newest'
  BY DEF Newest, Idle, TypeOK, Images, Torn, Writing, Saving, Jobs, JobsOK, Whole
<1>5. StandsBySave'
  BY DEF StandsBySave
<1> QED
  BY <1>1, <1>2, <1>3, <1>4, <1>5

LEMMA InvStutters == ASSUME Inv, UNCHANGED vars PROVE Inv'
<1> USE DEF vars
<1>1. TypeOK' /\ Jobs'
  BY DEF Inv, TypeOK, Jobs, JobsOK, Open
<1>2. Held'
  BY DEF Inv, Held, HeldBy, HeldSave, HeldSet, Written, Runs, Busy, Open
<1>3. Torn' /\ Newest' /\ StandsBySave'
  BY DEF Inv, Torn, Newest, Writing, Whole, StandsBySave
<1> QED
  BY <1>1, <1>2, <1>3 DEF Inv

LEMMA InvHolds == Spec => []Inv
<1>1. Init => Inv
  BY InitInv
<1>2. Inv /\ [Next]_vars => Inv'
  <2> SUFFICES ASSUME Inv, [Next]_vars PROVE Inv'
    OBVIOUS
  <2>1. ASSUME NEW t \in Tasks, Steps(t) PROVE Inv'
    BY <2>1, SerializeKeeps, UnlockKeeps, SyncSeenKeeps, OpenWprKeeps, ClearFlagsKeeps, WriteWordKeeps,
       RequestInitKeeps, InitEnteredKeeps, WriteTrKeeps, WriteDrKeeps, LeaveInitKeeps,
       ProtectKeeps, LockKeeps DEF Steps
  <2> QED
    BY <2>1, PulseKeeps, SystemStartsKeeps, SystemSavesKeeps, StartupSavesKeeps, SetsTimeKeeps,
       PeripheralKeeps, ResetKeeps, InvStutters DEF Next
<1> QED
  BY <1>1, <1>2, PTL DEF Spec

-------------------------------------------------------------------------------
\* Every variable keeps to its range: the index of the word that rtc_backupWrite stores
\* stays within the image (rtc.c:249-254).
THEOREM BackupTypeCorrect == Spec => []TypeOK
<1>1. Inv => TypeOK
  BY DEF Inv
<1> QED
  BY <1>1, InvHolds, PTL

\* The image in the backup registers is whole whenever no task saves (rtc_backupWrite),
\* unless a reset or a setting of the clock cut the last save.
THEOREM ImageIsWhole == Spec => []TornOnlyIfCut
<1>1. Inv => TornOnlyIfCut
  BY DEF Inv, Torn, Writing, TornOnlyIfCut, Saving, Jobs, JobsOK, Tasks
<1> QED
  BY <1>1, InvHolds, PTL

\* What systemTSK saved is not lost to an older image, but for the one startupTSK had
\* serialized and not begun to write (startupTSK.cpp:35).
THEOREM NewestIsKept == Spec => []NewestKept
<1>1. Inv => NewestKept
  BY DEF Inv, Newest, Writing, NewestKept, Saving, Jobs, JobsOK, Tasks
<1> QED
  BY <1>1, InvHolds, PTL

\* A setting of the clock that nobody interrupted takes effect as a whole and lets the
\* calendar run (rtc_setTime).
THEOREM SettingIsTaken == Spec => []SettingTaken
<1>1. Inv => SettingTaken
  <2> SUFFICES ASSUME Inv, NEW t \in Tasks, Runs(t), call[t].job = "set",
                      call[t].at \in {"protect", "lock"}, call[t].hit = "none"
               PROVE  clock = [tr |-> t, dr |-> t] /\ ~init
    BY DEF SettingTaken
  <2>1. clock["tr"] = t /\ clock["dr"] = t /\ ~init
    BY DEF Inv, Held, HeldBy, HeldSet, Open
  <2> QED
    BY <2>1 DEF Inv, TypeOK
<1> QED
  BY <1>1, InvHolds, PTL

\* A task that waits for INITF (rtc.c:204) without having been hit by a setting finds the
\* calendar stopped: the wait ends.
THEOREM NoWaitIsInVain == Spec => []NobodyWaitsInVain
<1>1. Inv => NobodyWaitsInVain
  BY DEF Inv, TypeOK, Calls, Jobs, JobsOK, Held, HeldBy, HeldSet, NobodyWaitsInVain, Open
<1> QED
  BY <1>1, InvHolds, PTL

\* A setting of the clock never leaves the calendar standing, whoever interrupts it: if it
\* stands, somebody is setting it or a save has stopped it (rtc.c:202-210, 247).
THEOREM OnlySavesStop == Spec => []StandsBySave
<1>1. Inv => StandsBySave
  BY DEF Inv
<1> QED
  BY <1>1, InvHolds, PTL
==============================================================================
