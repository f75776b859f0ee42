--------------------------------- MODULE Meter ---------------------------------
(***************************************************************************)
(* The pulse meter of systemTSK.cpp.  The interrupt of the Geiger tube     *)
(* counts pulses into one bucket per second; systemTSK adds the buckets up *)
(* to the counts per minute and counts the seconds since the meter was     *)
(* cleared; baseTSK clears the meter, step by step, and may be preempted   *)
(* by the other two between any two steps.                                 *)
(***************************************************************************)
EXTENDS Integers, Functions

CONSTANTS
    N,          \* buckets, and seconds of a minute
    T,          \* ticks of a second
    MaxRate,    \* bound: pulses of a second
    MaxLate,    \* bound: ticks until systemTSK looks at the time again
    MaxAge      \* bound: ticks between two clearings

ASSUME MeterAssumption ==
    /\ N \in Nat \ {0}
    /\ T \in Nat \ {0}
    /\ MaxRate \in Nat
    /\ MaxLate \in Nat
    /\ MaxAge \in Nat

\* xTaskGetTickCount is taken apart: it is second * T + phase, give or take whole minutes.
Buckets == 0..(N - 1)

VARIABLES
    second,     \* (xTaskGetTickCount() / 1000) % 60
    phase,      \* xTaskGetTickCount() % 1000
    indexPrev,  \* bucket of the last pulse
    cnt,        \* pulses of each bucket
    dose,       \* odoPulseCount - sparkOffset
    late,       \* xTaskGetTickCount() - countTime
    seconds,    \* Prm::countTime
    cpm,        \* Prm::pulseCountpm
    pass,       \* systemTSK: the bucket it adds next, N when all are added
    clear,      \* baseTSK: the step of meter_clear it does next
    fresh,      \* history: pulses of the last minute, by second, that no clearing has dropped
    age,        \* history: ticks since countTime was last set by a clearing
    ahead       \* history: seconds counted in the middle of that clearing

vars == <<second, phase, indexPrev, cnt, dose, late, seconds, cpm, pass, clear,
          fresh, age, ahead>>

Idle == [at |-> "idle", i |-> 0]

Zero == [b \in Buckets |-> 0]

Total(f) == SumFunction(f)

\* The bucket that is entered next: what it holds is a minute old.
Oldest == IF second = N - 1 THEN 0 ELSE second + 1

-------------------------------------------------------------------------------
\* The tick interrupt.  A pass of systemTSK is shorter than a tick.

Tick ==
    /\ age < MaxAge                                         \* bound
    /\ late < MaxLate                                       \* bound
    /\ pass.at = "add" => ~pass.ticked
    /\ pass' = [pass EXCEPT !.ticked = (pass.at = "add")]
    /\ phase' = IF phase = T - 1 THEN 0 ELSE phase + 1
    /\ IF phase = T - 1
       THEN second' = Oldest /\ fresh' = [fresh EXCEPT ![Oldest] = 0]
       ELSE UNCHANGED <<second, fresh>>
    /\ late' = late + 1
    /\ age' = age + 1
    /\ UNCHANGED <<indexPrev, cnt, dose, seconds, cpm, clear, ahead>>

-------------------------------------------------------------------------------
\* The pulse interrupt.

\* Mutants: the index is one too large; the pulse that empties a bucket is lost.
Index_off_by_one == second + 1

Index == second

Counted_first_lost == [cnt EXCEPT ![Index] = IF indexPrev # Index THEN 0 ELSE @ + 1]

\* The first pulse of a second empties the bucket.
Counted == [cnt EXCEPT ![Index] = IF indexPrev # Index THEN 1 ELSE @ + 1]

cntIntHandled ==
    /\ fresh[second] < MaxRate                              \* bound
    /\ cnt' = Counted
    /\ indexPrev' = Index
    /\ dose' = dose + 1
    /\ fresh' = [fresh EXCEPT ![second] = @ + 1]
    /\ UNCHANGED <<second, phase, late, seconds, cpm, pass, clear, age, ahead>>

-------------------------------------------------------------------------------
\* systemTSK, once per pass of its loop.

NoPass == [at |-> "sleep", i |-> 0, sum |-> 0, due |-> 0, ticked |-> FALSE]

\* history: what the sum owes, the pulses of the seconds that stay in the window.
Due == Total([fresh EXCEPT ![Oldest] = 0])

SysStarts ==
    /\ pass.at = "sleep"
    /\ pass' = [at |-> "add", i |-> 0, sum |-> 0, due |-> Due, ticked |-> FALSE]
    /\ UNCHANGED <<second, phase, indexPrev, cnt, dose, late, seconds, cpm, clear, fresh, age, ahead>>

\* Mutant: the last bucket is left out.
LastBucket_missed == N - 1

LastBucket == N

SysAdds ==
    /\ pass.at = "add"
    /\ pass.i < LastBucket
    /\ pass' = [pass EXCEPT !.i = @ + 1, !.sum = @ + cnt[pass.i]]
    /\ UNCHANGED <<second, phase, indexPrev, cnt, dose, late, seconds, cpm, clear, fresh, age, ahead>>

\* Mutants: countTime is not moved on; a late second is not made up for.
SecondsCounted_twice ==
    /\ seconds' = IF late >= T THEN seconds + 1 ELSE seconds
    /\ UNCHANGED late

SecondsCounted_on_time ==
    IF late = T THEN seconds' = seconds + 1 /\ late' = 0 ELSE UNCHANGED <<seconds, late>>

\* One second per pass, however late it is.
SecondsCounted ==
    IF late >= T
    THEN seconds' = seconds + 1 /\ late' = late - T
    ELSE UNCHANGED <<seconds, late>>

SysPublishes ==
    /\ pass.at = "add"
    /\ pass.i = LastBucket
    /\ cpm' = pass.sum
    /\ SecondsCounted
    /\ pass' = NoPass
    /\ UNCHANGED <<second, phase, indexPrev, cnt, dose, clear, fresh, age, ahead>>

-------------------------------------------------------------------------------
\* meter_clear, called by baseTSK: it runs while systemTSK sleeps.

ClearSeconds ==
    /\ clear.at = "idle"
    /\ pass.at = "sleep"
    /\ seconds' = 0
    /\ clear' = [clear EXCEPT !.at = "dose"]
    /\ UNCHANGED <<second, phase, indexPrev, cnt, dose, late, cpm, pass, fresh, age, ahead>>

ClearDose ==
    /\ clear.at = "dose"
    /\ pass.at = "sleep"
    /\ dose' = 0
    /\ clear' = [clear EXCEPT !.at = "time"]
    /\ UNCHANGED <<second, phase, indexPrev, cnt, late, seconds, cpm, pass, fresh, age, ahead>>

ClearTime ==
    /\ clear.at = "time"
    /\ pass.at = "sleep"
    /\ late' = 0
    /\ age' = 0
    /\ ahead' = seconds
    /\ clear' = [at |-> "buckets", i |-> 0]
    /\ UNCHANGED <<second, phase, indexPrev, cnt, dose, seconds, cpm, pass, fresh>>

\* Mutant: the loop stops before the last bucket.
AfterBucket_stops_early ==
    IF clear.i >= N - 2 THEN Idle ELSE [clear EXCEPT !.i = @ + 1]

AfterBucket == IF clear.i = N - 1 THEN Idle ELSE [clear EXCEPT !.i = @ + 1]

ClearBucket ==
    /\ clear.at = "buckets"
    /\ pass.at = "sleep"
    /\ cnt' = [cnt EXCEPT ![clear.i] = 0]
    /\ fresh' = [fresh EXCEPT ![clear.i] = 0]
    /\ clear' = AfterBucket
    /\ UNCHANGED <<second, phase, indexPrev, dose, late, seconds, cpm, pass, age, ahead>>

-------------------------------------------------------------------------------
Init ==
    /\ second \in Buckets
    /\ phase \in 0..(T - 1)
    /\ indexPrev = 0
    /\ cnt = Zero
    /\ dose = 0
    /\ late = 0
    /\ seconds = 0
    /\ cpm = 0
    /\ pass = NoPass
    /\ clear = Idle
    /\ fresh = Zero
    /\ age = 0
    /\ ahead = 0

SystemTask == SysStarts \/ SysAdds \/ SysPublishes

BaseTask == ClearSeconds \/ ClearDose \/ ClearTime \/ ClearBucket

Next == Tick \/ cntIntHandled \/ SystemTask \/ BaseTask

Spec == Init /\ [][Next]_vars

\* The tick goes on; systemTSK has the highest priority.
Fairness == WF_vars(Tick) /\ WF_vars(SystemTask)

FairSpec == Spec /\ Fairness

-------------------------------------------------------------------------------
\* Properties

Pass == [at : {"sleep", "add"}, i : 0..N, sum : Nat, due : Nat, ticked : BOOLEAN]
Clear == [at : {"idle", "dose", "time", "buckets"}, i : Buckets]

\* Every variable keeps to its range.
TypeOK ==
    /\ second \in Buckets
    /\ phase \in 0..(T - 1)
    /\ indexPrev \in Buckets
    /\ cnt \in [Buckets -> Nat]
    /\ dose \in Nat
    /\ late \in Nat
    /\ seconds \in Nat
    /\ cpm \in Nat
    /\ pass \in Pass
    /\ clear \in Clear
    /\ fresh \in [Buckets -> Nat]
    /\ age \in Nat
    /\ ahead \in Nat

\* No pulse of the last minute is missing from its bucket, whatever seconds were
\* quiet and wherever a clearing was interrupted (systemTSK.cpp:86-90).
NoPulseMissed == \A b \in Buckets : cnt[b] >= fresh[b]

\* The counts per minute are never too low: what systemTSK publishes has at least the
\* pulses of the seconds that stayed in the window while it was adding (234-238).
NeverTooLow == [][SysPublishes => cpm' >= pass.due]_vars

\* What the buckets hold has been counted since the last clearing: together they
\* never exceed the dose (97-104).
CountedSinceClear == clear.at \in {"idle", "dose"} => Total(cnt) <= dose

\* Measured time is real time: after N counted seconds a minute has passed since the
\* clearing, but for what was counted in its middle (98-100, 245-248), so that the
\* first CPM shown (baseTSK.cpp:163) stands for a whole minute.
MinuteHasPassed ==
    clear.at \in {"idle", "buckets"} /\ seconds >= N => age + ahead * T >= N * T

\* If nobody clears the meter the CPM is shown in the end: late seconds are made up for.
MinuteEnds == <>[](clear.at = "idle") => <>(seconds >= N)

\* Counts per minute (radmonClient.cpp:118): at most what the last minute has brought,
\* and the buckets of the two seconds that a pass may find half replaced.
CpmIsLastMinute == [][SysPublishes => cpm' <= Total(fresh) + 2 * MaxRate]_vars
===============================================================================
