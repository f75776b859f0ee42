----------------------------- MODULE Meter_proofs -----------------------------
(* Proofs about the pulse meter, for every number of buckets and ticks and   *)
(* without a use of the bounds: the guards that hold them only take steps    *)
(* away.                                                                     *)
EXTENDS Meter, Sums, TLAPS

LEMMA NextBucket ==
    ASSUME second \in Buckets
    PROVE  Oldest \in Buckets
BY MeterAssumption DEF Buckets, Oldest

LEMMA BucketAfter ==
    ASSUME NEW b \in Buckets, b # N - 1
    PROVE  b + 1 \in Buckets
BY MeterAssumption DEF Buckets

-------------------------------------------------------------------------------
(* Pulses.  A bucket may be emptied by a pulse only when it holds none of    *)
(* the current second: that is what indexPrev stands for.                    *)

Counts ==
    /\ second \in Buckets
    /\ indexPrev \in Buckets
    /\ clear.i \in Buckets
    /\ cnt \in [Buckets -> Nat]
    /\ fresh \in [Buckets -> Nat]

\* clear is a record, so that its fields can be set.
ClearRecord == clear \in [at : {"idle", "dose", "time", "buckets"}, i : Int]

NotEmptied == fresh[second] = 0 \/ indexPrev = second

PulseInv == Counts /\ ClearRecord /\ NotEmptied /\ NoPulseMissed

LEMMA PulseInit == Init => PulseInv
<1> SUFFICES ASSUME Init PROVE PulseInv
    OBVIOUS
<1>1. 0 \in Buckets
    BY MeterAssumption DEF Buckets
<1>2. Counts /\ ClearRecord
    BY <1>1 DEF Init, Counts, ClearRecord, Zero, Idle
<1>3. NotEmptied /\ NoPulseMissed
    BY DEF Init, NotEmptied, NoPulseMissed, Zero
<1> QED
    BY <1>2, <1>3 DEF PulseInv

LEMMA PulseStep == PulseInv /\ [Next]_vars => PulseInv'
<1> SUFFICES ASSUME PulseInv, [Next]_vars PROVE PulseInv'
    OBVIOUS
<1> USE DEF PulseInv
<1>1. CASE Tick
  <2>1. UNCHANGED <<indexPrev, cnt, clear>>
      BY <1>1 DEF Tick
  <2>2. CASE phase = T - 1
    <3>1. second' = Oldest /\ fresh' = [fresh EXCEPT ![Oldest] = 0] /\ Oldest \in Buckets
        BY <1>1, <2>2, NextBucket DEF Tick, Counts
    <3>2. (Counts /\ ClearRecord)'
        BY <2>1, <3>1 DEF Counts, ClearRecord
    <3>3. (NotEmptied /\ NoPulseMissed)'
        BY <2>1, <3>1 DEF Counts, NotEmptied, NoPulseMissed
    <3> QED
        BY <3>2, <3>3
  <2>3. CASE phase # T - 1
    <3>1. UNCHANGED <<second, fresh>>
        BY <1>1, <2>3 DEF Tick
    <3> QED
        BY <2>1, <3>1 DEF Counts, ClearRecord, NotEmptied, NoPulseMissed
  <2> QED
      BY <2>2, <2>3
<1>2. CASE cntIntHandled
  <2>1. /\ cnt' = [cnt EXCEPT ![second] = IF indexPrev # second THEN 1 ELSE @ + 1]
        /\ fresh' = [fresh EXCEPT ![second] = @ + 1]
        /\ indexPrev' = second
        /\ UNCHANGED <<second, clear>>
      BY <1>2 DEF cntIntHandled, Counted, Index
  <2>2. (Counts /\ ClearRecord)'
      BY <2>1 DEF Counts, ClearRecord
  <2>3. NotEmptied'
      BY <2>1 DEF NotEmptied
  <2>4. cnt'[second] >= fresh'[second]
      BY <2>1 DEF Counts, NotEmptied, NoPulseMissed
  <2>5. NoPulseMissed'
      BY <2>1, <2>4 DEF Counts, NoPulseMissed
  <2> QED
      BY <2>2, <2>3, <2>5
<1>3. CASE SystemTask
  <2>1. UNCHANGED <<second, indexPrev, cnt, fresh, clear>>
      BY <1>3 DEF SystemTask, SysStarts, SysAdds, SysPublishes
  <2> QED
      BY <2>1 DEF Counts, ClearRecord, NotEmptied, NoPulseMissed
<1>4. CASE ClearSeconds \/ ClearDose \/ ClearTime
  <2>1. UNCHANGED <<second, indexPrev, cnt, fresh>>
      BY <1>4 DEF ClearSeconds, ClearDose, ClearTime
  <2>2. clear' \in {[clear EXCEPT !.at = "dose"], [clear EXCEPT !.at = "time"],
                    [at |-> "buckets", i |-> 0]}
      BY <1>4 DEF ClearSeconds, ClearDose, ClearTime
  <2>3. ClearRecord' /\ clear'.i \in {0, clear.i}
      BY <2>2 DEF ClearRecord
  <2>4. clear'.i \in Buckets
      BY <2>3, MeterAssumption DEF Counts, Buckets
  <2> QED
      BY <2>1, <2>3, <2>4 DEF Counts, NotEmptied, NoPulseMissed
<1>5. CASE ClearBucket
  <2>1. /\ cnt' = [cnt EXCEPT ![clear.i] = 0]
        /\ fresh' = [fresh EXCEPT ![clear.i] = 0]
        /\ clear' = AfterBucket
        /\ UNCHANGED <<second, indexPrev>>
      BY <1>5 DEF ClearBucket
  <2>2. ClearRecord' /\ clear'.i \in Buckets
    <3>1. CASE clear.i = N - 1
        BY <2>1, <3>1, MeterAssumption DEF AfterBucket, Idle, ClearRecord, Buckets
    <3>2. CASE clear.i # N - 1
      <4>1. clear' = [clear EXCEPT !.i = @ + 1]
          BY <2>1, <3>2 DEF AfterBucket
      <4>2. ClearRecord' /\ clear'.i = clear.i + 1
          BY <4>1 DEF ClearRecord
      <4>3. clear.i + 1 \in Buckets
          BY <3>2, BucketAfter DEF Counts
      <4> QED
          BY <4>2, <4>3
    <3> QED
        BY <3>1, <3>2
  <2>3. Counts'
      BY <2>1, <2>2 DEF Counts
  <2>4. (NotEmptied /\ NoPulseMissed)'
      BY <2>1 DEF Counts, NotEmptied, NoPulseMissed
  <2> QED
      BY <2>2, <2>3, <2>4
<1>6. CASE UNCHANGED vars
    BY <1>6 DEF vars, Counts, ClearRecord, NotEmptied, NoPulseMissed
<1> QED
    BY <1>1, <1>2, <1>3, <1>4, <1>5, <1>6 DEF Next, BaseTask

\* Each pulse of the last minute is in its bucket (systemTSK.cpp:86-90), for every
\* number of buckets and every interleaving.
THEOREM NoPulseIsMissed == Spec => []NoPulseMissed
<1>1. PulseInv => NoPulseMissed
    BY DEF PulseInv
<1> QED
    BY PulseInit, PulseStep, <1>1, PTL DEF Spec

-------------------------------------------------------------------------------
(* Time.  A tick makes the meter one tick later; a counted second makes up   *)
(* for T of them.                                                            *)

Clocks ==
    /\ late \in Nat
    /\ seconds \in Nat
    /\ age \in Nat
    /\ ahead \in Nat

Measuring == clear.at \in {"idle", "buckets"}

NoTickLost == Measuring => seconds * T + late = age + ahead * T

TimeInv == Clocks /\ ClearRecord /\ NoTickLost

LEMMA TimeInit == Init => TimeInv
<1> SUFFICES ASSUME Init PROVE TimeInv
    OBVIOUS
<1>1. late = 0 /\ seconds = 0 /\ age = 0 /\ ahead = 0 /\ clear = [at |-> "idle", i |-> 0]
    BY DEF Init, Idle
<1>2. 0 * T = 0
    BY MeterAssumption
<1>3. Clocks /\ NoTickLost
    BY <1>1, <1>2 DEF Clocks, NoTickLost
<1>4. ClearRecord
    BY <1>1 DEF ClearRecord
<1> QED
    BY <1>3, <1>4 DEF TimeInv

LEMMA CountedOnce ==
    ASSUME Clocks, SecondsCounted
    PROVE  /\ seconds' \in Nat
           /\ late' \in Nat
           /\ seconds' * T + late' = seconds * T + late
<1>1. CASE late >= T
  <2>1. seconds' = seconds + 1 /\ late' = late - T
      BY <1>1 DEF SecondsCounted
  <2>2. (seconds + 1) * T = seconds * T + T
      BY MeterAssumption DEF Clocks
  <2>3. seconds * T \in Int
      BY MeterAssumption DEF Clocks
  <2> QED
      BY <1>1, <2>1, <2>2, <2>3, MeterAssumption DEF Clocks
<1>2. CASE ~(late >= T)
    BY <1>2 DEF SecondsCounted, Clocks
<1> QED
    BY <1>1, <1>2

LEMMA TimeStep == TimeInv /\ [Next]_vars => TimeInv'
<1> SUFFICES ASSUME TimeInv, [Next]_vars PROVE TimeInv'
    OBVIOUS
<1> USE DEF TimeInv
<1>1. CASE Tick
  <2>1. late' = late + 1 /\ age' = age + 1 /\ UNCHANGED <<seconds, ahead, clear>>
      BY <1>1 DEF Tick
  <2>2. seconds * T \in Int /\ ahead * T \in Int
      BY MeterAssumption DEF Clocks
  <2> QED
      BY <2>1, <2>2 DEF Clocks, ClearRecord, NoTickLost, Measuring
<1>2. CASE cntIntHandled \/ SysStarts \/ SysAdds
  <2>1. UNCHANGED <<late, age, seconds, ahead, clear>>
      BY <1>2 DEF cntIntHandled, SysStarts, SysAdds
  <2> QED
      BY <2>1 DEF Clocks, ClearRecord, NoTickLost, Measuring
<1>3. CASE SysPublishes
  <2>1. SecondsCounted /\ UNCHANGED <<age, ahead, clear>>
      BY <1>3 DEF SysPublishes
  <2> QED
      BY <2>1, CountedOnce DEF Clocks, ClearRecord, NoTickLost, Measuring
<1>4. CASE ClearSeconds \/ ClearDose
  <2>1. seconds' \in {0, seconds} /\ UNCHANGED <<late, age, ahead>>
      BY <1>4 DEF ClearSeconds, ClearDose
  <2>2. clear' \in {[clear EXCEPT !.at = "dose"], [clear EXCEPT !.at = "time"]}
      BY <1>4 DEF ClearSeconds, ClearDose
  <2>3. ClearRecord' /\ clear'.at \in {"dose", "time"}
      BY <2>2 DEF ClearRecord
  <2>4. ~Measuring'
      BY <2>3 DEF Measuring
  <2>5. Clocks'
      BY <2>1 DEF Clocks
  <2> QED
      BY <2>3, <2>4, <2>5 DEF NoTickLost
<1>5. CASE ClearTime
  <2>1. /\ late' = 0 /\ age' = 0 /\ ahead' = seconds /\ seconds' = seconds
        /\ clear' = [at |-> "buckets", i |-> 0]
      BY <1>5 DEF ClearTime
  <2>2. seconds * T \in Int
      BY MeterAssumption DEF Clocks
  <2>3. Clocks' /\ NoTickLost'
      BY <2>1, <2>2 DEF Clocks, NoTickLost
  <2>4. ClearRecord'
      BY <2>1 DEF ClearRecord
  <2> QED
      BY <2>3, <2>4
<1>6. CASE ClearBucket
  <2>1. UNCHANGED <<late, age, seconds, ahead>>
      BY <1>6 DEF ClearBucket
  <2>2. clear' \in {[at |-> "idle", i |-> 0], [clear EXCEPT !.i = @ + 1]}
      BY <1>6 DEF ClearBucket, AfterBucket, Idle
  <2>3. ClearRecord'
      BY <2>2 DEF ClearRecord
  <2>4. Measuring
      BY <1>6 DEF ClearBucket, Measuring
  <2>5. Clocks' /\ NoTickLost'
      BY <2>1, <2>4 DEF Clocks, NoTickLost
  <2> QED
      BY <2>3, <2>5
<1>7. CASE UNCHANGED vars
    BY <1>7 DEF vars, Clocks, ClearRecord, NoTickLost, Measuring
<1> QED
    BY <1>1, <1>2, <1>3, <1>4, <1>5, <1>6, <1>7 DEF Next, SystemTask, BaseTask

LEMMA Longer ==
    ASSUME NEW n \in Nat, NEW m \in Nat, NEW t \in Nat, m >= n
    PROVE  m * t >= n * t
<1>1. m * t = n * t + (m - n) * t
    OBVIOUS
<1>2. (m - n) * t >= 0
    OBVIOUS
<1> QED
    BY <1>1, <1>2

\* The counted seconds stand for as much real time (systemTSK.cpp:98-100, 245-248),
\* for every number of buckets and ticks.
THEOREM MinutesAreMinutes == Spec => []MinuteHasPassed
<1>1. TimeInv => MinuteHasPassed
  <2> SUFFICES ASSUME TimeInv, Measuring, seconds >= N PROVE age + ahead * T >= N * T
      BY DEF MinuteHasPassed, Measuring
  <2>1. seconds * T >= N * T
      BY Longer, MeterAssumption DEF TimeInv, Clocks
  <2>2. seconds * T + late = age + ahead * T
      BY DEF TimeInv, NoTickLost
  <2>3. seconds * T \in Int /\ N * T \in Int /\ late \in Nat
      BY MeterAssumption DEF TimeInv, Clocks
  <2> QED
      BY <2>1, <2>2, <2>3
<1> QED
    BY TimeInit, TimeStep, <1>1, PTL DEF Spec

-------------------------------------------------------------------------------
(* Types.  The pulses a pass owes are a number because a sum of numbers is.  *)

LEMMA BucketsFinite ==
    /\ IsFiniteSet(Buckets)
    /\ \A S \in SUBSET Buckets : IsFiniteSet(S)
    /\ 0 \in Buckets /\ N - 1 \in Buckets
<1>1. IsFiniteSet(Buckets)
    BY FS_Interval, MeterAssumption DEF Buckets
<1>2. \A S \in SUBSET Buckets : IsFiniteSet(S)
    BY <1>1, FS_Subset
<1>3. 0 \in Buckets /\ N - 1 \in Buckets
    BY MeterAssumption DEF Buckets
<1> QED
    BY <1>1, <1>2, <1>3

\* A sum over buckets, when one of them changes.
LEMMA BucketUpdated ==
    ASSUME NEW S \in SUBSET Buckets, NEW x \in S,
           NEW f \in [Buckets -> Nat], NEW g \in [Buckets -> Nat],
           \A b \in Buckets \ {x} : f[b] = g[b]
    PROVE  /\ SumFunctionOnSet(f, S) = f[x] + SumFunctionOnSet(f, S \ {x})
           /\ SumFunctionOnSet(g, S) = g[x] + SumFunctionOnSet(f, S \ {x})
           /\ SumFunctionOnSet(f, S \ {x}) \in Nat
<1>1. /\ \A s \in S : f[s] \in Nat /\ g[s] \in Nat
      /\ \A s \in S \ {x} : f[s] = g[s]
    OBVIOUS
<1>2. IsFiniteSet(S)
    BY BucketsFinite
<1> QED
    BY <1>1, <1>2, SumUpdated

LEMMA TotalIsSum ==
    ASSUME NEW f \in [Buckets -> Nat]
    PROVE  Total(f) = SumFunctionOnSet(f, Buckets) /\ Total(f) \in Nat
<1>1. Total(f) = SumFunctionOnSet(f, Buckets)
    BY DEF Total, SumFunction
<1> QED
    BY <1>1, BucketsFinite, SumTakes

LEMMA DueIsNat ==
    ASSUME second \in Buckets, fresh \in [Buckets -> Nat]
    PROVE  Due \in Nat
<1>1. [fresh EXCEPT ![Oldest] = 0] \in [Buckets -> Nat]
    OBVIOUS
<1> QED
    BY <1>1, TotalIsSum DEF Due

LEMMA TypeInit == Init => TypeOK
<1> SUFFICES ASSUME Init PROVE TypeOK
    OBVIOUS
<1>1. Zero \in [Buckets -> Nat] /\ Idle \in Clear /\ NoPass \in Pass
    BY BucketsFinite, MeterAssumption DEF Zero, Idle, Clear, NoPass, Pass
<1> QED
    BY <1>1, BucketsFinite DEF Init, TypeOK

LEMMA TypeStep == TypeOK /\ [Next]_vars => TypeOK'
<1> SUFFICES ASSUME TypeOK, [Next]_vars PROVE TypeOK'
    OBVIOUS
<1> USE DEF TypeOK
<1>1. CASE Tick
  <2>1. second' \in Buckets /\ fresh' \in [Buckets -> Nat] /\ phase' \in 0..(T - 1)
      BY <1>1, NextBucket, MeterAssumption DEF Tick
  <2>2. pass' \in Pass
      BY <1>1 DEF Tick, Pass
  <2> QED
      BY <1>1, <2>1, <2>2 DEF Tick
<1>2. CASE cntIntHandled
  <2>1. cnt' \in [Buckets -> Nat] /\ fresh' \in [Buckets -> Nat] /\ indexPrev' \in Buckets
      BY <1>2 DEF cntIntHandled, Counted, Index
  <2> QED
      BY <1>2, <2>1 DEF cntIntHandled
<1>3. CASE SysStarts
  <2>1. pass' \in Pass
      BY <1>3, DueIsNat, MeterAssumption DEF SysStarts, Pass
  <2> QED
      BY <1>3, <2>1 DEF SysStarts
<1>4. CASE SysAdds
  <2>1. pass.i \in Buckets /\ pass.i + 1 \in 0..N
    <3>1. pass.i \in 0..N /\ pass.i < N
        BY <1>4 DEF SysAdds, LastBucket, Pass
    <3> QED
        BY <3>1, MeterAssumption DEF Buckets
  <2>2. pass.sum + cnt[pass.i] \in Nat
    <3>1. cnt[pass.i] \in Nat /\ pass.sum \in Nat
        BY <2>1 DEF Pass
    <3> QED
        BY <3>1
  <2>3. pass' \in Pass
      BY <1>4, <2>1, <2>2 DEF SysAdds, Pass
  <2> QED
      BY <1>4, <2>3 DEF SysAdds
<1>5. CASE SysPublishes
  <2>1. cpm' \in Nat /\ pass' \in Pass
      BY <1>5, MeterAssumption DEF SysPublishes, NoPass, Pass
  <2>2. seconds' \in Nat /\ late' \in Nat
      BY <1>5, CountedOnce DEF SysPublishes, Clocks
  <2> QED
      BY <1>5, <2>1, <2>2 DEF SysPublishes
<1>6. CASE ClearSeconds \/ ClearDose \/ ClearTime
  <2>1. clear' \in Clear
      BY <1>6, BucketsFinite DEF ClearSeconds, ClearDose, ClearTime, Clear
  <2> QED
      BY <1>6, <2>1 DEF ClearSeconds, ClearDose, ClearTime
<1>7. CASE ClearBucket
  <2>1. clear' \in Clear
      BY <1>7, BucketsFinite, BucketAfter DEF ClearBucket, AfterBucket, Idle, Clear
  <2>2. cnt' \in [Buckets -> Nat] /\ fresh' \in [Buckets -> Nat]
      BY <1>7 DEF ClearBucket
  <2> QED
      BY <1>7, <2>1, <2>2 DEF ClearBucket
<1>8. CASE UNCHANGED vars
    BY <1>8 DEF vars
<1> QED
    BY <1>1, <1>2, <1>3, <1>4, <1>5, <1>6, <1>7, <1>8 DEF Next, SystemTask, BaseTask

\* The index of systemTSK stays within the buckets while the tick and the pulses interrupt
\* it, and so does that of a clearing (systemTSK.cpp:97-104, 234-238).
THEOREM MeterTypeCorrect == Spec => []TypeOK
<1> QED
    BY TypeInit, TypeStep, PTL DEF Spec

-------------------------------------------------------------------------------
(* The dose.  In the middle of a clearing only the buckets that are empty    *)
(* already are known to hold no pulse of before.                             *)

Cleared == 0..(clear.i - 1)

Dosed ==
    /\ CountedSinceClear
    /\ clear.at = "buckets" => SumFunctionOnSet(cnt, Cleared) <= dose

DoseInv == TypeOK /\ Dosed

\* A pulse adds at most one to what any buckets hold.
LEMMA PulseAddsOne ==
    ASSUME TypeOK, NEW S \in SUBSET Buckets
    PROVE  /\ SumFunctionOnSet(cnt, S) \in Nat
           /\ Counted \in [Buckets -> Nat]
           /\ SumFunctionOnSet(Counted, S) <= SumFunctionOnSet(cnt, S) + 1
<1> DEFINE v == IF indexPrev # second THEN 1 ELSE cnt[second] + 1
<1>1. cnt \in [Buckets -> Nat] /\ second \in Buckets /\ IsFiniteSet(S)
    BY BucketsFinite DEF TypeOK
<1>2. Counted = [cnt EXCEPT ![second] = v] /\ v \in Nat /\ v <= cnt[second] + 1
    BY <1>1 DEF Counted, Index
<1> HIDE DEF v
<1>3. SumFunctionOnSet(cnt, S) \in Nat
    BY <1>1, SumTakes
<1>4. CASE second \in S
  <2>1. /\ Counted \in [Buckets -> Nat] /\ Counted[second] = v
        /\ \A b \in Buckets \ {second} : cnt[b] = Counted[b]
      BY <1>1, <1>2
  <2>2. /\ SumFunctionOnSet(Counted, S) = v + SumFunctionOnSet(cnt, S \ {second})
        /\ SumFunctionOnSet(cnt, S) = cnt[second] + SumFunctionOnSet(cnt, S \ {second})
        /\ SumFunctionOnSet(cnt, S \ {second}) \in Nat
      BY <1>1, <1>4, <2>1, BucketUpdated
  <2> QED
      BY <1>1, <1>2, <1>3, <2>1, <2>2
<1>5. CASE second \notin S
  <2>1. \A s \in S : cnt[s] \in Nat /\ cnt[s] = Counted[s]
      BY <1>1, <1>2, <1>5
  <2>2. SumFunctionOnSet(cnt, S) = SumFunctionOnSet(Counted, S)
      BY <1>1, <2>1, SumSame
  <2> QED
      BY <1>1, <1>2, <1>3, <2>2
<1> QED
    BY <1>4, <1>5

LEMMA DoseInit == Init => DoseInv
<1> SUFFICES ASSUME Init PROVE DoseInv
    OBVIOUS
<1>1. TypeOK
    BY TypeInit
<1>2. SumFunctionOnSet(cnt, Buckets) <= 0
  <2>1. cnt = Zero /\ \A b \in Buckets : cnt[b] = 0
      BY DEF Init, Zero
  <2> DEFINE F == {S \in SUBSET Buckets : SumFunctionOnSet(cnt, S) = 0}
  <2>2. {} \in F
      BY SumOfNone
  <2>3. ASSUME NEW S \in SUBSET Buckets, NEW b \in Buckets \ S, S \in F PROVE S \cup {b} \in F
    <3>1. (S \cup {b}) \ {b} = S
        OBVIOUS
    <3>2. SumFunctionOnSet(cnt, S \cup {b}) = cnt[b] + SumFunctionOnSet(cnt, S)
        BY <2>1, <3>1, BucketsFinite, SumTakes
    <3> QED
        BY <2>1, <2>3, <3>2
  <2> HIDE DEF F
  <2>4. Buckets \in F
      BY <2>2, <2>3, BucketsFinite, SubsetInduction
  <2> QED
      BY <2>4 DEF F
<1>3. Total(cnt) <= dose /\ clear.at = "idle"
    BY <1>1, <1>2, TotalIsSum DEF TypeOK, Init, Idle
<1> QED
    BY <1>1, <1>3 DEF DoseInv, Dosed, CountedSinceClear

LEMMA DoseStep == DoseInv /\ [Next]_vars => DoseInv'
<1> SUFFICES ASSUME DoseInv, [Next]_vars PROVE Dosed'
    BY TypeStep DEF DoseInv
<1> USE DEF DoseInv
<1>1. /\ cnt \in [Buckets -> Nat] /\ dose \in Nat /\ clear \in Clear
      /\ cnt' \in [Buckets -> Nat] /\ clear' \in Clear
      /\ Total(cnt) = SumFunctionOnSet(cnt, Buckets)
      /\ Total(cnt') = SumFunctionOnSet(cnt', Buckets)
    BY TypeStep, TotalIsSum DEF TypeOK
<1>2. Cleared \in SUBSET Buckets
  <2>1. clear.i \in 0..(N - 1)
      BY <1>1 DEF Clear, Buckets
  <2> QED
      BY <2>1, MeterAssumption DEF Cleared, Buckets
<1>3. CASE UNCHANGED <<cnt, dose, clear>>
    BY <1>3 DEF Dosed, CountedSinceClear, Cleared
<1>4. CASE cntIntHandled
  <2>1. cnt' = Counted /\ dose' = dose + 1 /\ clear' = clear
      BY <1>4 DEF cntIntHandled
  <2>2. /\ SumFunctionOnSet(cnt', Buckets) <= SumFunctionOnSet(cnt, Buckets) + 1
        /\ SumFunctionOnSet(cnt, Buckets) \in Nat /\ SumFunctionOnSet(cnt', Buckets) \in Nat
      BY <1>1, <2>1, PulseAddsOne, BucketsFinite, SumTakes
  <2>3. /\ SumFunctionOnSet(cnt', Cleared) <= SumFunctionOnSet(cnt, Cleared) + 1
        /\ SumFunctionOnSet(cnt, Cleared) \in Nat /\ SumFunctionOnSet(cnt', Cleared) \in Nat
      BY <1>1, <1>2, <2>1, PulseAddsOne, BucketsFinite, SumTakes
  <2>4. CountedSinceClear'
      BY <1>1, <2>1, <2>2 DEF Dosed, CountedSinceClear
  <2>5. clear'.at = "buckets" => SumFunctionOnSet(cnt', Cleared') <= dose'
      BY <1>1, <2>1, <2>3 DEF Dosed, Cleared
  <2> QED
      BY <2>4, <2>5 DEF Dosed
<1>5. CASE ClearSeconds
  <2>1. UNCHANGED <<cnt, dose>> /\ clear'.at = "dose" /\ clear.at = "idle"
      BY <1>1, <1>5 DEF ClearSeconds, Clear
  <2> QED
      BY <2>1 DEF Dosed, CountedSinceClear
<1>6. CASE ClearDose
  <2>1. clear'.at = "time"
      BY <1>1, <1>6 DEF ClearDose, Clear
  <2> QED
      BY <2>1 DEF Dosed, CountedSinceClear
<1>7. CASE ClearTime
  <2>1. clear' = [at |-> "buckets", i |-> 0] /\ dose' = dose
      BY <1>7 DEF ClearTime
  <2>2. Cleared' = {}
      BY <2>1 DEF Cleared
  <2>3. SumFunctionOnSet(cnt', Cleared') = 0
      BY <2>2, SumOfNone
  <2> QED
      BY <1>1, <2>1, <2>3 DEF Dosed, CountedSinceClear
<1>8. CASE ClearBucket
  <2> DEFINE S == 0..clear.i
  <2>1. /\ clear.at = "buckets" /\ clear.i \in Buckets /\ dose' = dose
        /\ cnt' = [cnt EXCEPT ![clear.i] = 0]
        /\ clear' = AfterBucket
      BY <1>1, <1>8 DEF ClearBucket, Clear
  <2>2. S \in SUBSET Buckets /\ clear.i \in S /\ S \ {clear.i} = Cleared
      BY <2>1, MeterAssumption DEF Buckets, Cleared
  <2> HIDE DEF S
  <2>3. SumFunctionOnSet(cnt', S) = SumFunctionOnSet(cnt, Cleared)
    <3>1. cnt'[clear.i] = 0 /\ \A b \in Buckets \ {clear.i} : cnt[b] = cnt'[b]
        BY <1>1, <2>1
    <3>2. /\ SumFunctionOnSet(cnt', S) = cnt'[clear.i] + SumFunctionOnSet(cnt, S \ {clear.i})
          /\ SumFunctionOnSet(cnt, S \ {clear.i}) \in Nat
        BY <1>1, <2>2, <3>1, BucketUpdated
    <3>3. SumFunctionOnSet(cnt', S) = SumFunctionOnSet(cnt, S \ {clear.i})
        BY <3>1, <3>2
    <3> QED
        BY <2>2, <3>3, Zenon
  <2>4. SumFunctionOnSet(cnt', S) <= dose'
      BY <2>1, <2>3 DEF Dosed
  <2>5. CASE clear.i = N - 1
    <3>1. S = Buckets /\ clear'.at = "idle"
        BY <2>1, <2>5 DEF S, Buckets, AfterBucket, Idle
    <3> QED
        BY <1>1, <2>4, <3>1 DEF Dosed, CountedSinceClear
  <2>6. CASE clear.i # N - 1
    <3>1. clear'.at = "buckets" /\ clear'.i = clear.i + 1
        BY <1>1, <2>1, <2>6 DEF AfterBucket, Clear
    <3>2. Cleared' = S
        BY <2>1, <3>1 DEF S, Cleared, Buckets
    <3> QED
        BY <2>4, <3>1, <3>2 DEF Dosed, CountedSinceClear
  <2> QED
      BY <2>5, <2>6
<1>9. CASE Tick \/ SystemTask \/ UNCHANGED vars
  <2>1. UNCHANGED <<cnt, dose, clear>>
      BY <1>9 DEF Tick, SystemTask, SysStarts, SysAdds, SysPublishes, vars
  <2> QED
      BY <1>3, <2>1
<1> QED
    BY <1>4, <1>5, <1>6, <1>7, <1>8, <1>9 DEF Next, BaseTask

\* The pulses the buckets hold are pulses of the dose: a clearing that pulses interrupt in
\* its middle leaves none behind that the dose has forgotten (systemTSK.cpp:97-104).
THEOREM BucketsWithinDose == Spec => []CountedSinceClear
<1>1. DoseInv => CountedSinceClear
    BY DEF DoseInv, Dosed
<1> QED
    BY DoseInit, DoseStep, <1>1, PTL DEF Spec

-------------------------------------------------------------------------------
(* The counts per minute.  What a pass owes is in its sum or still in the    *)
(* buckets it has not reached, but for the one that a new second takes over. *)

Renewed == IF pass.ticked /\ phase = 0 THEN second ELSE Oldest

Left == {b \in Buckets : pass.i <= b /\ b # Renewed}

Owed == pass.at = "add" => pass.due <= pass.sum + SumFunctionOnSet(fresh, Left)

CpmInv == TypeOK /\ PulseInv /\ Owed

LEMMA LeftSum ==
    ASSUME TypeOK
    PROVE  /\ IsFiniteSet(Left) /\ SumFunctionOnSet(fresh, Left) \in Nat
           /\ pass.i \in 0..N /\ pass.sum \in Nat /\ pass.due \in Nat
<1>1. IsFiniteSet(Left)
    BY BucketsFinite DEF Left
<1>2. \A b \in Left : fresh[b] \in Nat
    BY DEF TypeOK, Left
<1> QED
    BY <1>1, <1>2, SumTakes DEF TypeOK, Pass

LEMMA CpmInit == Init => CpmInv
<1> SUFFICES ASSUME Init PROVE Owed
    BY TypeInit, PulseInit DEF CpmInv
<1> QED
    BY DEF Init, NoPass, Owed

\* Only a tick drops pulses of the last minute, and during a pass it drops those of the
\* bucket the pass does not owe.
LEMMA TickKeepsOwed ==
    ASSUME CpmInv, Tick
    PROVE  Owed'
<1> SUFFICES ASSUME pass'.at = "add" PROVE pass'.due <= pass'.sum + SumFunctionOnSet(fresh', Left')
    BY DEF Owed
<1>1. /\ pass.at = "add" /\ ~pass.ticked
      /\ pass'.ticked = TRUE /\ pass'.i = pass.i
      /\ pass'.sum = pass.sum /\ pass'.due = pass.due
    BY DEF Tick, CpmInv, TypeOK, Pass
<1>2. Left' = Left /\ \A b \in Left : fresh'[b] = fresh[b]
  <2>1. Renewed = Oldest
      BY <1>1 DEF Renewed
  <2>2. phase \in 0..(T - 1) /\ fresh \in [Buckets -> Nat]
      BY DEF CpmInv, TypeOK
  <2>3. CASE phase = T - 1
    <3>1. second' = Oldest /\ phase' = 0 /\ fresh' = [fresh EXCEPT ![Oldest] = 0]
        BY <2>3 DEF Tick
    <3>2. Renewed' = Oldest
        BY <1>1, <3>1 DEF Renewed
    <3> QED
        BY <1>1, <2>1, <2>2, <3>1, <3>2 DEF Left
  <2>4. CASE phase # T - 1
    <3>1. second' = second /\ phase' = phase + 1 /\ fresh' = fresh
        BY <2>4 DEF Tick
    <3>2. phase' # 0
        BY <2>2, <3>1
    <3>3. Renewed' = Oldest
        BY <3>1, <3>2 DEF Renewed, Oldest
    <3> QED
        BY <1>1, <2>1, <3>1, <3>3 DEF Left
  <2> QED
      BY <2>3, <2>4
<1>3. \A b \in Left : fresh[b] \in Nat /\ fresh[b] = fresh'[b]
    BY <1>2 DEF CpmInv, TypeOK, Left
<1>4. SumFunctionOnSet(fresh, Left) = SumFunctionOnSet(fresh', Left)
    BY <1>3, LeftSum, SumSame DEF CpmInv
<1>5. pass.due <= pass.sum + SumFunctionOnSet(fresh, Left)
    BY <1>1 DEF CpmInv, Owed
<1>6. SumFunctionOnSet(fresh', Left') = SumFunctionOnSet(fresh, Left)
    BY <1>2, <1>4
<1> QED
    BY <1>1, <1>5, <1>6

LEMMA PulseKeepsOwed ==
    ASSUME CpmInv, cntIntHandled
    PROVE  Owed'
<1>1. pass' = pass /\ second' = second /\ phase' = phase
    BY DEF cntIntHandled
<1>2. Left' = Left
    BY <1>1 DEF Left, Renewed, Oldest
<1>3. \A b \in Left : fresh[b] \in Nat /\ fresh'[b] \in Nat /\ fresh[b] <= fresh'[b]
    BY DEF cntIntHandled, CpmInv, TypeOK, Left
<1>4. SumFunctionOnSet(fresh, Left) <= SumFunctionOnSet(fresh', Left)
    BY <1>3, LeftSum, SumGrows DEF CpmInv
<1>5. SumFunctionOnSet(fresh', Left) \in Nat
    BY <1>3, LeftSum, SumTakes DEF CpmInv
<1>6. SumFunctionOnSet(fresh', Left') = SumFunctionOnSet(fresh', Left)
    BY <1>2
<1>7. /\ SumFunctionOnSet(fresh, Left) \in Nat /\ pass.sum \in Nat /\ pass.due \in Nat
    BY LeftSum DEF CpmInv
<1>8. pass.at = "add" => pass.due <= pass.sum + SumFunctionOnSet(fresh', Left)
    BY <1>4, <1>5, <1>7 DEF CpmInv, Owed
<1> QED
    BY <1>1, <1>6, <1>8 DEF Owed

LEMMA StartOwes ==
    ASSUME CpmInv, SysStarts
    PROVE  Owed'
<1> DEFINE f == [fresh EXCEPT ![Oldest] = 0]
<1>1. /\ pass' = [at |-> "add", i |-> 0, sum |-> 0, due |-> Due, ticked |-> FALSE]
      /\ UNCHANGED <<second, phase, fresh>>
    BY DEF SysStarts
<1>2. /\ f \in [Buckets -> Nat] /\ f[Oldest] = 0 /\ Oldest \in Buckets
      /\ \A b \in Buckets \ {Oldest} : f[b] \in Nat /\ f[b] = fresh[b]
    BY NextBucket DEF CpmInv, TypeOK
<1>3. Due = Total(f)
    BY DEF Due
<1> HIDE DEF f
<1>4. Left' = Buckets \ {Oldest}
  <2>1. pass'.i = 0 /\ ~pass'.ticked
      BY <1>1
  <2>2. Renewed' = Oldest
      BY <1>1, <2>1 DEF Renewed, Oldest
  <2>3. \A b \in Buckets : 0 <= b
      BY DEF Buckets
  <2> QED
      BY <2>1, <2>2, <2>3 DEF Left
<1>5. Due = SumFunctionOnSet(f, Buckets) /\ Due \in Nat
    BY <1>2, <1>3, TotalIsSum
<1>6. SumFunctionOnSet(f, Buckets) = f[Oldest] + SumFunctionOnSet(f, Buckets \ {Oldest})
    BY <1>2, BucketsFinite, SumTakes
<1>7. SumFunctionOnSet(f, Buckets \ {Oldest}) = SumFunctionOnSet(fresh, Buckets \ {Oldest})
    BY <1>2, BucketsFinite, SumSame
<1>8. SumFunctionOnSet(fresh, Buckets \ {Oldest}) \in Nat
  <2>1. \A b \in Buckets \ {Oldest} : fresh[b] \in Nat
      BY DEF CpmInv, TypeOK
  <2> QED
      BY <2>1, BucketsFinite, SumTakes
<1>9. Due = SumFunctionOnSet(fresh, Buckets \ {Oldest})
    BY <1>2, <1>5, <1>6, <1>7, <1>8
<1>10. SumFunctionOnSet(fresh', Left') = Due
    BY <1>1, <1>4, <1>9
<1> QED
    BY <1>1, <1>5, <1>10 DEF Owed

\* The bucket that is added holds at least the pulses of the minute.
LEMMA AddKeepsOwed ==
    ASSUME CpmInv, SysAdds
    PROVE  Owed'
<1>1. /\ pass.at = "add" /\ pass.i \in Buckets
      /\ UNCHANGED <<second, phase, fresh>>
    BY LeftSum, MeterAssumption DEF SysAdds, LastBucket, CpmInv, Buckets
<1>2. /\ pass'.i = pass.i + 1 /\ pass'.sum = pass.sum + cnt[pass.i]
      /\ pass'.due = pass.due /\ pass'.ticked = pass.ticked
    BY DEF SysAdds, CpmInv, TypeOK, Pass
<1>3. Left' = Left \ {pass.i}
  <2>1. Renewed' = Renewed
      BY <1>1, <1>2 DEF Renewed, Oldest
  <2>2. \A b \in Buckets : (pass.i + 1 <= b) <=> (pass.i <= b /\ b # pass.i)
      BY <1>1 DEF Buckets
  <2> QED
      BY <1>2, <2>1, <2>2 DEF Left
<1>4. cnt[pass.i] \in Nat /\ fresh[pass.i] \in Nat /\ fresh[pass.i] <= cnt[pass.i]
    BY <1>1 DEF CpmInv, PulseInv, NoPulseMissed, TypeOK
<1>5. /\ SumFunctionOnSet(fresh, Left) \in Nat
      /\ pass.sum \in Nat /\ pass.due \in Nat
      /\ pass.due <= pass.sum + SumFunctionOnSet(fresh, Left)
    BY <1>1, LeftSum DEF CpmInv, Owed
<1>6. /\ SumFunctionOnSet(fresh, Left \ {pass.i}) \in Nat
      /\ SumFunctionOnSet(fresh, Left) <= fresh[pass.i] + SumFunctionOnSet(fresh, Left \ {pass.i})
  <2>1. IsFiniteSet(Left) /\ IsFiniteSet(Left \ {pass.i}) /\ \A b \in Left : fresh[b] \in Nat
      BY LeftSum, BucketsFinite DEF CpmInv, TypeOK, Left
  <2>2. SumFunctionOnSet(fresh, Left \ {pass.i}) \in Nat
      BY <2>1, SumTakes
  <2>3. CASE pass.i \in Left
    <3>1. SumFunctionOnSet(fresh, Left) = fresh[pass.i] + SumFunctionOnSet(fresh, Left \ {pass.i})
        BY <2>1, <2>3, SumTakes
    <3> QED
        BY <1>4, <2>2, <3>1
  <2>4. CASE pass.i \notin Left
    <3>1. Left \ {pass.i} = Left
        BY <2>4
    <3>2. SumFunctionOnSet(fresh, Left) = SumFunctionOnSet(fresh, Left \ {pass.i})
        BY <3>1
    <3> QED
        BY <1>4, <2>2, <3>2
  <2> QED
      BY <2>3, <2>4
<1>7. pass.due <= (pass.sum + cnt[pass.i]) + SumFunctionOnSet(fresh, Left \ {pass.i})
    BY <1>4, <1>5, <1>6
<1>8. SumFunctionOnSet(fresh', Left') = SumFunctionOnSet(fresh, Left \ {pass.i})
    BY <1>1, <1>3
<1> QED
    BY <1>2, <1>7, <1>8 DEF Owed

LEMMA CpmStep == CpmInv /\ [Next]_vars => CpmInv'
<1> SUFFICES ASSUME CpmInv, [Next]_vars PROVE Owed'
    BY TypeStep, PulseStep DEF CpmInv
<1>1. CASE SysPublishes
    BY <1>1 DEF SysPublishes, NoPass, Owed
<1>2. CASE BaseTask
  <2>1. pass.at = "sleep" /\ pass' = pass
      BY <1>2 DEF BaseTask, ClearSeconds, ClearDose, ClearTime, ClearBucket
  <2> QED
      BY <2>1 DEF Owed
<1>3. CASE UNCHANGED vars
  <2>1. UNCHANGED <<pass, fresh, second, phase>>
      BY <1>3 DEF vars
  <2>2. Left' = Left
      BY <2>1 DEF Left, Renewed, Oldest
  <2> QED
      BY <2>1, <2>2 DEF CpmInv, Owed
<1> QED
    BY <1>1, <1>2, <1>3, TickKeepsOwed, PulseKeepsOwed, StartOwes, AddKeepsOwed
       DEF Next, SystemTask

\* The counts per minute are never too low, although pulses and a tick interrupt the sum
\* and a clearing may have been cut in two before it (systemTSK.cpp:234-238).
THEOREM CpmNeverTooLow == Spec => NeverTooLow
<1>1. ASSUME CpmInv, SysPublishes
      PROVE  cpm' >= pass.due
  <2>1. pass.at = "add" /\ pass.i = N /\ cpm' = pass.sum
      BY <1>1 DEF SysPublishes, LastBucket
  <2>2. Left = {}
      BY <2>1, MeterAssumption DEF Left, Buckets
  <2>3. SumFunctionOnSet(fresh, Left) = 0
      BY <2>2, SumOfNone
  <2>4. pass.due <= pass.sum + 0 /\ pass.sum \in Nat /\ pass.due \in Nat
      BY <1>1, <2>1, <2>3, LeftSum DEF CpmInv, Owed
  <2> QED
      BY <2>1, <2>4
<1>2. CpmInv /\ [Next]_vars => [SysPublishes => cpm' >= pass.due]_vars
    BY <1>1
<1> QED
    BY CpmInit, CpmStep, <1>2, PTL DEF Spec, NeverTooLow

===============================================================================
