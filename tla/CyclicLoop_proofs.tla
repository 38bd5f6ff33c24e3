-------------------------- MODULE CyclicLoop_proofs --------------------------
(***************************************************************************)
(* Proofs about CyclicLoop, for any period, second, interval and limits and *)
(* whatever time the passes take.                                           *)
(***************************************************************************)
EXTENDS CyclicLoop, TLAPS

\* Division with remainder, and that there is only one.
LEMMA DivMod ==
    ASSUME NEW a \in Int, NEW b \in Nat \ {0}
    PROVE  /\ a % b \in 0 .. b - 1
           /\ a \div b \in Int
           /\ a = (a \div b) * b + (a % b)
<1>1. a % b \in 0 .. b - 1
  OBVIOUS
<1>2. a \div b \in Int
  OBVIOUS
<1>3. a = (a \div b) * b + (a % b)
  BY Z3
<1> QED
  BY <1>1, <1>2, <1>3

LEMMA ModUnique ==
    ASSUME NEW q \in Int, NEW b \in Nat \ {0}, NEW r \in 0 .. b - 1
    PROVE  (q * b + r) % b = r /\ (q * b + r) \div b = q
  OBVIOUS

LEMMA Distribute ==
    ASSUME NEW a \in Int, NEW b \in Int, NEW c \in Int, NEW s \in Int
    PROVE  (a - b - c) * s = a * s - b * s - c * s
  OBVIOUS

LEMMA NoneOrOne ==
    ASSUME NEW k \in Int, NEW b \in Nat \ {0}, k * b < 2 * b, -b < k * b
    PROVE  k = 0 \/ k = 1
<1>1. k < 2
  OBVIOUS
<1>2. -1 < k
  OBVIOUS
<1> QED
  BY <1>1, <1>2
-----------------------------------------------------------------------------
\* The next due time is one period on, as a timespec with its second carried.
LEMMA Due ==
    ASSUME LoopTypeOK, KeepsPace
    PROVE  /\ inc_period(next_period) \in [tv_sec : Nat, tv_nsec : 0 .. Second - 1]
           /\ Time(inc_period(next_period)) = nominal + Period
<1> DEFINE n == next_period.tv_nsec + Period
<1>1. /\ n \in Nat /\ Second \in Nat \ {0} /\ Period \in Nat
      /\ next_period.tv_sec = 0 /\ next_period.tv_nsec = nominal
  BY LoopAssumption DEF LoopTypeOK, KeepsPace, Time
<1> HIDE DEF n
<1>2. /\ n % Second \in 0 .. Second - 1
      /\ n \div Second \in Int
      /\ n = (n \div Second) * Second + (n % Second)
  BY <1>1, DivMod
<1>3. n \div Second \in Nat
  BY <1>1, <1>2
<1>4. inc_period(next_period) = [tv_sec |-> n \div Second, tv_nsec |-> n % Second]
  BY <1>1, <1>3 DEF inc_period, n
<1>5. n = nominal + Period
  BY <1>1 DEF n
<1> QED
  BY <1>1, <1>2, <1>3, <1>4, <1>5 DEF Time

\* What a pass makes of the clock.
LEMMA Waited ==
    ASSUME LoopTypeOK, KeepsPace, NEW duration \in Durations,
           wait_rest_of_period(duration)
    PROVE  /\ next_period' \in [tv_sec : {0}, tv_nsec : 0 .. Second - 1]
           /\ clock' \in Nat /\ nominal' \in Nat /\ used' \in Nat
           /\ KeepsPace'
<1> DEFINE due == inc_period(next_period)
           shift == due.tv_sec * Second
<1>1. /\ due.tv_sec \in Nat /\ due.tv_nsec \in 0 .. Second - 1
      /\ due.tv_sec * Second + due.tv_nsec = nominal + Period
      /\ due \in [tv_sec : Nat, tv_nsec : 0 .. Second - 1]
  BY Due DEF Time
<1>2. /\ next_period' = [due EXCEPT !.tv_sec = 0]
      /\ nominal' = nominal + Period - shift
      /\ used' = (clock + duration) - nominal
      /\ clock' = (IF clock + duration < nominal + Period THEN nominal + Period
                   ELSE clock + duration) - shift
  <2>1. Time(due) = nominal + Period
    BY Due
  <2> QED
    BY <2>1 DEF wait_rest_of_period
<1>3. shift \in Nat /\ Second \in Nat
  BY <1>1, LoopAssumption
<1>4. next_period'.tv_sec = 0 /\ next_period'.tv_nsec = due.tv_nsec
  BY <1>1, <1>2
<1>5. next_period' \in [tv_sec : {0}, tv_nsec : 0 .. Second - 1]
  BY <1>1, <1>2
<1>6. nominal' = due.tv_nsec
  <2> HIDE DEF due
  <2>1. nominal \in Nat /\ Period \in Nat
    BY LoopAssumption DEF LoopTypeOK
  <2> QED
    BY <1>1, <1>2, <1>3, <2>1
<1>7. clock' >= nominal' /\ clock' \in Nat
  <2> HIDE DEF due, shift
  <2>1. /\ nominal \in Nat /\ Period \in Nat /\ clock \in Nat /\ duration \in Nat
        /\ nominal' \in Nat
    BY LoopAssumption, <1>1, <1>6 DEF LoopTypeOK
  <2> QED
    BY <1>2, <1>3, <2>1
<1>8. used' \in Nat
  BY <1>2, LoopAssumption DEF LoopTypeOK, KeepsPace
<1> QED
  <2> HIDE DEF due, shift
  <2>1. 0 * Second = 0
    BY <1>3
  <2>2. nominal' \in Nat /\ Time(next_period') = nominal'
    BY <1>1, <1>3, <1>4, <1>6, <2>1 DEF Time
  <2>3. KeepsPace'
    BY <1>7, <2>2 DEF KeepsPace, Time
  <2> QED
    BY <1>5, <1>7, <1>8, <2>2, <2>3
-----------------------------------------------------------------------------
\* What the execution time says of the time a pass took: all of it but whole
\* seconds, or too much.
Truncated(time) == IF time % Second <= Period THEN time % Second ELSE Huge

LEMMA Measures ==
    ASSUME NEW due \in [tv_sec : Nat, tv_nsec : 0 .. Second - 1],
           NEW current \in Nat, NEW time \in Nat,
           Time(due) + time = current + Period
    PROVE  measured(due, Timespec(current)) = Truncated(time)
<1> DEFINE n == current % Second
           diff == timespec_diff(Timespec(current), due).tv_nsec
           t == time % Second
<1>1. /\ Second \in Nat \ {0} /\ Period \in 1 .. Second - 1
      /\ due.tv_sec \in Nat /\ due.tv_nsec \in 0 .. Second - 1
  BY LoopAssumption
<1>2. /\ n \in 0 .. Second - 1 /\ current \div Second \in Int
      /\ current = (current \div Second) * Second + n
  <2>1. current \in Int
    OBVIOUS
  <2> QED
    BY <1>1, <2>1, DivMod
<1>3. /\ t \in 0 .. Second - 1 /\ time \div Second \in Int
      /\ time = (time \div Second) * Second + t
  <2>1. time \in Int
    OBVIOUS
  <2> QED
    BY <1>1, <2>1, DivMod
<1>4. diff = IF due.tv_nsec < n THEN Second + due.tv_nsec - n ELSE due.tv_nsec - n
  BY DEF timespec_diff, Timespec
<1>5. measured(due, Timespec(current)) =
         IF Period - diff < 0 THEN Huge ELSE Period - diff
  BY DEF measured
<1> HIDE DEF n, diff, t
<1>6. PICK k \in Int : diff - Period + t = k * Second
  <2> DEFINE q == (current \div Second) - due.tv_sec - (time \div Second)
  <2>1. q \in Int /\ (q + 1) \in Int
    BY <1>1, <1>2, <1>3
  <2>2. due.tv_nsec - n - Period + t = q * Second
    <3> DEFINE c == current \div Second
               w == time \div Second
               x == c * Second
               y == due.tv_sec * Second
               z == w * Second
    <3>1. c \in Int /\ w \in Int /\ due.tv_sec \in Int /\ Second \in Int
      BY <1>1, <1>2, <1>3
    <3>2. q = c - due.tv_sec - w
      OBVIOUS
    <3>3. y + due.tv_nsec + time = current + Period
      BY DEF Time
    <3>4. x \in Int /\ y \in Int /\ z \in Int /\ current = x + n /\ time = z + t
      BY <1>2, <1>3, <3>1
    <3> HIDE DEF q, c, w
    <3>5. (c - due.tv_sec - w) * Second = x - y - z
      BY <3>1, Distribute
    <3>6. q * Second = x - y - z
      BY <3>2, <3>5
    <3> HIDE DEF x, y, z
    <3>7. due.tv_nsec - n - Period + t = x - y - z
      BY <1>1, <1>2, <1>3, <3>3, <3>4
    <3> QED
      BY <3>6, <3>7
  <2>3. (q + 1) * Second = q * Second + Second
    BY <1>1, <2>1
  <2> HIDE DEF q
  <2>4. CASE due.tv_nsec < n
    <3> DEFINE p == q * Second
    <3>1. p \in Int /\ (q + 1) * Second = p + Second
      BY <1>1, <2>1, <2>3
    <3>2. due.tv_nsec - n - Period + t = p
      BY <2>2
    <3> HIDE DEF p
    <3>3. /\ Second \in Int /\ Period \in Int /\ due.tv_nsec \in Int
          /\ n \in Int /\ t \in Int /\ p \in Int
      BY <1>1, <1>2, <1>3, <3>1
    <3>4. diff = Second + due.tv_nsec - n
      BY <1>4, <2>4
    <3>5. diff - Period + t = p + Second
      BY <3>2, <3>3, <3>4
    <3> QED
      BY <2>1, <3>1, <3>5
  <2>5. CASE ~(due.tv_nsec < n)
    BY <1>1, <1>2, <1>3, <1>4, <2>1, <2>2, <2>5
  <2> QED
    BY <2>4, <2>5
<1>7. diff \in 0 .. Second - 1
  BY <1>1, <1>2, <1>4
<1>8. k = 0 \/ k = 1
  BY <1>1, <1>3, <1>6, <1>7, NoneOrOne
<1>9. diff - Period + t = 0 \/ diff - Period + t = Second
  BY <1>1, <1>6, <1>8
<1> QED
  BY <1>1, <1>3, <1>5, <1>7, <1>9 DEF Truncated, Huge, t
-----------------------------------------------------------------------------
\* A pass ends with the execution time of the time it has taken.
ExecTimeRight == exec_time = Truncated(used)

LEMMA ExecTimeStep ==
    ASSUME LoopTypeOK, KeepsPace, NEW duration \in Durations,
           wait_rest_of_period(duration)
    PROVE  ExecTimeRight'
<1> DEFINE due == inc_period(next_period)
           current == clock + duration
<1>1. /\ due \in [tv_sec : Nat, tv_nsec : 0 .. Second - 1]
      /\ Time(due) = nominal + Period
  BY Due
<1>2. /\ current \in Nat /\ nominal \in Nat /\ Period \in Nat /\ clock >= nominal
      /\ clock \in Nat /\ duration \in Nat
  BY LoopAssumption DEF LoopTypeOK, KeepsPace
<1>3. exec_time' = measured(due, Timespec(current)) /\ used' = current - nominal
  BY DEF wait_rest_of_period
<1>4. used' \in Nat
  BY <1>2, <1>3
<1>5. Time(due) + used' = current + Period
  <2> HIDE DEF due, current
  <2> QED
    BY <1>1, <1>2, <1>3
<1> HIDE DEF due, current
<1> QED
  BY <1>1, <1>2, <1>3, <1>4, <1>5, Measures DEF ExecTimeRight, Truncated

LEMMA TickType ==
    ASSUME ms_tick \in Ticks
    PROVE  NextTick \in Ticks
  BY LoopAssumption DEF NextTick, Ticks

LEMMA TruncatedType ==
    ASSUME NEW time \in Nat
    PROVE  Truncated(time) \in 0 .. Huge
<1>1. time \in Int /\ Second \in Nat \ {0} /\ Period \in Nat
  BY LoopAssumption
<1>2. time % Second \in 0 .. Second - 1
  BY <1>1, DivMod
<1> HIDE DEF Truncated
<1> QED
  BY <1>1, <1>2 DEF Truncated, Huge

LEMMA LoopTypeStep ==
    ASSUME LoopTypeOK, KeepsPace, Pass
    PROVE  LoopTypeOK' /\ KeepsPace' /\ ExecTimeRight'
<1>1. PICK duration \in Durations : wait_rest_of_period(duration)
  BY DEF Pass
<1>2. /\ next_period' \in [tv_sec : {0}, tv_nsec : 0 .. Second - 1]
      /\ clock' \in Nat /\ nominal' \in Nat /\ used' \in Nat
      /\ KeepsPace' /\ ExecTimeRight'
  BY <1>1, Waited, ExecTimeStep
<1>3. exec_time' \in 0 .. Huge
  <2>1. Truncated(used') \in 0 .. Huge
    BY <1>2, TruncatedType
  <2> QED
    BY <1>2, <2>1 DEF ExecTimeRight, Truncated
<1>4. ms_tick' \in Ticks
  BY TickType DEF Pass, LoopTypeOK
<1>5. active' \subseteq Events
  BY DEF Pass, LoopTypeOK, Judged, Events
<1>6. printed' \subseteq Events /\ told' \subseteq active'
  BY <1>5 DEF Pass, LoopTypeOK, print_cyclic_user_message, Printed
<1>7. silent' \in [Events -> Nat]
  BY LoopAssumption DEF Pass, LoopTypeOK
<1> QED
  BY <1>2, <1>3, <1>4, <1>5, <1>6, <1>7 DEF LoopTypeOK

LEMMA LoopTypeInit == LoopInit => LoopTypeOK /\ KeepsPace /\ ExecTimeRight
<1> SUFFICES ASSUME LoopInit
             PROVE  LoopTypeOK /\ KeepsPace /\ ExecTimeRight
  OBVIOUS
<1>1. PICK start \in Starts :
         next_period = Timespec(start) /\ clock = start /\ nominal = start
  BY DEF LoopInit, periodic_task_init
<1>2. /\ Second \in Nat \ {0} /\ start \in 0 .. Second - 1 /\ 0 \in 0 .. Second - 1
      /\ 0 \in Int
  BY LoopAssumption
<1>3. /\ (0 * Second + start) % Second = start /\ (0 * Second + start) \div Second = 0
      /\ (0 * Second + 0) % Second = 0
  BY <1>2, ModUnique
<1>4. 0 * Second = 0 /\ 0 + start = start /\ 0 + 0 = 0
  BY <1>2
<1>5. start % Second = start /\ start \div Second = 0 /\ 0 % Second = 0
  BY <1>3, <1>4
<1>6. next_period = [tv_sec |-> 0, tv_nsec |-> start]
  BY <1>1, <1>5 DEF Timespec
<1>7. KeepsPace
  BY <1>1, <1>2, <1>4, <1>6 DEF KeepsPace, Time
<1>8. ExecTimeRight
  BY <1>5, LoopAssumption DEF LoopInit, ExecTimeRight, Truncated
<1>9. LoopTypeOK
  BY <1>1, <1>2, <1>6, LoopAssumption DEF LoopInit, LoopTypeOK, Huge, Ticks
<1> QED
  BY <1>7, <1>8, <1>9

PaceInv == LoopTypeOK /\ KeepsPace /\ ExecTimeRight

LEMMA PaceInductive == LoopSpec => []PaceInv
<1>1. LoopInit => PaceInv
  BY LoopTypeInit DEF PaceInv
<1>2. PaceInv /\ [Pass]_loopVars => PaceInv'
  <2>1. ASSUME PaceInv, UNCHANGED loopVars
        PROVE  PaceInv'
    BY <2>1
       DEF PaceInv, loopVars, LoopTypeOK, KeepsPace, Time, ExecTimeRight, Truncated
  <2> QED
    BY <2>1, LoopTypeStep DEF PaceInv
<1> QED
  BY <1>1, <1>2, PTL DEF LoopSpec

\* The loop's variables keep their types: the execution time, cast to an
\* unsigned number, is one of a pass within the period or larger than any.
THEOREM LoopTypeCorrect == LoopSpec => []LoopTypeOK
<1>1. PaceInv => LoopTypeOK
  BY DEF PaceInv
<1> QED
  BY <1>1, PaceInductive, PTL

\* No pass begins early, and the grid of due times never drifts.
THEOREM LoopKeepsPace == LoopSpec => []KeepsPace
<1>1. PaceInv => KeepsPace
  BY DEF PaceInv
<1> QED
  BY <1>1, PaceInductive, PTL
-----------------------------------------------------------------------------
\* The limits lie within the period.
LEMMA Limits ==
    /\ ErrorTime \in 0 .. Period /\ WarningTime \in 0 .. ErrorTime
<1> DEFINE e == Period * ErrorPercentage
           w == Period * WarningPercentage
<1>1. /\ e \in Nat /\ w \in Nat /\ Period \in Nat
      /\ w <= e /\ e <= Period * 100
  BY LoopAssumption
<1> HIDE DEF e, w
<1>2. e \div 100 \in 0 .. Period /\ w \div 100 \in 0 .. (e \div 100)
  BY <1>1
<1> QED
  BY <1>2 DEF ErrorTime, WarningTime, e, w

\* An overrun is reported by the next pass, unless it ends just after a whole
\* second, and the report ends with a pass below both limits.
THEOREM OverrunsAreSeen == LoopSpec => OverrunIsSeen
<1>1. ASSUME PaceInv, Pass
      PROVE  VerdictStep
  <2> DEFINE u == used % Second
  <2>1. used \in Nat /\ Second \in Nat \ {0} /\ Period \in 1 .. Second - 1
    BY <1>1, LoopAssumption DEF PaceInv, LoopTypeOK
  <2>2. u \in 0 .. Second - 1 /\ (used < Second => u = used)
    <3>1. used \in Int
      BY <2>1
    <3>2. CASE used < Second
      <4>1. used \in 0 .. Second - 1 /\ 0 \in Int
        BY <2>1, <3>2
      <4>2. (0 * Second + used) % Second = used
        BY <2>1, <4>1, ModUnique
      <4>3. 0 * Second + used = used
        BY <2>1
      <4> QED
        BY <4>1, <4>2, <4>3
    <3> QED
      BY <2>1, <3>1, <3>2, DivMod
  <2>3. exec_time = IF u <= Period THEN u ELSE Period + 1
    BY <1>1 DEF PaceInv, ExecTimeRight, Truncated, Huge
  <2>4. \A e \in {"OVERRUN", "TIMEWARN"} : e \in active' <=> e \in Judged
    BY <1>1 DEF Pass
  <2> HIDE DEF u
  <2>5. /\ ErrorTime \in Int /\ WarningTime \in Int
        /\ WarningTime <= ErrorTime /\ ErrorTime <= Period
    BY Limits, LoopAssumption
  <2>6. u > ErrorTime => exec_time > ErrorTime
    BY <2>1, <2>2, <2>3, <2>5
  <2>7. u > WarningTime => exec_time > WarningTime
    BY <2>1, <2>2, <2>3, <2>5
  <2>8. used <= WarningTime => ~(exec_time > WarningTime) /\ ~(exec_time > ErrorTime)
    BY <2>1, <2>2, <2>3, <2>5
  <2>9. u > ErrorTime => "OVERRUN" \in active'
    BY <2>4, <2>6 DEF Judged
  <2>10. u > WarningTime => active' \cap {"OVERRUN", "TIMEWARN"} # {}
    BY <2>4, <2>7 DEF Judged
  <2>11. used <= WarningTime => active' \cap {"OVERRUN", "TIMEWARN"} = {}
    BY <2>4, <2>8 DEF Judged
  <2> QED
    BY <2>9, <2>10, <2>11 DEF VerdictStep, u
<1>2. PaceInv /\ [Pass]_loopVars => [VerdictStep]_loopVars
  BY <1>1
<1> QED
  BY <1>2, PaceInductive, PTL DEF LoopSpec, OverrunIsSeen
-----------------------------------------------------------------------------
\* No event that is over is marked as printed, and none is before the log starts.
MarksAreCurrent == printed \subseteq active /\ (ms_tick <= StartDelay => printed = {})

LEMMA MarksStep == PaceInv /\ MarksAreCurrent /\ Pass => MarksAreCurrent'
<1> SUFFICES ASSUME PaceInv, MarksAreCurrent, Pass
             PROVE  MarksAreCurrent'
  OBVIOUS
<1>1. /\ ms_tick' = NextTick /\ ms_tick \in Int /\ StartDelay \in Int
      /\ NextTick \in Int
      /\ ms_tick > StartDelay => NextTick > StartDelay
  BY TickType, LoopAssumption DEF Pass, PaceInv, LoopTypeOK, NextTick, Ticks
<1>2. CASE NextTick > StartDelay
  BY <1>1, <1>2 DEF Pass, print_cyclic_user_message, Printed, MarksAreCurrent
<1>3. CASE ~(NextTick > StartDelay)
  <2>1. printed' = printed /\ printed = {}
    BY <1>1, <1>3 DEF Pass, print_cyclic_user_message, MarksAreCurrent
  <2> QED
    BY <2>1 DEF MarksAreCurrent
<1> QED
  BY <1>2, <1>3

\* An event is told of in the very pass in which it becomes active.
THEOREM NewsIsAlwaysTold == LoopSpec => NewsIsTold
<1>1. LoopInit => MarksAreCurrent
  BY DEF LoopInit, MarksAreCurrent
<1>2. PaceInv /\ MarksAreCurrent /\ [Pass]_loopVars => MarksAreCurrent'
  BY MarksStep DEF MarksAreCurrent, loopVars
<1>3. MarksAreCurrent /\ Pass => NewsStep
  BY DEF MarksAreCurrent, Pass, print_cyclic_user_message, NewsStep
<1>4. MarksAreCurrent /\ [Pass]_loopVars => [NewsStep]_loopVars
  BY <1>3
<1> QED
  BY <1>1, <1>2, <1>4, PaceInductive, PTL DEF LoopSpec, NewsIsTold
-----------------------------------------------------------------------------
\* Why reminders come in time: an event has been silent no longer than the
\* current interval has lasted.
SilentInInterval == \A e \in Events : silent[e] <= ms_tick % Reminder

\* Wrapping the tick does not move it within its interval.
LEMMA TickWraps ==
    ASSUME ms_tick \in Ticks
    PROVE  (NextTick - CycleMs) % Reminder = ms_tick % Reminder
<1> DEFINE q == ms_tick \div Reminder
           r == ms_tick % Reminder
<1>1. /\ ms_tick \in Int /\ Reminder \in Nat \ {0} /\ CycleMs \in Nat
  BY LoopAssumption DEF Ticks
<1>2. q \in Int /\ q - 1 \in Int /\ r \in 0 .. Reminder - 1 /\ ms_tick = q * Reminder + r
  BY <1>1, DivMod
<1> HIDE DEF q
<1>3. (q - 1) * Reminder = q * Reminder - Reminder
  BY <1>1, <1>2
<1>4. ((q - 1) * Reminder + r) % Reminder = r
  BY <1>1, <1>2, ModUnique
<1>5. NextTick - CycleMs \in {ms_tick, ms_tick - Reminder}
  BY <1>1, LoopAssumption DEF NextTick
<1>6. ms_tick - Reminder = (q - 1) * Reminder + r
  <2> DEFINE p == q * Reminder
  <2>1. p \in Int /\ r \in Int /\ Reminder \in Int
    BY <1>1, <1>2
  <2>2. ms_tick = p + r /\ (q - 1) * Reminder = p - Reminder
    BY <1>2, <1>3
  <2> HIDE DEF p, r
  <2> QED
    BY <2>1, <2>2
<1> QED
  BY <1>4, <1>5, <1>6

\* A pass that is not one for reminders is further into the interval than the
\* pass before, by a cycle.
LEMMA NoReminder ==
    ASSUME NEW tick \in Int, NEW cycle \in Nat, NEW interval \in Nat \ {0},
           \A ms \in tick - cycle + 1 .. tick : ms % interval # 0
    PROVE  ((tick - cycle) % interval) + cycle = tick % interval
<1> DEFINE p == (tick \div interval) * interval
           q == tick \div interval
           r == tick % interval
<1>1. q \in Int /\ p \in Int /\ r \in 0 .. interval - 1 /\ tick = p + r
  BY DivMod
<1>2. (q * interval + 0) % interval = 0 /\ q * interval + 0 = p
  <2>1. 0 \in 0 .. interval - 1
    OBVIOUS
  <2> QED
    BY <1>1, <2>1, ModUnique
<1>3. p % interval = 0
  BY <1>2
<1>4. ~(p \in tick - cycle + 1 .. tick)
  BY <1>3
<1>5. r - cycle \in 0 .. interval - 1 /\ tick - cycle = p + (r - cycle)
  <2> HIDE DEF p, q, r
  <2> QED
    BY <1>1, <1>4
<1>6. (q * interval + (r - cycle)) % interval = r - cycle
  BY <1>1, <1>5, ModUnique
<1>7. (tick - cycle) % interval = r - cycle
  BY <1>5, <1>6
<1> HIDE DEF p, q
<1> QED
  BY <1>1, <1>7

LEMMA SilentStep == PaceInv /\ SilentInInterval /\ Pass => SilentInInterval'
<1> SUFFICES ASSUME PaceInv, SilentInInterval, Pass, NEW e \in Events
             PROVE  silent'[e] <= ms_tick' % Reminder
  BY DEF SilentInInterval
<1>1. /\ ms_tick' = NextTick /\ NextTick \in Int /\ Reminder \in Nat \ {0}
      /\ CycleMs \in Nat /\ StartDelay \in Nat /\ silent[e] \in Nat
      /\ ms_tick \in Ticks /\ ms_tick \in Int
  BY TickType, LoopAssumption DEF Pass, PaceInv, LoopTypeOK, Ticks
<1>2. silent'[e] = IF e \in told' \/ e \notin active' \/ NextTick <= StartDelay
                   THEN 0 ELSE silent[e] + CycleMs
  BY DEF Pass
<1>3. NextTick % Reminder \in 0 .. Reminder - 1 /\ ms_tick % Reminder \in 0 .. Reminder - 1
  BY <1>1, DivMod
<1>4. CASE silent'[e] = 0
  BY <1>1, <1>3, <1>4
<1>5. CASE silent'[e] # 0
  <2>1. /\ e \in active' /\ e \notin told' /\ NextTick > StartDelay
        /\ silent'[e] = silent[e] + CycleMs
    BY <1>1, <1>2, <1>5
  <2>2. ~print_repeater_message
    BY <2>1 DEF Pass, print_cyclic_user_message
  <2>3. \A ms \in NextTick - CycleMs + 1 .. NextTick : ms % Reminder # 0
    BY <2>2 DEF print_repeater_message
  <2>4. ((NextTick - CycleMs) % Reminder) + CycleMs = NextTick % Reminder
    BY <1>1, <2>3, NoReminder
  <2>5. (ms_tick % Reminder) + CycleMs = NextTick % Reminder
    BY <1>1, <2>4, TickWraps
  <2>6. silent[e] <= ms_tick % Reminder
    BY DEF SilentInInterval
  <2> DEFINE r == ms_tick % Reminder
             next == NextTick % Reminder
  <2>7. r \in Int /\ next \in Int /\ r + CycleMs = next /\ silent[e] <= r
    BY <1>3, <2>5, <2>6
  <2> HIDE DEF r, next
  <2>8. silent'[e] <= next
    BY <1>1, <2>1, <2>7
  <2> QED
    BY <1>1, <2>8 DEF next
<1> QED
  BY <1>4, <1>5

\* No event that lasts goes untold for a whole interval, whatever the interval
\* and the cycle are.
THEOREM RemindersComeInTime == LoopSpec => []RemindedInTime
<1>1. LoopInit => SilentInInterval
  <2> SUFFICES ASSUME LoopInit, NEW e \in Events
               PROVE  silent[e] <= ms_tick % Reminder
    BY DEF SilentInInterval
  <2>1. silent[e] = 0 /\ ms_tick = 0 /\ Reminder \in Nat \ {0} /\ ms_tick \in Int
    BY LoopAssumption DEF LoopInit
  <2>2. ms_tick % Reminder \in 0 .. Reminder - 1
    BY <2>1, DivMod
  <2> QED
    BY <2>1, <2>2
<1>2. PaceInv /\ SilentInInterval /\ [Pass]_loopVars => SilentInInterval'
  <2>1. ASSUME SilentInInterval, UNCHANGED loopVars
        PROVE  SilentInInterval'
    BY <2>1 DEF SilentInInterval, loopVars
  <2> QED
    BY <2>1, SilentStep
<1>3. PaceInv /\ SilentInInterval => RemindedInTime
  <2> SUFFICES ASSUME PaceInv, SilentInInterval, NEW e \in Events
               PROVE  silent[e] < Reminder
    BY DEF RemindedInTime
  <2>1. ms_tick \in Int /\ silent[e] \in Int /\ Reminder \in Nat \ {0}
    BY LoopAssumption DEF PaceInv, LoopTypeOK, Ticks
  <2>2. ms_tick % Reminder \in 0 .. Reminder - 1
    BY <2>1, DivMod
  <2> QED
    BY <2>1, <2>2 DEF SilentInInterval
<1> QED
  BY <1>1, <1>2, <1>3, PaceInductive, PTL DEF LoopSpec
=============================================================================
