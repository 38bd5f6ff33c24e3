------------------------------ MODULE CyclicLoop ------------------------------
(***************************************************************************)
(* The pace of step_cyclic and what the log says of it: the sleep to an     *)
(* absolute time, the execution time computed from it, and the cyclic       *)
(* messages of cyclic_message.c.                                           *)
(*                                                                         *)
(* Times are plain numbers, whole microseconds each, converted where the    *)
(* code has timespecs, and counted from the second next_period lies in.  A  *)
(* pass of the loop may take any time.                                      *)
(***************************************************************************)
EXTENDS Integers, FiniteSets

CONSTANTS
    Second,            \* NSEC_PER_SEC, in units of time
    Period,            \* BUS_CYCLE_TIME, in units of time
    CycleMs,           \* BUS_CYCLE_TIME, in milliseconds
    Reminder,          \* GBSM_REMINDER_MESSAGE_INTERVAL_MS
    StartDelay,        \* GBSM_DELAY_TO_START_MESSAGES_SEC, in milliseconds
    ErrorPercentage,   \* CYCLIC_EXEC_TIME_ERROR_PERCENTAGE
    WarningPercentage, \* CYCLIC_EXEC_TIME_WARNING_PERCENTAGE
    Starts,            \* where in a second the loop may begin
    Durations,         \* how long a pass may take
    MaxLate            \* bound: how far the loop may fall behind

ASSUME LoopAssumption ==
    /\ Second \in Nat \ {0} /\ Period \in 1 .. Second - 1
    /\ Reminder \in Nat \ {0} /\ CycleMs \in 1 .. Reminder /\ StartDelay \in Nat
    /\ ErrorPercentage \in 0 .. 100 /\ WarningPercentage \in 0 .. ErrorPercentage
    /\ Starts \subseteq 0 .. Second - 1
    /\ Durations \subseteq Nat /\ MaxLate \in Nat

Events == {"OVERRUN", "TIMEWARN", "SEND_FAIL", "NOT_OPMODE", "GBC_NOT_CONNECTED"}

VARIABLES
    next_period,    \* when the pass was due, a timespec
    clock,          \* when it began
    exec_time,      \* exec_time_usec
    ms_tick,
    active,         \* the events that are active
    printed,        \* the events whose message_printed is set
    told,           \* what the last pass printed
    nominal,        \* history: the time on a grid of periods
    used,           \* history: how far past its due time the last pass ended
    silent          \* history: milliseconds an active event has not been told of

loopVars == <<next_period, clock, exec_time, ms_tick, active, printed, told,
              nominal, used, silent>>

Timespec(time) == [tv_sec |-> time \div Second, tv_nsec |-> time % Second]
Time(ts) == ts.tv_sec * Second + ts.tv_nsec

periodic_task_init ==
    \E start \in Starts :
        next_period = Timespec(start) /\ clock = start /\ nominal = start

LoopInit ==
    /\ periodic_task_init
    /\ exec_time = 0 /\ ms_tick = 0 /\ used = 0
    /\ active = {} /\ printed = {} /\ told = {}
    /\ silent = [e \in Events |-> 0]
-----------------------------------------------------------------------------
\* Mutant of inc_period: the second is not carried.
inc_periodUncarried(ts) ==
    [tv_sec |-> ts.tv_sec, tv_nsec |-> (ts.tv_nsec + Period) % Second]

\* Whole seconds are carried as often as it takes.
inc_period(ts) ==
    [tv_sec  |-> ts.tv_sec + (ts.tv_nsec + Period) \div Second,
     tv_nsec |-> (ts.tv_nsec + Period) % Second]

\* Mutant of timespec_diff: no second is borrowed.
timespec_diffUnborrowed(start, end) ==
    [tv_sec  |-> end.tv_sec - start.tv_sec,
     tv_nsec |-> end.tv_nsec - start.tv_nsec]

timespec_diff(start, end) ==
    IF end.tv_nsec < start.tv_nsec
    THEN [tv_sec  |-> end.tv_sec - start.tv_sec - 1,
          tv_nsec |-> Second + end.tv_nsec - start.tv_nsec]
    ELSE [tv_sec  |-> end.tv_sec - start.tv_sec,
          tv_nsec |-> end.tv_nsec - start.tv_nsec]

\* The seconds of the difference are not looked at.  A negative number becomes
\* one larger than any period when it is cast to an unsigned one.
Huge == Period + 1
measured(due, current) ==
    LET usec == Period - timespec_diff(current, due).tv_nsec
    IN IF usec < 0 THEN Huge ELSE usec

\* The number of the last pass's milliseconds, in steps of the cycle: passes
\* StartDelay once, and is counted modulo the interval from there on.
NextTick == IF ms_tick > StartDelay + Reminder THEN ms_tick - Reminder + CycleMs
            ELSE ms_tick + CycleMs

\* Mutant of print_repeater_message: only the cycle's last tick is tested.
print_repeater_messageLast == NextTick % Reminder = 0

\* The loop over the cycle's ticks passes a multiple of the interval.
print_repeater_message == \E ms \in NextTick - CycleMs + 1 .. NextTick : ms % Reminder = 0

ErrorTime == (Period * ErrorPercentage) \div 100
WarningTime == (Period * WarningPercentage) \div 100

\* Mutant of Judged: only a cycle longer than the period is an overrun.
JudgedStrictly ==
    IF exec_time > Period THEN active \cup {"OVERRUN"}
    ELSE IF exec_time > WarningTime THEN active \cup {"TIMEWARN"}
    ELSE active \ {"OVERRUN", "TIMEWARN"}

\* What the execution time measured at the end of the last pass makes of the
\* active events; between the two limits neither is taken back.
Judged ==
    IF exec_time > ErrorTime THEN active \cup {"OVERRUN"}
    ELSE IF exec_time > WarningTime THEN active \cup {"TIMEWARN"}
    ELSE active \ {"OVERRUN", "TIMEWARN"}

\* Mutant of Printed: an event that is over keeps its mark.
PrintedStale == printed \cup active'
Printed == active'

\* print_cyclic_user_message: an event is told of when it becomes active, and
\* again with each reminder.
print_cyclic_user_message ==
    IF NextTick > StartDelay
    THEN /\ printed' = Printed
         /\ told' = active' \ (IF print_repeater_message THEN {} ELSE printed)
    ELSE printed' = printed /\ told' = {}

\* The pass sleeps until the next period is due, not at all if that is past.
wait_rest_of_period(duration) ==
    LET due == inc_period(next_period)
        current == clock + duration
        shift == due.tv_sec * Second
        wake == IF current < Time(due) THEN Time(due) ELSE current
    IN /\ wake - Time(due) <= MaxLate
       /\ exec_time' = measured(due, Timespec(current))
       /\ next_period' = [due EXCEPT !.tv_sec = 0]
       /\ clock' = wake - shift
       /\ nominal' = nominal + Period - shift
       /\ used' = current - nominal

\* A pass of step_cyclic, with or without a connection to GBC.
Pass ==
    /\ \E connected \in BOOLEAN :
          active' = IF connected THEN Judged \ {"GBC_NOT_CONNECTED"}
                                 ELSE Judged \cup {"GBC_NOT_CONNECTED"}
    /\ ms_tick' = NextTick
    /\ print_cyclic_user_message
    /\ silent' = [e \in Events |->
                    IF e \in told' \/ e \notin active' \/ NextTick <= StartDelay
                    THEN 0 ELSE silent[e] + CycleMs]
    /\ \E duration \in Durations : wait_rest_of_period(duration)

LoopSpec == LoopInit /\ [][Pass]_loopVars
-----------------------------------------------------------------------------
Ticks == 0 .. StartDelay + Reminder + CycleMs

LoopTypeOK ==
    /\ next_period \in [tv_sec : {0}, tv_nsec : 0 .. Second - 1]
    /\ clock \in Nat /\ nominal \in Nat /\ used \in Nat
    /\ exec_time \in 0 .. Huge
    /\ ms_tick \in Ticks
    /\ active \subseteq Events /\ printed \subseteq Events /\ told \subseteq active
    /\ silent \in [Events -> Nat]

\* However long passes take, the time they are due stays on the grid of periods
\* that began with the first, and none begins before it is due: cycles are late
\* but never lost, and a loop that fell behind catches up.
KeepsPace == Time(next_period) = nominal /\ clock >= nominal

\* A pass that ends too late for its limits is reported by the next one, and one
\* that stays below them ends the report.  The exception is the code's: whole
\* seconds are not counted, so that a pass that ends just after one passes for
\* a short one.
VerdictStep ==
    /\ used % Second > ErrorTime => "OVERRUN" \in active'
    /\ used % Second > WarningTime => active' \cap {"OVERRUN", "TIMEWARN"} # {}
    /\ used <= WarningTime => active' \cap {"OVERRUN", "TIMEWARN"} = {}
OverrunIsSeen == [][VerdictStep]_loopVars

\* Once the log has started, an event that comes, or comes back after it was
\* over for a single cycle, is told of in the cycle it is found in.
NewsStep == ms_tick' > StartDelay => active' \ active \subseteq told'
NewsIsTold == [][NewsStep]_loopVars

\* An event that lasts is told of again before a whole interval has gone by,
\* although the interval need not be a multiple of the cycle.
RemindedInTime == \A e \in Events : silent[e] < Reminder
=============================================================================
