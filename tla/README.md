# gbsm: a TLA+ model of the stepper controller

GBSM ("Stepmaster") stands between GBC, the motion controller, and the TMC4361A/TMC5160
driver chips of a bank of stepper motors.  Once a bus cycle it takes a command word, set
positions and outputs from GBC's shared memory, runs a CiA 402 state machine for the whole
machine and one per drive, writes targets to the chips over SPI, and hands back states,
faults and positions.  This directory holds TLA+ models of that program, TLC
configurations that check them on small instances, and TLAPS proofs of the main results.

Paths below are relative to the repository (`src/...` is its C code).

## 1. Inventory

`main` initialises the chips and starts one real-time thread (`step_cyclic`), which does
all the work from then on.  Three things run beside it: GBC, which is another process; the
motors, which the chips turn on their own between SPI calls and after the program has died;
and the signal handler, which resets the chips from wherever the signal finds the program.
And everything is delayed: a drive acts on a word one cycle after it is sent, flags are
judged one cycle after they are read, an echoed heartbeat is two cycles old.

| component | code | state it keeps | operations | hard about it | correct when |
|---|---|---|---|---|---|
| machine state machine | `step_control.c` | `current_state`, change counter, trn14's static counter, `gbsm_heartbeat`, fault words, word to GBC | one `step_ctrl_main` a cycle: sample, update drives, one event, 16 guards | guards have side effects and are tried in order; drives lag; a fault outranks everything; a timeout that feeds itself | no motion without permit; silence stops the drives; what is reported has been reached; fault reaction ends |
| drive bank | `drives.c` (`drv_update_state`, `drive_process_state`) | state, word, flags and fault ticks per drive | one update a cycle; `drv_set_ctrl_wrd` | several drives in one loop with one reset flag | a drive that keeps failing gets a reset |
| GBC link | `main.c` (`step_cyclic`), shared memory | `gbc_connected`, pid, `outA`, `inA`, ms tick | copy, signal, notice loss, look for GBC | GBC may die and restart at any point; copies race; the old command survives in `outA` | the machine sees only what it may see; a new GBC takes over at rest; a live GBC is never called lost; a GBC that stays is found |
| set-position path | `drives.c` (`drv_set_setpos`, `drv_get_actpos`) | `last_set_pos`, chip target, VMAX, XACTUAL | once a cycle, before the drives are updated | uses last cycle's drive states; early `break`; stale last position; pulses that do not wait for the motors | an idle drive's motor stands still; every motor heads for its own set position and rests nowhere else |
| SPI chain | `SPI_TMC.c` | chip shift registers | broadcast and individual reads and writes | pipelined replies; chip select spans the chain | a read returns the asked register of the right chip |
| boot, chip reset | `drives.c`, `gpio.c`, `main.c` | `hspi1`, pins, chip registers, threads | initialise, self test, reset from the bus cycle, terminate | the chips outlive the process; a reset in the middle of motion; the handler beside the bus cycle | cycles meet configured chips at rest; no motor runs away while its chip is reset |
| chip configuration | `tmc4361a_conf/`, `tmc5160_conf/`, `gbsm_config.c` | - | one register word each | some registers decide whether a later write arrives at all | the order of the writes leaves every chip configured, whatever it held before |
| cycle timing | `main.c` (`inc_period`, `timespec_diff`, `wait_rest_of_period`) | next period, last execution time | once a cycle | carry, negative differences, whole-second overruns | periods do not drift; overruns are seen |
| cyclic messages | `cyclic_message.c` | active / printed flag per event | once a cycle | reminder ticks, flapping events | a message per activation, and reminders in time |
| digital IO | `io.c`, `step_control.c` | pins, `dpm_in->digital` | map in, map out | written after the event, from a word that may be stale | no output stays on over a fault or a silent GBC |
| status decoding | `tmc4361a_status.c` | - | bits to structs | masks of one register used for another | - |
| register reader, stepper routines, command line | `read_register.c`, `stepper_routines.c`, `command_line.c` | - | run instead of the controller | they use the same SPI device and the same chips | a program's transfers reach the chips |
| register tables | `libs/TMC-API/` | - | constants of the manufacturer | - | - |

How they interact: `main` resets and configures the chips (`ChipConfig`'s sequences) and starts the
thread.  GBC writes `sm_buf_out`, the thread copies it to `outA` (`dpm_out`) and
`inA` (`dpm_in`) to `sm_buf_in`, signals GBC and calls `step_ctrl_main`; that calls the
set-position path, `drv_update_state` (SPI read of the flags, per-drive machines) and then
the machine's guards, which read the drives' new states and set the words the drives
will act on in the next cycle.  `drv_update_state` resets and configures the chips again
when the last drive has been in fault reaction too long; the digital outputs follow the
event; the loop sleeps until the next period and judges how long the pass took.

The hazards this gives rise to are listed in `PROJECT.json` ("hazards"), each with its line
and the properties that are about it.

## 2. Modules

| module | models | state and actions |
|---|---|---|
| `Cia402` | the vocabulary of `cia402.h` (a submodule) as `src/` uses it | states, commands, the zero word |
| `Drives` | `drv_update_state`, `drive_process_state`, `check_for_error`, `drv_set_ctrl_wrd` | the C globals under their own names; `drv_update_state(flags)` is one call, the chips' flags its input |
| `StepControl` | `step_ctrl_main`: heartbeat, fault detection, transition tables, guards, entry action | one action per transition guard, `Trn1` .. `Trn16`, plus `FaultReaction` (trn14 says no, the loop publishes causes) and `NoTransition`; each action is a **whole cycle** that ends there, with the heartbeat, the drives' update and the words sent |
| `MotionPermit` | abstract: what the controller promises about motion | `permit`, `moving`, `tripped` |
| `GbcLink` | `step_cyclic` and the shared memory; extends `StepControl` | `CycleServed`, `CycleConnects`, `CycleIdles` are the three outcomes of a pass of the loop; `GbcCommand`, `GbcEcho`, `GbcGoes`, `GbcStarts` are the other process |
| `SetPos` | `drv_get_actpos`, `drv_set_setpos`, `drv_send_start_trigger` and the chips' motion | one action per call, `drv_set_setpos` in two for its two SPI writes, and `Step(c)`, a motor step of a chip at any moment between them |
| `IoMap` | `io.c` and the iomap functions; extends `GbcLink` | the levels of the output pins and the word GBC reads; a bus cycle of the link that runs the machine also serves the pins |
| `StatusDecode` | `tmc4361a_status.c` and which flags are read | no state: bits to fields, fields to the flags of `Drives` |
| `CyclicLoop` | the pace of `step_cyclic`, the execution time, `cyclic_message.c` | `Pass` is one pass of the loop, of any duration, with or without a connection |
| `ChipConfig` | the setters of both chips, the initialisation of `drives.c`, the programs of `stepper_routines.c` and `read_register.c` | no state: register words, and pieces of program as sequences of operations |
| `ChipBoot` | start, reset, signal handler, kill and restart; extends `ChipConfig` | threads that work their sequences off an operation at a time (`Operate`), the registers that decide whether a motor turns, and the motor itself (`ChipStep`) |
| `SpiChain` | `SPI_TMC.c`: the daisy chain | one action per `spiXfer` (which may fail) and per edge of the chip select |
| `RegisterBank` | abstract: what callers of `SPI_TMC.c` see | registers of every chip, calls that take effect at one instant |
| `MCStepControl`, `MCGbcLink`, `MCChipBoot`, `MCCyclicLoop` | small instances for TLC; the first checks its flags against STATUS words through `StatusDecode` | |
| `MCRecovery` | `StepControl` under a GBC that may begin to follow the reported state | `following` |
| `StepControl_proofs`, `GbcLink_proofs`, `IoMap_proofs`, `SetPos_proofs`, `CyclicLoop_proofs`, `SpiChain_proofs`, `ChipBoot_proofs` | theorems | |

How to read `StepControl` against the code:

- A guard of the C code that says no can have done something (sent a word, counted a
  cycle), and the next guard in the table is then tried.  At most one guard of a state
  can be asked for by a given command except in QUICK_STOP_ACTIVE, where trn16 fails
  into trn12; that is spelt out in `Trn12`.  trn13 is first in every table but that of
  FAULT_REACTION_ACTIVE, so every other action carries `NoFaultCondition`.
- `g_drv_cia_state'` in a guard is the state after `drv_update_state` of the same cycle;
  `g_drv_status_flag` without a prime in `FaultPresent` is the flag sampled before it.
- The machine word is an input of the cycle (`out`), because the code reads it only in
  the call it was copied for.  In `GbcLink`, where it is kept in `outA`, it is a variable.
- The fault causes are those a build of this repository can meet: the E-stop is configured
  out, and homing, remote and the other bits are never raised.
- Two words sent depend on `cia402.h`, which is not in the repository: trn5's word for
  disabling operation ("switch on controword is same", says its log message) and trn16's,
  which is a command's enumeration value in place of a word.  What they decode to are the
  constants `DisableOperationWord` and `EnableOperationEnum`; runs use different
  values and the proofs any, except that a new GBC finds the drives at rest
  (`NewcomerFindsRest`) only if the enumeration value is not the word for enabling.
- Counters are cut where the code stops telling values apart: ticks in fault reaction
  just above `ResetTicks`; the heartbeat counters wrap at `HbModulus` for 2^32.

The other modules stand beside `StepControl` rather than on top of it:

- In `SetPos` the drives' state machines are a set of enabled drives that any update may
  change, more than `Drives` allows, so its safety properties hold under `StepControl` too.
  The chip is as `tmc4361a_start_conf.c` and `tmc4361a_ramp_mode_conf.c` set it up: VMAX and
  X_TARGET are taken up at the START pulse, and there is no ramp.  VMAX is distance over cycle
  time, but time itself is not modelled: a START pulse waits for nothing and comes after any number of
  motor steps, as in the code, where a pass that overran is followed by the next at once
  (`CyclicLoop`).  What an early pulse does depends on what was written for it.  A new
  distance sends the motor on to the new target, and as targets are absolute nothing is lost; no distance
  writes VMAX 0 and **leaves the motor short, and `last_set_pos` does not notice**: the motor stays
  there until its drive is next given a new set position.  The history variable `lost` holds such drives, and
  those whose chips were reset elsewhere than at zero.  `RestsAtSetPos` excepts them;
  `HeadsForSetPos` and `StandsStill` except none.
- `SetPos!Chip` says which chip a drive's values reach: the chain is filled from its far end
  when written and read back in order, which `chain_mirrored` shows.  Only because a measured
  position is used with speed 0 alone does the path survive the mix-up.
- In `SpiChain` a reply left in a shift register at the end of a frame, after a failed
  transfer or behind the position of an individual write, is taken for an order to an
  arbitrary register.  Which registers hold what does not matter to the chain: one that any
  write may reach and one the chip itself changes stand for all.
- In `ChipBoot` one TMC4361A/TMC5160 pair stands for all drives: every write of these
  threads goes to all chips alike.  Writes to registers that do not decide whether a motor
  turns are in `ChipConfig`, and `Write` makes no operation of them (`Deciding`).  The
  bus cycle is reduced to what it does to the chips: any speed and target, a START pulse, and
  perhaps a reset.  `Collide` is two threads' transfers in one frame; the handler reads while
  the other writes, and the write is the one that matters and is lost.
- `vcc_wired` is a choice of the board: where VCC_IO is not connected to the pin the program
  drives, pulling it low does not reset the TMC5160, and the power stage stays on.
- `CyclicLoop` counts times from the second `next_period` lies in, so that a run is finite;
  only differences matter to the code.  Times are whole microseconds, as if the clock had
  no finer grain: what the code's division by 1000 does to the rest is left out.  `ms_tick`, 64 bits wide and
  never reset, is counted modulo the interval once the messages have started.

## 3. Runs

| run | checks | what it shows |
|---|---|---|
| `two_drives` | `TypeOK` `MotionAuthority` `InStep` `FaultWords` `KeepsMotionPermit` `EntryInSync` `SilentGbcStops` `TimeoutLatches` | two drives, all commands, stalls, silence and reconnection lags: no drive is enabled or one word short of it outside the permit states; the machine refines `MotionPermit`; healthy drives keep in step; the two fault words and the reported state agree, and a stall is recorded as DRIVE_FAULT; a newly reported state has been reached by all drives; a cycle after the echo is out of tolerance no drive is enabled; a timeout is final |
| `recovery` | `Recovers` `FaultReactionEnds` `LastDriveIsReset` | a GBC that has done anything for any time and begins to follow the reported state gets two drives to OPERATION_ENABLED for good, however they have faulted (a quick stop and a drive out of step with the machine, below, excepted); once causes are gone, the five-cycle reset rhythm ends in FAULT (timeouts excepted); a last drive that keeps failing gets the chips reset again and again |
| `gbc_link` | `LinkTypeOK` `PromptGbcIsHeard` `OutputsCut` `DrivesTheMachine` `TakesOverAtRest` `ConnectsAgain` | with GBC dying, restarting and writing halves of its output at any point, the program makes only `StepControl` steps; a new GBC's first command finds no drive enabled; a GBC that finishes in its cycle is never out of tolerance; no output is on after a cycle that found a fault or a late echo; one that stays is connected to |
| `set_pos` | `TypeOK` `RestsAtSetPos` `HeadsForSetPos` `StandsStill` | two drives under any set positions, enabled, disabled and reset at any time, START pulses that come whenever they like: every step of a motor leads to the set position of its own drive; one at rest is there, unless an early pulse stopped it or its chip was reset, and then until its next move; a disabled drive's motor stands still |
| `spi_chain` | `TypeOK` `IsRegisterBank` | three chips: the chain implements `RegisterBank`; a read is one instant's snapshot although it takes two frames; a failed transfer harms only its own call |
| `chip_boot` | `TypeOK` `CyclesOnConfigured` `UnderControl` `HandlerStops` `StartsAtRest` `ComesToRest` | processes started, interrupted and killed at any operation, over and over, on the same chips: the bus cycle writes only to chips with the configuration it is written for, and takes over motors at rest at position zero; no motor turns on a half-configured chip after the first reset of a process; a handler that ran alone leaves the motors standing; an outage of GBC lets them come to rest |
| `cyclic_loop` | `LoopTypeOK` `KeepsPace` `RemindedInTime` `OverrunIsSeen` `NewsIsTold` | passes of any length: due times stay on the grid of periods; the next pass reports an overrun, and ends the report (whole seconds excepted: they are not counted); an event is told of in the cycle it comes in, and again in every interval |
| `timeout_never_ends` | `EveryFaultReactionEnds` (violated) | after a state-change timeout, fault reaction never ends: the counter that raised it is not reset there |
| `quick_stop_trap` | `QuickStopIsLeft` (violated) | a quick stop answered with DISABLE_VOLTAGE runs into the timeout: trn12 sends the drives nothing |
| `reset_in_motion` | `ResetsOnlyStopped` (violated) | a signal in the middle of a move: the handler reads the velocity of the turning motor and resets the chips all the same |
| `programs_unserved` | `ProgramsAreServed` (violated) | the programs that run instead of the controller use an SPI device nobody has opened |
| `chain_mirrored` | `WrittenWhereRead` (violated) | what is written under an index is read back under another |

The five violated properties state what a comment or a message in the source says; the lines
are quoted in `PROJECT.json` ("findings").

**Bounds.**
- `NumDrives` is 2 where drives can disagree (arrival, faults out of phase, the loop order of
  the reset) and 1 in the link and the counterexamples about one drive.  Everything about
  more than one drive in the code is "all" or "any" of them or "the last in the loop"; the
  proofs cover any number.
- `Timeout` is 2.  The counter starts at 1 (`step_control.c`), so with 1 the first wait
  already times out; 2 lets a transition wait, succeed, and also fail.  The code has 100.
- `HbTolerance` is 1 with echoes of lag 1 (and 3, for a reconnection) in the `StepControl`
  runs; 3 in `gbc_link`, where the lag comes out of the model and the round trip takes two
  cycles, so that a late GBC need not be a lost one.  The code has 50.  With `HbModulus` 4 and 6 the counters wrap many times, and
  silence can last past the wrap: a stopped echo looks alive again after a wrap, and the
  properties hold all the same.
- `ResetTicks` is 0 so that resets happen at once; the code has 1000,
  and only the comparison matters.  `CheckCycles` is 2, one cycle that looks for GBC and one
  that does not.
- `set_pos`: positions 0, 1, 2, so that distances differ in size and sign; two drives, the
  first able to keep the second from being visited.  `spi_chain`: three chips, so that one is
  neither first nor last; two values, two registers.
- Flags: none or a stall; an ASSUME of `MCStepControl` derives them through `StatusDecode` from
  the STATUS words of a motor that has stalled, of one at speed and of one with an open load,
  neither of which the code takes for an error.  A stall
  is the one flag that is an error and a follow error too; thermal flags are errors like it, and
  flags of virtual stops raise only an internal limit.  `FlagSets` is any set in the proofs.
- `recovery`: commands that go up and stop and reset; GBC begins to follow at a moment when
  no transition waits for drives, or a wait begun under another command would time out.
- `gbc_link`: commands that go up and down; that quick stops make no difference to a new GBC is
  what the proof adds (`NewcomerFindsRest`).  One output pin, 26 as number 3, as `io.c` has it; levels at the start and the
  digital word of every cycle are arbitrary.
- `chip_boot`: positions 0 and 1, speeds 0 and 1: a motor moves or it does not.  The
  configuration of `gbsm_config.c`; no property depends on a field it sets.
- `cyclic_loop`: a second of 25 units holds two and a half periods of 10, so that the carry
  falls everywhere in a period; passes take 0 to 40, past a whole second; a loop may be late by
  `MaxLate` 30, three periods; 80 and 50 percent; 2 ms cycles and an interval of 3 ms that is no
  multiple of them.

**Fairness.**  Weak fairness of the bus cycle (`Next`, `RecoveryNext`, `IoBusCycle`).
`step_cyclic` is an endless
loop on a SCHED_FIFO thread that sleeps to absolute times, and nothing in a pass blocks.
Every pass through `step_ctrl_main` changes `gbsm_heartbeat` and every pass of the link
changes `check_tick` when `CheckCycles` > 1, so a cycle is never a stuttering step and the
fairness says what it should.  Nothing is assumed of GBC or of the drives; a liveness property
that needs them to behave says so in its premise (`<>[]Quiet`, `<>[](gbc # "gone")`).
`ChipBoot` has weak fairness of `ChipStep` alone: a chip that puts out steps goes on doing so
whatever the program does.  `CyclicLoop`, `SetPos` and `SpiChain` need none for what is checked.

## 4. Proofs

`StepControl_proofs` proves, for every number of drives, timeout, tolerance, modulus, set of
echoes, flags and commands that satisfy the assumptions of `Drives` and `StepControl`:

- `TypeCorrect`: `TypeOK`.  The interesting conjunct is `cycle_count <= Timeout + 2`: a guard
  counts only when the fault test has found `cycle_count <= Timeout`.
- `MotionNeedsPermit`: `MotionAuthority`.  With `TypeOK` it is inductive as it stands: its
  second half (no drive one ENABLE_OPERATION short of moving) is exactly the strengthening
  its first half needs, and is worth having for itself.  The proof has one step per action;
  `DriveStep` and `MoveToOperation` say what one update can do to one drive.
- `ImplementsMotionPermit`: the refinement of `MotionPermit`.  Initial states map to initial
  states, and each action maps to a step of the permit or leaves the mapped variables alone,
  using `MotionAuthority` before and after the step.
- `SilenceStops`: `SilentGbcStops`, from the invariant `SilenceTrips`: a state in which the
  heartbeat is out of tolerance is one in which the machine has just tripped, so that either
  the quick stop is standing or no drive is enabled.
- `TimeoutIsFinal` (a fault present in a cycle ends it in fault reaction, with the counter
  unchanged), `FaultWordsAgree` (invariant `StallTrips`: a drive with a stall flag is
  in fault reaction in the same state) and `ReportsWhatDrivesReached` (invariant `FirstWord`: only the first state
  of the machine has told GBC nothing).
- `DrivesKeepInStep`: `InStep`.  All drives get the same word, so only a fault can set drives
  apart.  The invariant `StepInv` says why they come together again: drives are in a fault
  state only while the machine is in fault reaction (`FaultsAreSeen`), there the words follow
  trn14's rhythm (`ResetRhythm`), and so the second reset of a drive finds the others at rest
  (`OthersAtRest`).

`GbcLink_proofs` proves the link's type invariant and `LinkDrivesTheMachine`: `LinkSafeSpec`
implies `SafeSpec`.  With it every theorem above holds of the program with its link, losses
and torn copies included; `LinkKeepsMotionPermit` states it for the motion permit.

`PromptIsHeard` proves `PromptGbcIsHeard`: the echo of a prompt GBC is at most two cycles old.
The invariant `PromptInv` says why: only a process whose pid is known writes or is signalled
(`Known`); from its first signal on the shared memory holds the heartbeat of one cycle ago
(`OneBehind`), which is also what it has echoed unless it is still to echo (`Echoed`).

`NewcomerFindsRest` proves `TakesOverAtRest`: the first command of a GBC process is acted on with
no drive enabled.  `NewcomerWaits` says why: a command of the new process is in the shared memory
only after a signal, the first signal was sent in a cycle that ran on the cleared buffer, and such
a cycle leaves no drive that its next update would find or leave enabled (`Stopping`, by `DisableStops`).  The
theorem has the condition `EnableOperationEnum # "ENABLE_OPERATION"`: in a quick stop the cleared buffer
makes trn16 send its enumeration value, and where that decodes to the word for enabling the drives
go on (`QuickStopInv` is what remains true of a quick stop otherwise).  The condition is needed: with
that value, and QUICK_STOP among the commands of `gbc_link`, TLC finds a GBC that dies in a quick
stop and a successor whose first command meets an enabled drive.  It is a condition on `cia402.h`,
which is not here; the link's runs use SHUTDOWN.

`IoMap_proofs` proves `OutputsAreCut` for any pin table and digital words.  `OnWhenEnabled`
says that a pin is on only in OPERATION_ENABLED and so under that word (`WordIsState`); that
there is then no fault word and no late echo follows from `FaultWords` and `SilenceTrips` of
`StepControl_proofs`, which hold behind the link.

`CyclicLoop_proofs` proves all that `cyclic_loop` checks, for every second, period shorter than
it, percentages, interval of at least a cycle and durations (the code has 4 ms, 80 and 50
percent and 5 s; the bounds are the ASSUME `LoopAssumption`).  `Waited` is about
the two functions on timespecs, carry and borrow included, and `Measures` about what is computed
from them: `Period` minus the
difference taken modulo a second is how long the pass took, less its whole seconds (`Truncated`), which
`ExecTimeRight` carries to the next pass.  Reminders come in time because the silence of an event is never longer than the
tick's distance from the last multiple of the interval (`SilentInInterval`, `NoReminder`), and news is
told because no mark outlives its event (`MarksAreCurrent`).

`SetPos_proofs` proves, for any number of drives and set of positions, `TypeCorrect`,
`MotorsHeadForSetPos` (`HeadsForSetPos`), `MotorsRestAtSetPos` (`RestsAtSetPos`) and
`DisabledDrivesStandStill`.  The first two are about motors now; what they do was computed a cycle earlier, so `SetInv`
follows the numbers on their way: `last_set_pos` is what the last pulse asked the drive for (`Known`);
a speed is written only with a new set position and the target that goes with it, and a drive that
gets none keeps its set position (`Prepared`); a chip with a speed heads for what was asked, one
without stands there unless its drive is `lost` (`Underway`).  The lemmas take one action each; nothing
is assumed of when the pulses come.

`SpiChain_proofs` proves, for any number of chips, registers and values, `TypeCorrect` and
`ImplementsRegisterBank`: initial states map to initial states, `Assert` to the beginning of a call,
`Transfer` to a stutter (`TransferStutters`), the chips' own changes to the bank's, a failed transfer to
`Fails`, and the end of a frame to what the call does, by kind of call.  The invariant `ChainInv`
says where things are in the middle of a frame: after n transfers chips 1 to n hold the frame's
datagrams in reverse order (`InOrder`), the chips behind them still hold the replies of the frame
before (`RestAreReplies`), and a frame belongs to a call, a second one to a read (`FrameOfCall`).
That there are never more transfers than chips is part of `TypeOK`, and
so the values sent and returned stay within the caller's arrays.  That is no statement about the array of statuses,
which the write functions overrun by one (`SPI_TMC.c:37`) and which is not modelled.

`ChipBoot_proofs` proves every safety property of `chip_boot`, for any bound on positions and any
configuration of the drives.  A thread's remaining work is a rest of a program, `Left(program, n)`, so
the proof needs the programs operation by operation: `HandlerWork`, `ResetProgram` (23 operations of
`drv_reset_and_enable`), `CyclicProgram` (39 of the start) and `CycleProgram` lay them out, and
`OtherProgramsWork` says that the others touch nothing but the hardware.  The invariants are

- `TypeInv` for `TypeCorrect`: the types, with those of what the threads have to do and of the speed and
  target that wait for the START pulse;
- `HandlerInv` for `HandlerLeavesMotorsStanding`: the thread a handler runs on stands still, the main
  thread has nothing to do once there is a real-time thread, and so, when the handler is `Alone`,
  nobody sets a speed again once it has pulled NRST low;
- `BootInv` for `CyclesWriteToConfigured`, `MotorsUnderControl` and `BusCycleStartsAtRest`:
  `ChipsAfter(k)` says how far the chips are after k operations of a reset, from chips in any
  state, `Resetting(k)` what is true besides when they were configured before.  `ResetStage` and
  `ResettingGoesOn` take k to k + 1, and `ResetDone` closes the circle: the last stage of a reset is the
  first of the next.  `MainStage` and `RtStage` tie these stages to the rests of the two threads'
  programs.  A board whose VCC_IO is not wired is where this is delicate: there the power stage
  stays on, and only `ramp["VMAX"] = 0` from NRST on (k >= 4) keeps the motor standing until
  the motion controller is configured.

The assumptions are the named ASSUMEs in `Drives`, `StepControl`, `GbcLink`, `IoMap`, `SetPos`, `CyclicLoop`,
`SpiChain` (`ChainAssumption`) and `ChipBoot` (`PositionAssumption`), evaluated by TLC in the runs.  Nothing is
assumed of GBC; of the chips only what `SetPos` and `ChipBoot` say of them.

Only model-checked: the liveness properties `Recovers`, `FaultReactionEnds`, `LastDriveIsReset`,
`ConnectsAgain` and `ComesToRest`, which need fairness and are out of the prover's reach.  Every
other property of a passing run is a theorem.

## 5. Not modelled

- The manufacturer's register tables (`libs/TMC-API/`): constants only.  Setters are modelled by
  field names; the masks that reach a wrong register are modelled by the bit they come to.
- The read of an individual chip (`SPI_TMC.c`): nothing calls it.
- `float_to_fixed` and what it does to large speeds: the library is not in the repository, and no
  code here bounds GBC's distances.
- The statuses of single transfers.  The write functions store the first of them one past the end of
  the caller's array; no code reads them.
- The pin DRV_ENN of the power stages: the program pulls it low at the start and never touches it again.
- How long a motor step and a pass take relative to each other (`SetPos` allows any).
- Fatal exits on unexpected errors of the signal call: the process is gone, which to the chips is
  `Kill` and to GBC an outage that never ends.
- The dialogues of the register reader and the chopper calibration, usage texts, logging.
- What differs from drive to drive in the chips' registers: the program writes them all alike.

What the models show in passing, without a run of their own: `check_for_error` looks neither at
a short to ground nor at an open load, which `StatusDecode` has; `stop_on_stall` and `pos_dev`
test masks of other registers; `BIT_SET` in the iomap functions always sets bit 1; the
differential encoder input is disabled by the configuration's *enable*; the handle of `spiOpen`
is unsigned, so that its failure goes unnoticed; on boards that supply VCC_IO themselves a
signal handler that runs on the main thread, beside the bus cycle, can leave a motor turning.
A machine that reports OPERATION_ENABLED while a drive is in another state can do so for ever: the comments
at `step_control.c:762` and `891` say that this is not looked for, and `Recovers` excepts it (`Mismatch`).
The chips are reset in the middle of a move, against the warning at `drives.c:580`; `reset_in_motion`
shows it, and `UnderControl` says what holds of such a reset all the same.
