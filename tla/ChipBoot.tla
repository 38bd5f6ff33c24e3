------------------------------ MODULE ChipBoot ------------------------------
(***************************************************************************)
(* The life of the chips: start of the program, reset and configuration,    *)
(* the writes of the bus cycle, resets from the real-time thread, the       *)
(* signal handler, and a process that is killed and started again on chips  *)
(* that have kept their registers and may still be turning a motor.         *)
(*                                                                         *)
(* Each thread has a piece of ChipConfig to do, an operation at a time, and *)
(* the threads interleave.  One chip pair stands for all: this module's     *)
(* writes go to every drive's chips alike.  What a motor does follows from  *)
(* the registers.                                                           *)
(***************************************************************************)
EXTENDS ChipConfig

CONSTANT MaxPosition   \* bound on positions
ASSUME PositionAssumption == MaxPosition \in Nat \ {0}
Positions == 0 .. MaxPosition

Threads == {"main", "rt", "handler"}
Programs == {"CYCLIC", "REG_READ", "TEST_MOVE", "HYST_TUNE"}

VARIABLES
    threads,      \* the threads there are; no process if there is none
    interrupted,  \* the thread the signal handler runs on
    todo,         \* what each thread still has to do
    catches,      \* has the process registered its signal handler?
    hspi,         \* the SPI handle: "closed", "open", or "failed"
    ended,        \* how the last process ended
    vcc_wired,    \* is the VCC_IO pin connected, or does the board supply it?
    pins,         \* levels; for CLK the frequency
    motion,       \* the TMC4361A's registers that have been written
    driver,       \* the TMC5160's registers that have been written
    ramp,         \* the VMAX and X_TARGET in effect
    xactual       \* the position the TMC4361A counts

programVars == <<threads, interrupted, todo, catches, hspi, ended>>
chipVars == <<pins, motion, driver, ramp, xactual>>
vars == <<programVars, vcc_wired, chipVars>>

NoRegisters == [r \in {} |-> Zero]
RampRegisters == {"VMAX", "X_TARGET"}
Still == [r \in RampRegisters |-> 0]

\* The board is switched on, with its reset pins pulled up and no clock.
Init ==
    /\ threads = {} /\ interrupted = "none" /\ catches = FALSE
    /\ todo = [t \in Threads |-> <<>>]
    /\ hspi = "closed" /\ ended = "none"
    /\ vcc_wired \in BOOLEAN
    /\ pins = [VCC_IO |-> 1, NRST |-> 1, CLK |-> 0]
    /\ motion = NoRegisters /\ driver = NoRegisters
    /\ ramp = Still /\ xactual = 0
-----------------------------------------------------------------------------
\* The chips.
Register(bank, reg) == IF reg \in DOMAIN bank THEN bank[reg] ELSE Zero
Put(bank, reg, word) == [r \in DOMAIN bank \cup {reg} |-> IF r = reg THEN word ELSE bank[r]]

WaitsForStart == Field(Register(motion, "START_CONF"), "START_EN0") = 1
PositionMode == Field(Register(motion, "RAMPMODE"), "OPERATION_MODE") = 1
SendsCovers == Field(Register(motion, "SPIOUT_CONF"), "SPI_OUTPUT_FORMAT") = 12
Powered == Field(Register(driver, "CHOPCONF"), "TOFF") > 0
DriverInReset == vcc_wired /\ pins.VCC_IO = 0

\* The motion controller puts out steps; the motor makes them if its power
\* stage is on.
Counts == /\ pins.CLK # 0 /\ pins.NRST = 1
          /\ ramp["VMAX"] # 0
          /\ PositionMode => xactual # ramp["X_TARGET"]
Turning == Counts /\ Powered

\* The motor controller is at work with the configuration the program is
\* written for.
Configured ==
    /\ PositionMode /\ WaitsForStart /\ Powered
    /\ Register(motion, "CLK_FREQ") = pins.CLK
    /\ Field(Register(driver, "IHOLD_IRUN"), "IRUN") > 0

ChipStep ==
    /\ Counts
    /\ xactual' = IF ~PositionMode THEN (xactual + 1) % (MaxPosition + 1)
                  ELSE IF xactual < ramp["X_TARGET"] THEN xactual + 1 ELSE xactual - 1
    /\ UNCHANGED <<programVars, vcc_wired, pins, motion, driver, ramp>>

Receives == hspi = "open" /\ pins.NRST = 1

\* A TMC4361A obeys a write.
Obey(reg, word) ==
    /\ UNCHANGED pins
    /\ motion' = IF reg \in {"XACTUAL", "COVER_LOW_WR"} THEN motion ELSE Put(motion, reg, word)
    /\ xactual' = IF reg = "XACTUAL" THEN word ELSE xactual
    /\ ramp' = IF reg \in RampRegisters /\ ~WaitsForStart
               THEN [ramp EXCEPT ![reg] = word] ELSE ramp
    /\ LET cover == motion["COVER_HIGH_WR"]
       IN driver' = IF /\ reg = "COVER_LOW_WR" /\ SendsCovers /\ ~DriverInReset
                       /\ "COVER_HIGH_WR" \in DOMAIN motion /\ cover[1] = "write"
                    THEN Put(driver, cover[2], word) ELSE driver

\* A reset pin that goes low takes its chip's registers with it.
SetPin(pin, level) ==
    /\ pins' = [pins EXCEPT ![pin] = level]
    /\ IF pin = "NRST" /\ level = 0
       THEN motion' = NoRegisters /\ ramp' = Still /\ xactual' = 0
       ELSE UNCHANGED <<motion, ramp, xactual>>
    /\ driver' = IF pin = "VCC_IO" /\ level = 0 /\ vcc_wired THEN NoRegisters ELSE driver

drv_send_start_trigger ==
    /\ ramp' = IF WaitsForStart
               THEN [r \in RampRegisters |-> IF r \in DOMAIN motion THEN motion[r] ELSE ramp[r]]
               ELSE ramp
    /\ UNCHANGED <<pins, motion, driver, xactual>>

\* What an operation does to the chips.
Effect(op) ==
    CASE op.do = "write" /\ Receives -> Obey(op.reg, op.word)
      [] op.do = "pin" -> SetPin(op.pin, op.level)
      [] op.do = "trigger" -> drv_send_start_trigger
      [] OTHER -> UNCHANGED chipVars
-----------------------------------------------------------------------------
\* The program.
Step(name) == <<[do |-> name]>>

\* io_init configures no pin of the chips.  A failing spiOpen goes unnoticed,
\* because the handle it is tested in is unsigned.
drv_init_spi_and_pins ==
    Step("catch_signals") \o Step("open_spi")
    \o gpio_configure_TMC5160_and_TMC4361_pins \o resetMotorDrivers

drv_init_spi_and_drivers ==
    drv_init_spi_and_pins \o drv_init_tmc4361a \o drv_init_tmc5160_covers

\* The last program named, if none of the options asks for help or is unknown.
process_command_line(args) ==
    LET named == {i \in DOMAIN args : args[i] \in Programs}
    IN IF \E i \in DOMAIN args : args[i] \in {"--help", "-?"} THEN "none"
       ELSE IF named = {} THEN "CYCLIC"
       ELSE args[CHOOSE i \in named : \A j \in named : j <= i]

Options == Programs \cup {"--help", "-?", "no such program"}
Arguments == {<<>>} \cup {<<a>> : a \in Options} \cup {<<a, b>> : a, b \in Options}

main(program, rand_xactual) ==
    CASE program = "CYCLIC" -> drv_init_spi_and_drivers
                               \o drv_check_and_enable(rand_xactual) \o Step("start_thread")
      [] program = "TEST_MOVE" -> test_motors_oscillating_move(1, MaxPosition)
      [] program = "HYST_TUNE" -> calibrate_spread_cycle(1, MaxPosition, Zero)
      [] program = "REG_READ" -> interactive_reg_print("TMC5160", "CHOPCONF")
                                 \o interactive_reg_print("TMC4361A", "XACTUAL")
                                 \o Step("exit")

Start(args) ==
    LET program == process_command_line(args)
    IN /\ threads = {} /\ program # "none"
       /\ threads' = {"main"} /\ interrupted' = "none"
       /\ catches' = FALSE /\ hspi' = "closed" /\ ended' = "none"
       /\ \E rand_xactual \in Positions :
             todo' = [todo EXCEPT !["main"] = main(program, rand_xactual),
                                     !["rt"] = <<>>]
       /\ UNCHANGED <<vcc_wired, chipVars>>

\* The next thing a thread has to do, unless a signal handler runs on it.
Does(t, what) ==
    /\ t \in threads /\ t # interrupted /\ todo[t] # <<>>
    /\ Head(todo[t]).do = what

Operate(t) ==
    /\ \E what \in {"write", "read", "pin", "trigger"} : Does(t, what)
    /\ Effect(Head(todo[t]))
    /\ todo' = [todo EXCEPT ![t] = Tail(@)]
    /\ UNCHANGED <<threads, interrupted, catches, hspi, ended, vcc_wired>>

\* A transfer of another thread while the handler reads is lost: with the chip
\* selects shared, the chips act on the last bits only.
Collide(t) ==
    /\ Does("handler", "read") /\ Does(t, "write")
    /\ todo' = [todo EXCEPT !["handler"] = Tail(@), ![t] = Tail(@)]
    /\ UNCHANGED <<threads, interrupted, catches, hspi, ended, vcc_wired, chipVars>>

CatchSignals ==
    /\ Does("main", "catch_signals")
    /\ catches' = TRUE
    /\ todo' = [todo EXCEPT !["main"] = Tail(@)]
    /\ UNCHANGED <<threads, interrupted, hspi, ended, vcc_wired, chipVars>>

OpenSpi ==
    /\ Does("main", "open_spi")
    /\ hspi' \in {"open", "failed"}
    /\ todo' = [todo EXCEPT !["main"] = Tail(@)]
    /\ UNCHANGED <<threads, interrupted, catches, ended, vcc_wired, chipVars>>

StartThread ==
    /\ Does("main", "start_thread")
    /\ threads' = threads \cup {"rt"}
    /\ todo' = [todo EXCEPT !["main"] = <<>>]
    /\ UNCHANGED <<interrupted, catches, hspi, ended, vcc_wired, chipVars>>

\* A bus cycle sets speed and target and gives the START pulse; it may end in
\* the chips being reset because a drive has been in fault reaction too long.
\* With GBC gone there are no cycles.
step_ctrl_main ==
    /\ "rt" \in threads /\ interrupted # "rt" /\ todo["rt"] = <<>>
    /\ \E v \in {0, 1}, x \in Positions, reset \in BOOLEAN :
          todo' = [todo EXCEPT !["rt"] =
                     Write("VMAX", v) \o Write("X_TARGET", x) \o Trigger
                     \o (IF reset THEN drv_reset_and_enable ELSE <<>>)]
    /\ UNCHANGED <<threads, interrupted, catches, hspi, ended, vcc_wired, chipVars>>

\* SIGINT, SIGHUP or SIGTERM interrupts the main thread, while the real-time
\* thread goes on, or the real-time thread.
gpio_terminate_pigpio ==
    /\ catches /\ "handler" \notin threads
    /\ interrupted' \in threads
    /\ threads' = threads \cup {"handler"}
    /\ todo' = [todo EXCEPT !["handler"] = resetMotorDrivers \o Step("exit")]
    /\ UNCHANGED <<catches, hspi, ended, vcc_wired, chipVars>>

\* Alone: no other thread was at work beside the handler.
Exit(t) ==
    /\ Does(t, "exit")
    /\ ended' = IF t = "handler" THEN (IF "rt" \in threads \ {interrupted} THEN "beside" ELSE "alone")
                ELSE "returned"
    /\ threads' = {} /\ interrupted' = "none"
    /\ todo' = [u \in Threads |-> <<>>]
    /\ UNCHANGED <<catches, hspi, vcc_wired, chipVars>>

\* SIGKILL, a signal before the handler is registered, or a failed check.
Kill ==
    /\ threads # {}
    /\ threads' = {} /\ interrupted' = "none" /\ ended' = "killed"
    /\ todo' = [u \in Threads |-> <<>>]
    /\ UNCHANGED <<catches, hspi, vcc_wired, chipVars>>

Next ==
    \/ \E args \in Arguments : Start(args)
    \/ \E t \in Threads : Operate(t) \/ Collide(t) \/ Exit(t)
    \/ CatchSignals \/ OpenSpi \/ StartThread
    \/ step_ctrl_main \/ gpio_terminate_pigpio \/ Kill
    \/ ChipStep

\* Only the motors are sure to go on.
Spec == Init /\ [][Next]_vars /\ WF_vars(ChipStep)
-----------------------------------------------------------------------------
Ops == {"write", "read", "pin", "trigger", "catch_signals", "open_spi", "start_thread", "exit"}

TypeOK ==
    /\ threads \subseteq Threads
    /\ interrupted \in {"none", "main", "rt"}
    /\ \A t \in Threads : \A i \in DOMAIN todo[t] : todo[t][i].do \in Ops
    /\ catches \in BOOLEAN /\ vcc_wired \in BOOLEAN
    /\ hspi \in {"closed", "open", "failed"}
    /\ ended \in {"none", "alone", "beside", "returned", "killed"}
    /\ pins \in [VCC_IO : {0, 1}, NRST : {0, 1}, CLK : {0, ClockFrequency}]
    /\ ramp \in [VMAX : {0, 1}, X_TARGET : Positions]
    /\ xactual \in Positions

Writes(t, regs) == Does(t, "write") /\ Head(todo[t]).reg \in regs

\* What drv_set_setpos writes has the meaning it was written for: whatever
\* process was killed on these chips before, and wherever a bus cycle has reset
\* them, they are powered, latch at START, hold positions and know their clock.
CyclesOnConfigured ==
    (Writes("rt", RampRegisters) /\ "handler" \notin threads /\ hspi = "open") => Configured

\* The bus cycle takes over motors at rest, with positions counted from zero,
\* although the check at start-up moves XACTUAL and the process before may have
\* left the motors turning.
StartsStep ==
    ("rt" \notin threads /\ "rt" \in threads' /\ hspi = "open")
        => Configured /\ ~Counts /\ xactual = 0
StartsAtRest == [][StartsStep]_vars

\* No motor runs away: from the first reset on, a motor turns only on chips that
\* are wholly configured, also while drv_update_state resets them in the middle
\* of motion.  (The handler, which resets them beside the bus cycle, is apart.)
Resets(op) == op.do = "pin" /\ op.pin = "NRST" /\ op.level = 0
HasReset == "main" \in threads /\ hspi = "open"
            /\ \A i \in DOMAIN todo["main"] : ~Resets(todo["main"][i])
UnderControl ==
    (HasReset /\ "handler" \notin threads /\ Turning) => Configured

\* "SIGINT/SIGHUP/SIGTERM received, we will clean up": when the handler has run
\* on the only thread at work the motors stand, on boards where the program
\* cannot switch the power stage off too.
HandlerStops == ended = "alone" => ~Turning

\* With the connection to GBC lost no bus cycle is run and nothing stops a
\* motor, but each comes to rest by itself, at its last target.
Idle == "rt" \in threads /\ "handler" \notin threads /\ todo["rt"] = <<>> /\ hspi = "open"
ComesToRest == (<>[]Idle) => <>[]~Turning
-----------------------------------------------------------------------------
\* What comments and messages of the program say, and the code does not do.

\* resetMotorDrivers, "Does not reset unless motors are stopped": a start or a
\* signal handler that reads the velocities while a motor turns does not go on
\* to the reset.  (The bus cycle's own reset, which comes when a drive has long
\* been disabled, is apart: step_ctrl_main here may reset at any time.)
SparesTurning ==
    \A t \in {"main", "handler"} :
        (Operate(t) /\ Does(t, "read") /\ Turning)
            => \A i \in DOMAIN todo'[t] : ~Resets(todo'[t][i])
ResetsOnlyStopped == [][SparesTurning]_vars

\* "Read a register from the Trinamic ICs (with their initialised values)":
\* what a program transfers goes through an SPI device that has been opened.
ProgramsAreServed ==
    \A t \in Threads : (Does(t, "write") \/ Does(t, "read")) => hspi # "closed"
=============================================================================
