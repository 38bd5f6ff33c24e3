-------------------------------- MODULE IoMap --------------------------------
(***************************************************************************)
(* io.c and the two iomap functions of step_control.c: the digital inputs   *)
(* and outputs of the Raspberry Pi, served by the cycles of GbcLink that    *)
(* run the state machine.                                                   *)
(*                                                                         *)
(* The inputs are read before the event, the outputs are written after it,  *)
(* from the bits GBC asks for in OPERATION_ENABLED and as zero otherwise.   *)
(* The digital word in outA is any word.  What the signal handler does to   *)
(* the pins of the chips is in ChipBoot; it does not touch these.           *)
(***************************************************************************)
EXTENDS GbcLink

CONSTANTS
    io_map,    \* the function of each pin and its number for GBC
    Digitals   \* 0 .. DPM_NUM_DIGITALS - 1

IoMaps == [function : {"GPIO_NOT_USED", "GPIO_IN", "GPIO_OUT"},
           gbc_gpio_number : Nat]

ASSUME IoAssumption ==
    /\ DOMAIN io_map \subseteq Nat
    /\ \A pin \in DOMAIN io_map : io_map[pin] \in IoMaps
    /\ Digitals \subseteq Nat

Pins(function, number) ==
    {pin \in DOMAIN io_map : io_map[pin].function = function
                          /\ io_map[pin].gbc_gpio_number = number}
InputPins == UNION {Pins("GPIO_IN", number) : number \in Digitals}
OutputPins == UNION {Pins("GPIO_OUT", number) : number \in Digitals}

VARIABLES
    levels,   \* the levels of the output pins
    digital   \* dpm_in->digital: the set of its bits that are set

ioVars == <<levels, digital>>

\* io_init sets the modes of the pins: an output keeps the level it was left
\* with by whatever program ran before.
io_init == levels \in [OutputPins -> BOOLEAN]

IoInit == LinkInit /\ io_init /\ digital = {}
-----------------------------------------------------------------------------
\* Of several pins with one number the last is returned.
io_get_din(inputs, number) ==
    \E pin \in Pins("GPIO_IN", number) :
        inputs[pin] /\ \A other \in Pins("GPIO_IN", number) : other <= pin

\* BIT_SET is given the value where it wants the number of the bit, so that any
\* input sets bit 1, and so does any cycle that drives the outputs.
BitSet == {1}

\* dpm_in->digital as the two functions leave it, for GBC to read next cycle.
Reported(inputs, zero) ==
    IF ~zero \/ \E number \in Digitals : io_get_din(inputs, number)
    THEN BitSet ELSE {}

step_ctrl_process_iomap_out(bits, zero) ==
    levels' = [pin \in OutputPins |-> ~zero /\ io_map[pin].gbc_gpio_number \in bits]

\* Mutant of Outputting: decided on the state the cycle found.
OutputtingLate == current_state = "OPERATION_ENABLED"
Outputting == current_state' = "OPERATION_ENABLED"

\* What step_ctrl_main adds to a cycle that runs it.
ServeDigitals ==
    \E inputs \in [InputPins -> BOOLEAN], bits \in SUBSET Digitals :
        /\ step_ctrl_process_iomap_out(bits, ~Outputting)
        /\ digital' = Reported(inputs, ~Outputting)

IoBusCycle ==
    \/ (CycleServed \/ CycleConnects) /\ ServeDigitals
    \/ CycleIdles /\ UNCHANGED ioVars

IoNext ==
    \/ (GbcCommand \/ GbcEcho \/ GbcGoes \/ GbcStarts) /\ UNCHANGED ioVars
    \/ IoBusCycle

IoSafeSpec == IoInit /\ [][IoNext]_<<allVars, ioVars>>
IoSpec == IoSafeSpec /\ WF_<<allVars, ioVars>>(IoBusCycle)
-----------------------------------------------------------------------------
\* No output is on for a command nobody stands behind: once a first cycle has
\* run, an output that is on was switched by a cycle that found GBC's echo in
\* the tolerance and no fault, and left the machine in OPERATION_ENABLED.  In
\* an outage of GBC that cycle may have been long ago: nothing cuts them then.
OutputsCut ==
    (machine_word # "NONE" /\ \E pin \in OutputPins : levels[pin]) =>
        /\ machine_word = "OPERATION_ENABLED"
        /\ active_fault_word = {}
        /\ heartbeat_ok(gbsm_heartbeat, gbc_heartbeat)
=============================================================================
