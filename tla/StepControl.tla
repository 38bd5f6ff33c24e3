----------------------------- MODULE StepControl -----------------------------
(***************************************************************************)
(* step_control.c: the machine-level CiA 402 state machine, and with it     *)
(* one whole bus cycle of the control program.                              *)
(*                                                                         *)
(* The real-time thread calls step_ctrl_main() once a cycle with a fresh    *)
(* dpm_out.  The call checks the heartbeat, samples the flags of the        *)
(* previous cycle, steps the drives (drv_update_state) and hands one cyclic *)
(* event to the state machine.  The guards of the machine's current state   *)
(* are tried in the order of its transition table; a guard that is asked to *)
(* move the machine first commands the drives, and only lets the machine    *)
(* follow when every drive has arrived.  One action here is one cycle that  *)
(* ends in that guard.  Positions, digital signals and log messages are not *)
(* part of this module.                                                     *)
(***************************************************************************)
EXTENDS Drives

CONSTANTS
    Timeout,          \* CTRL_DRIVE_CHANGE_STATE_TIMEOUT
    HbTolerance,      \* CTRL_HEARTBEAT_TOLERANCE
    HbModulus,        \* the heartbeat counters wrap at 2^32
    EchoLags,         \* lags a new value of dpm_out->heartbeat may show
    Outputs           \* the values GBC gives dpm_out->machine_word

ASSUME TimeoutAssumption == Timeout \in Nat \ {0}
ASSUME HeartbeatAssumption ==
    /\ HbTolerance \in Nat
    /\ HbModulus \in Nat
    /\ HbModulus > HbTolerance + 2
    /\ EchoLags \subseteq 0 .. HbModulus - 1

\* dpm_out->machine_word, a command and the fault-request bit.  It is copied
\* afresh from the shared memory before each call and read in that call only, so
\* it is the parameter of the cycle, `out', and not a variable.
MachineWords == [command : CiaCommands, request_fault : BOOLEAN]

ASSUME OutputsAssumption == Outputs \subseteq MachineWords

VARIABLES
    current_state,       \* state of the machine
    cycle_count,         \* step_ctrl_state_change_cycle_count
    reset_in_progress,   \* static counter of trn14, modulo 5
    gbsm_heartbeat,      \* counts the cycles
    gbc_heartbeat,       \* dpm_out->heartbeat, the value GBC echoes
    machine_word,        \* dpm_in->machine_word: the state GBC is told
    active_fault_word,   \* dpm_in->active_fault_word
    fault_history_word   \* dpm_in->fault_history_word

smVars == <<current_state, cycle_count, reset_in_progress, gbsm_heartbeat,
            gbc_heartbeat, machine_word, active_fault_word, fault_history_word>>

vars == <<drvVars, smVars>>

FaultCause == {"HEARTBEAT_LOST", "DRIVE_FOLLOW_ERROR", "GBC_FAULT_REQUEST",
               "DRIVE_FAULT", "DRIVE_STATE_CHANGE_TIMEOUT", "LIMIT_REACHED"}

\* A quick stop answers a command twice in one cycle (trn16 and trn12), so the
\* counter may pass the timeout by two before the fault is seen.
MaxCount == Timeout + 2

TypeOK ==
    /\ DrvTypeOK
    /\ current_state \in CiaStates
    /\ cycle_count \in 0 .. MaxCount
    /\ reset_in_progress \in 0 .. 4
    /\ gbsm_heartbeat \in 0 .. HbModulus - 1
    /\ gbc_heartbeat \in 0 .. HbModulus - 1
    /\ machine_word \in CiaStates \cup {"NONE"}
    /\ active_fault_word \subseteq FaultCause
    /\ fault_history_word \subseteq FaultCause

\* stateM_init() runs no entry action, so GBC is told nothing until the first
\* transition.
Init ==
    /\ DrvInit
    /\ current_state = "NOT_READY_TO_SWITCH_ON"
    /\ cycle_count = 1
    /\ reset_in_progress = 0
    /\ gbsm_heartbeat = 0
    /\ gbc_heartbeat = 0
    /\ machine_word = "NONE"
    /\ active_fault_word = {}
    /\ fault_history_word = {}
-----------------------------------------------------------------------------
\* gbsm - gbc in unsigned arithmetic.
lag(gbsm, gbc) == IF gbsm >= gbc THEN gbsm - gbc ELSE gbsm - gbc + HbModulus

heartbeat_ok(gbsm, gbc) == lag(gbsm, gbc) <= HbTolerance

\* gbsm_heartbeat is incremented.  GBC either has written nothing new since the
\* last cycle, or its heartbeat is another one: a recent echo, or whatever lag
\* the zero of a freshly established shared memory amounts to.
Heartbeat ==
    /\ gbsm_heartbeat' = IF gbsm_heartbeat + 1 = HbModulus THEN 0
                         ELSE gbsm_heartbeat + 1
    /\ gbc_heartbeat' \in {gbc_heartbeat}
          \cup {h \in 0 .. HbModulus - 1 : lag(gbsm_heartbeat', h) \in EchoLags}

\* The part of step_ctrl_main before the event.
ReadInputs ==
    /\ Heartbeat
    /\ \E flags \in [Drive -> FlagSets] : drv_update_state(flags)

\* step_ctrl_check_all_drives_state and step_ctrl_check_any_drives_state run
\* after drv_update_state, so they see the new states.
AllDrives(state) == \A d \in Drive : g_drv_cia_state'[d] = state
AnyDrive(state) == \E d \in Drive : g_drv_cia_state'[d] = state

\* GBC has gone silent.  Mutant: tested on the values of the cycle before.
HeartbeatLostStale == ~heartbeat_ok(gbsm_heartbeat, gbc_heartbeat)
HeartbeatLost == ~heartbeat_ok(gbsm_heartbeat', gbc_heartbeat')

\* The drives took too long.  Mutant: one cycle later.
TimedOutLate == cycle_count > Timeout + 1
TimedOut == cycle_count > Timeout

\* The fault conditions that some configuration of this program can meet.  The
\* follow-error and limit flags were sampled before drv_update_state() renewed
\* them, the drive states after it.
FaultPresent(out) == [
    HEARTBEAT_LOST     |-> HeartbeatLost,
    DRIVE_FOLLOW_ERROR |-> \E d \in Drive : "stall" \in g_drv_status_flag[d],
    LIMIT_REACHED      |-> \E d \in Drive : "vstop" \in g_drv_status_flag[d],
    GBC_FAULT_REQUEST  |-> out.request_fault,
    DRIVE_FAULT        |-> AnyDrive("FAULT_REACTION_ACTIVE") \/ AnyDrive("FAULT"),
    DRIVE_STATE_CHANGE_TIMEOUT |-> TimedOut]

FaultCauses(out) ==
    LET present == FaultPresent(out) IN {cause \in FaultCause : present[cause]}

\* cia_is_fault_condition, which also publishes what it found.
FaultCondition(out) ==
    /\ active_fault_word' = FaultCauses(out)
    /\ FaultCauses(out) # {}

NoFaultCondition(out) ==
    /\ active_fault_word' = {}
    /\ FaultCauses(out) = {}

\* Mutant of Enter: the causes are recorded on the way out of fault reaction.
EnterLate(state) ==
    /\ current_state' = state
    /\ machine_word' = state
    /\ fault_history_word' = IF state = "FAULT" THEN active_fault_word'
                             ELSE fault_history_word

\* The machine changes state and runs cia_generic_entry_action.
Enter(state) ==
    /\ current_state' = state
    /\ machine_word' = state
    /\ fault_history_word' = IF state = "FAULT_REACTION_ACTIVE"
                             THEN active_fault_word' ELSE fault_history_word

Remain == UNCHANGED <<current_state, machine_word, fault_history_word>>
-----------------------------------------------------------------------------
\* Mutant of Follow: the drives are sent nothing, as in trn12.
FollowUnsent(out, from, commands, to, word) ==
    /\ current_state = from
    /\ out.command \in commands
    /\ NoFaultCondition(out)
    /\ \/ /\ AllDrives(to)
          /\ cycle_count' = 0
          /\ Enter(to)
       \/ /\ ~AllDrives(to)
          /\ cycle_count' = cycle_count + 1
          /\ Remain
    /\ UNCHANGED <<g_drv_ctrlwrd, reset_in_progress>>

\* The shape of most guards: asked for by one of `commands', the machine goes
\* from one state to the next once all drives are there, and until then the
\* drives are sent `word' and the cycles are counted.
Follow(out, from, commands, to, word) ==
    /\ current_state = from
    /\ out.command \in commands
    /\ NoFaultCondition(out)
    /\ \/ /\ AllDrives(to)
          /\ cycle_count' = 0
          /\ UNCHANGED g_drv_ctrlwrd
          /\ Enter(to)
       \/ /\ ~AllDrives(to)
          /\ cycle_count' = cycle_count + 1
          /\ drv_set_ctrl_wrd(word)
          /\ Remain
    /\ UNCHANGED reset_in_progress

\* The first, unguarded step out of NOT_READY_TO_SWITCH_ON.
Trn1(out) ==
    /\ current_state = "NOT_READY_TO_SWITCH_ON"
    /\ NoFaultCondition(out)
    /\ Enter("SWITCH_ON_DISABLED")
    /\ UNCHANGED <<g_drv_ctrlwrd, cycle_count, reset_in_progress>>

\* The one waiting guard that neither counts its cycles nor resets the count.
Trn2(out) ==
    /\ current_state = "SWITCH_ON_DISABLED"
    /\ NoFaultCondition(out)
    /\ out.command = "SHUTDOWN"
    /\ \/ /\ AllDrives("READY_TO_SWITCH_ON")
          /\ UNCHANGED g_drv_ctrlwrd
          /\ Enter("READY_TO_SWITCH_ON")
       \/ /\ ~AllDrives("READY_TO_SWITCH_ON")
          /\ drv_set_ctrl_wrd("SHUTDOWN")
          /\ Remain
    /\ UNCHANGED <<cycle_count, reset_in_progress>>

Trn3(out) == Follow(out, "READY_TO_SWITCH_ON", {"SWITCH_ON"},
                    "SWITCHED_ON", "SWITCH_ON")

Trn4(out) == Follow(out, "SWITCHED_ON", {"ENABLE_OPERATION"},
                    "OPERATION_ENABLED", "ENABLE_OPERATION")

Trn5(out) == Follow(out, "OPERATION_ENABLED", {"DISABLE_OPERATION", "SWITCH_ON"},
                    "SWITCHED_ON", DisableOperationWord)

Trn6(out) == Follow(out, "SWITCHED_ON", {"SHUTDOWN"},
                    "READY_TO_SWITCH_ON", "SHUTDOWN")

Trn7(out) == Follow(out, "READY_TO_SWITCH_ON", {"DISABLE_VOLTAGE", "QUICK_STOP"},
                    "SWITCH_ON_DISABLED", "DISABLE_VOLTAGE")

\* Mutant of Trn8: the machine does not wait for the drives.
Trn8Eager(out) ==
    /\ current_state = "OPERATION_ENABLED"
    /\ NoFaultCondition(out)
    /\ out.command = "SHUTDOWN"
    /\ drv_set_ctrl_wrd("SHUTDOWN")
    /\ Enter("READY_TO_SWITCH_ON")
    /\ cycle_count' = 0
    /\ UNCHANGED reset_in_progress

Trn8(out) == Follow(out, "OPERATION_ENABLED", {"SHUTDOWN"},
                    "READY_TO_SWITCH_ON", "SHUTDOWN")

Trn9(out) == Follow(out, "OPERATION_ENABLED", {"DISABLE_VOLTAGE"},
                    "SWITCH_ON_DISABLED", "DISABLE_VOLTAGE")

Trn10(out) == Follow(out, "SWITCHED_ON", {"DISABLE_VOLTAGE", "QUICK_STOP"},
                     "SWITCH_ON_DISABLED", "DISABLE_VOLTAGE")

\* Quick stop: the drives may also have gone all the way to disabled.
Trn11(out) ==
    /\ current_state = "OPERATION_ENABLED"
    /\ NoFaultCondition(out)
    /\ out.command = "QUICK_STOP"
    /\ LET arrived == AllDrives("QUICK_STOP_ACTIVE") \/ AllDrives("SWITCH_ON_DISABLED")
       IN \/ /\ arrived
             /\ cycle_count' = 0
             /\ UNCHANGED g_drv_ctrlwrd
             /\ Enter("QUICK_STOP_ACTIVE")
          \/ /\ ~arrived
             /\ cycle_count' = cycle_count + 1
             /\ drv_set_ctrl_wrd("QUICK_STOP")
             /\ Remain
    /\ UNCHANGED reset_in_progress

\* In QUICK_STOP_ACTIVE a request to enable operation again is tried first ...
Trn16(out) ==
    /\ current_state = "QUICK_STOP_ACTIVE"
    /\ NoFaultCondition(out)
    /\ out.command = "ENABLE_OPERATION"
    /\ AllDrives("OPERATION_ENABLED")
    /\ cycle_count' = 0
    /\ Enter("OPERATION_ENABLED")
    /\ UNCHANGED <<g_drv_ctrlwrd, reset_in_progress>>

\* ... and when it fails, having sent its word and counted the cycle, trn12
\* waits for the drives to be disabled, whatever the command is.  It sends them
\* nothing, and counts the cycle (again).
Trn12(out) ==
    LET asked == out.command = "ENABLE_OPERATION"
    IN /\ current_state = "QUICK_STOP_ACTIVE"
       /\ NoFaultCondition(out)
       /\ asked => ~AllDrives("OPERATION_ENABLED")
       /\ IF asked THEN drv_set_ctrl_wrd(EnableOperationEnum)
                   ELSE UNCHANGED g_drv_ctrlwrd
       /\ \/ /\ AllDrives("SWITCH_ON_DISABLED")
             /\ cycle_count' = 0
             /\ Enter("SWITCH_ON_DISABLED")
          \/ /\ ~AllDrives("SWITCH_ON_DISABLED")
             /\ cycle_count' = cycle_count + (IF asked THEN 2 ELSE 1)
             /\ Remain
       /\ UNCHANGED reset_in_progress

Trn15(out) == Follow(out, "FAULT", {"FAULT_RESET"},
                     "SWITCH_ON_DISABLED", "FAULT_RESET")

\* Mutants of Trn13: the quick stop is forgotten; the counter is cleared.
Trn13Silent(out) ==
    /\ current_state # "FAULT_REACTION_ACTIVE"
    /\ FaultCondition(out)
    /\ Enter("FAULT_REACTION_ACTIVE")
    /\ UNCHANGED <<g_drv_ctrlwrd, cycle_count, reset_in_progress>>

Trn13Clears(out) ==
    /\ current_state # "FAULT_REACTION_ACTIVE"
    /\ FaultCondition(out)
    /\ drv_set_ctrl_wrd("QUICK_STOP")
    /\ Enter("FAULT_REACTION_ACTIVE")
    /\ cycle_count' = 0
    /\ UNCHANGED reset_in_progress

\* A fault, in any state but fault reaction, wins over every command.  (The
\* mismatch test that follows in the guard wants the counter past the timeout,
\* which is a fault already: it is never reached with effect.)
Trn13(out) ==
    /\ current_state # "FAULT_REACTION_ACTIVE"
    /\ FaultCondition(out)
    /\ drv_set_ctrl_wrd("QUICK_STOP")
    /\ Enter("FAULT_REACTION_ACTIVE")
    /\ UNCHANGED <<cycle_count, reset_in_progress>>

\* Mutant of Trn14: it does not ask where the drives are.
Trn14Early(out) ==
    /\ current_state = "FAULT_REACTION_ACTIVE"
    /\ NoFaultCondition(out)
    /\ Enter("FAULT")
    /\ UNCHANGED <<g_drv_ctrlwrd, cycle_count, reset_in_progress>>

\* Fault reaction ends when all drives are disabled and nothing is wrong.
Trn14(out) ==
    /\ current_state = "FAULT_REACTION_ACTIVE"
    /\ AllDrives("SWITCH_ON_DISABLED")
    /\ NoFaultCondition(out)
    /\ Enter("FAULT")
    /\ UNCHANGED <<g_drv_ctrlwrd, cycle_count, reset_in_progress>>

\* Mutant of FaultReaction: the counter of trn14 is not static.
FaultReactionUncounted(out) ==
    /\ current_state = "FAULT_REACTION_ACTIVE"
    /\ AllDrives("SWITCH_ON_DISABLED") => FaultCauses(out) # {}
    /\ active_fault_word' = FaultCauses(out)
    /\ IF AllDrives("SWITCH_ON_DISABLED")
       THEN UNCHANGED <<g_drv_ctrlwrd, reset_in_progress>>
       ELSE /\ reset_in_progress' = 1
            /\ drv_set_ctrl_wrd(ZeroWord)
    /\ Remain
    /\ UNCHANGED cycle_count

\* Until then trn14 sends every fifth cycle a fault reset and the zero word in
\* between, and the unguarded loop publishes the current causes.
FaultReaction(out) ==
    /\ current_state = "FAULT_REACTION_ACTIVE"
    /\ AllDrives("SWITCH_ON_DISABLED") => FaultCauses(out) # {}
    /\ active_fault_word' = FaultCauses(out)
    /\ IF AllDrives("SWITCH_ON_DISABLED")
       THEN UNCHANGED <<g_drv_ctrlwrd, reset_in_progress>>
       ELSE /\ reset_in_progress' = (reset_in_progress + 1) % 5
            /\ drv_set_ctrl_wrd(IF reset_in_progress' = 0 THEN "FAULT_RESET"
                                                          ELSE ZeroWord)
    /\ Remain
    /\ UNCHANGED cycle_count

\* The commands the guards of a state look for.
Answered == [
    SWITCH_ON_DISABLED |-> {"SHUTDOWN"},
    READY_TO_SWITCH_ON |-> {"SWITCH_ON", "DISABLE_VOLTAGE", "QUICK_STOP"},
    SWITCHED_ON        |-> {"SHUTDOWN", "ENABLE_OPERATION",
                            "DISABLE_VOLTAGE", "QUICK_STOP"},
    OPERATION_ENABLED  |-> {"DISABLE_OPERATION", "SWITCH_ON", "SHUTDOWN",
                            "DISABLE_VOLTAGE", "QUICK_STOP"},
    FAULT              |-> {"FAULT_RESET"}]

\* Every guard says no: nothing is sent and nothing is counted.
NoTransition(out) ==
    /\ current_state \in DOMAIN Answered
    /\ NoFaultCondition(out)
    /\ out.command \notin Answered[current_state]
    /\ Remain
    /\ UNCHANGED <<g_drv_ctrlwrd, cycle_count, reset_in_progress>>
-----------------------------------------------------------------------------
HandleEvent(out) ==
    \/ Trn1(out)  \/ Trn2(out)  \/ Trn3(out)  \/ Trn4(out)
    \/ Trn5(out)  \/ Trn6(out)  \/ Trn7(out)  \/ Trn8(out)
    \/ Trn9(out)  \/ Trn10(out) \/ Trn11(out) \/ Trn12(out)
    \/ Trn13(out) \/ Trn14(out) \/ Trn15(out) \/ Trn16(out)
    \/ FaultReaction(out) \/ NoTransition(out)

step_ctrl_main(out) == ReadInputs /\ HandleEvent(out)

Next == \E out \in Outputs : step_ctrl_main(out)

\* The real-time thread never stops calling step_ctrl_main while GBC's process
\* exists: step_cyclic is an endless loop paced by an absolute-time sleep.
SafeSpec == Init /\ [][Next]_vars
Spec == SafeSpec /\ WF_vars(Next)
-----------------------------------------------------------------------------
\* A drive moves its motor to the set position only when operation-enabled.
Moving == {d \in Drive : g_drv_cia_state[d] = "OPERATION_ENABLED"}

\* The machine states in which GBC may have a drive enabled: the machine trails
\* the drives by a cycle on the way into OPERATION_ENABLED and out of it.
PermitStates == {"SWITCHED_ON", "OPERATION_ENABLED", "QUICK_STOP_ACTIVE"}

\* The motion permit cannot be lost with a drive left running, nor regained by a
\* word that was sent before the loss: whatever words, flags and echoes arrive,
\* a drive is enabled only while the machine is in a permit state or, for the
\* one cycle it takes the quick stop of trn13 to arrive, in fault reaction; and
\* outside the permit states no drive is one ENABLE_OPERATION short of moving.
MotionAuthority ==
    current_state \notin PermitStates =>
        \A d \in Drive :
            /\ d \in Moving => /\ current_state = "FAULT_REACTION_ACTIVE"
                               /\ g_drv_ctrlwrd[d] = "QUICK_STOP"
            /\ g_drv_ctrlwrd[d] = "ENABLE_OPERATION" =>
                  g_drv_cia_state[d] \notin {"SWITCHED_ON", "QUICK_STOP_ACTIVE",
                                             "OPERATION_ENABLED"}

\* The bank of drives and the machine above it implement the motion permit of
\* MotionPermit: a fault stops every drive by the end of the next cycle, and no
\* drive starts again before FAULT has been reset and the machine has been
\* through the whole enabling sequence.
Permit == INSTANCE MotionPermit WITH
    permit  <- current_state \in PermitStates,
    moving  <- Moving # {},
    tripped <- current_state \in {"FAULT_REACTION_ACTIVE", "FAULT"}
KeepsMotionPermit == Permit!Spec

\* The heartbeat is a dead man's switch: one cycle after the echo has fallen
\* behind by more than the tolerance no drive is enabled, whatever command GBC
\* left standing in the shared memory.
SilenceStep == ~heartbeat_ok(gbsm_heartbeat, gbc_heartbeat) => Moving' = {}
SilentGbcStops == [][SilenceStep]_vars

\* The machine never runs ahead of its drives: when it reports a new state to
\* GBC, every drive is in it (after a quick stop, in it or already disabled;
\* for FAULT, disabled).  Only the unguarded first step and the entry of fault
\* reaction wait for nobody.
ArrivedIn(state) ==
    IF state = "FAULT" THEN {"SWITCH_ON_DISABLED"}
    ELSE {state} \cup (IF state = "QUICK_STOP_ACTIVE" THEN {"SWITCH_ON_DISABLED"}
                                                      ELSE {})
EntryStep ==
    (/\ machine_word' \notin {machine_word, "FAULT_REACTION_ACTIVE"}
     /\ machine_word # "NONE")
        => \E s \in ArrivedIn(machine_word') :
              g_drv_cia_state' = [d \in Drive |-> s]
EntryInSync == [][EntryStep]_vars

\* Drives answer the same words at the same time, so they keep in step: the
\* enabled drives that are not in a fault state are all in the same state.  A
\* fault sets its drive apart, and the two fault resets that bring it back find
\* the others disabled, so the machine never has a straggler to wait for.
InStep ==
    \A d, e \in EnabledDrives :
        \/ {g_drv_cia_state[d], g_drv_cia_state[e]}
              \cap {"FAULT_REACTION_ACTIVE", "FAULT"} # {}
        \/ g_drv_cia_state[d] = g_drv_cia_state[e]

\* The fault words GBC reads tell one story: nothing is active outside fault
\* reaction, and while the machine is in FAULT or FAULT_REACTION_ACTIVE the
\* history names the causes it was entered with.  A stall is recorded there as
\* DRIVE_FAULT and never as DRIVE_FOLLOW_ERROR, because the flag puts its drive
\* into fault reaction a cycle before the follow error is looked at.
FaultWords ==
    /\ current_state # "FAULT_REACTION_ACTIVE" => active_fault_word = {}
    /\ current_state \in {"FAULT_REACTION_ACTIVE", "FAULT"} =>
          fault_history_word # {}
    /\ "DRIVE_FOLLOW_ERROR" \notin fault_history_word

\* A timeout is final: once the counter has passed the timeout no guard that
\* would reset it can be reached again, and the machine goes to fault reaction
\* and stays there whatever GBC does.
TimeoutStep ==
    cycle_count > Timeout =>
        cycle_count' = cycle_count /\ current_state' = "FAULT_REACTION_ACTIVE"
TimeoutLatches == [][TimeoutStep]_vars

\* Nothing that a later cycle would report as a fault.
Quiet ==
    /\ active_fault_word \cap {"HEARTBEAT_LOST", "GBC_FAULT_REQUEST"} = {}
    /\ \A d \in Drive : g_drv_status_flag[d] = {}

\* Fault reaction drains: once the cause is gone and stays gone the five-cycle
\* rhythm of trn14 brings every drive to SWITCH_ON_DISABLED, and the machine to
\* FAULT, unless the fault was a state-change timeout.
FaultReactionEnds ==
    (<>[]Quiet) =>
        []( (current_state = "FAULT_REACTION_ACTIVE" /\ cycle_count <= Timeout)
              => <>(current_state = "FAULT") )
-----------------------------------------------------------------------------
\* A statement a comment of step_control.c makes, which the code does not keep.

\* "we transition to fault reaction active then loop in that state until drives
\* have stopped": the same for every fault, a state-change timeout included.
EveryFaultReactionEnds ==
    (<>[]Quiet) =>
        []( current_state = "FAULT_REACTION_ACTIVE" => <>(current_state = "FAULT") )
=============================================================================
