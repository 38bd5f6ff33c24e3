------------------------------- MODULE Drives -------------------------------
(***************************************************************************)
(* drives.c: the bank of stepper drives.  The TMC4361A chips have no CiA    *)
(* 402 machine of their own, so the program keeps one per drive in          *)
(* g_drv_cia_state and steps all of them once a bus cycle, in               *)
(* drv_update_state(), from the control word of the cycle before and the    *)
(* status flags read off the chips in this one.                             *)
(*                                                                         *)
(* drv_update_state and drv_set_ctrl_wrd are actions over disjoint          *)
(* variables, which StepControl conjoins into its bus cycle.  Spec closes   *)
(* the module for checking on its own: the words are then arbitrary.        *)
(***************************************************************************)
EXTENDS Cia402, Integers, FiniteSets

CONSTANTS
    NumDrives,      \* SM_NUM_DRIVES
    EnabledDrives,  \* the drives drv_check_and_enable() found in order
    FlagSets,       \* the sets of status flags a chip may report
    ResetTicks      \* TICKS_IN_FAULT_REACTION_ACTIVE_BEFORE_RESET

Drive == 0 .. NumDrives - 1

\* The flags the controller tells apart.  "thermal" stands for the flags that
\* only check_for_error reads (overtemperature shutdown and warning, stallguard).
Flags == {"stall", "thermal", "vstop"}

ASSUME NumDrivesAssumption == NumDrives \in Nat \ {0}
ASSUME EnabledDrivesAssumption == EnabledDrives \subseteq Drive
ASSUME FlagSetsAssumption == FlagSets \subseteq SUBSET Flags
ASSUME ResetTicksAssumption == ResetTicks \in Nat

VARIABLES
    g_drv_cia_state,    \* state of each drive's machine
    g_drv_ctrlwrd,      \* control word each drive will act on next
    g_drv_status_flag,  \* flags last read from each chip
    ticks_in_fault_reaction_active,
    chips_reset         \* did the last update end in drv_reset_and_enable()?

drvVars == <<g_drv_cia_state, g_drv_ctrlwrd, g_drv_status_flag,
             ticks_in_fault_reaction_active, chips_reset>>

\* The counters are only compared with ResetTicks, so they stop just above it.
MaxTicks == ResetTicks + 1

DrvTypeOK ==
    /\ g_drv_cia_state \in [Drive -> CiaStates]
    /\ g_drv_ctrlwrd \in [Drive -> CiaCommands]
    /\ g_drv_status_flag \in [Drive -> FlagSets \cup {{}}]
    /\ ticks_in_fault_reaction_active \in [Drive -> 0 .. MaxTicks]
    /\ chips_reset \in BOOLEAN

\* All of it is zero-initialised static storage.
DrvInit ==
    /\ g_drv_cia_state = [d \in Drive |-> "NOT_READY_TO_SWITCH_ON"]
    /\ g_drv_ctrlwrd = [d \in Drive |-> ZeroWord]
    /\ g_drv_status_flag = [d \in Drive |-> {}]
    /\ ticks_in_fault_reaction_active = [d \in Drive |-> 0]
    /\ chips_reset = FALSE
-----------------------------------------------------------------------------
check_for_error(flags) == flags \cap {"stall", "thermal"} # {}

\* Where the commands take a healthy drive: the switch of drive_process_state.
\* A drive that has just been enabled leaves its first state unasked.
DriveMoves == [
    NOT_READY_TO_SWITCH_ON |-> [c \in CiaCommands |-> "SWITCH_ON_DISABLED"],
    SWITCH_ON_DISABLED     |-> [SHUTDOWN |-> "READY_TO_SWITCH_ON"],
    READY_TO_SWITCH_ON     |-> [SWITCH_ON |-> "SWITCHED_ON",
                                DISABLE_VOLTAGE |-> "SWITCH_ON_DISABLED"],
    SWITCHED_ON            |-> [ENABLE_OPERATION |-> "OPERATION_ENABLED",
                                SHUTDOWN |-> "READY_TO_SWITCH_ON",
                                DISABLE_VOLTAGE |-> "SWITCH_ON_DISABLED"],
    OPERATION_ENABLED      |-> [DISABLE_OPERATION |-> "SWITCHED_ON",
                                SHUTDOWN |-> "READY_TO_SWITCH_ON",
                                QUICK_STOP |-> "QUICK_STOP_ACTIVE",
                                DISABLE_VOLTAGE |-> "SWITCH_ON_DISABLED"],
    QUICK_STOP_ACTIVE      |-> [ENABLE_OPERATION |-> "OPERATION_ENABLED",
                                DISABLE_VOLTAGE |-> "SWITCH_ON_DISABLED"],
    FAULT_REACTION_ACTIVE  |-> [FAULT_RESET |-> "FAULT"],
    FAULT                  |-> [FAULT_RESET |-> "SWITCH_ON_DISABLED"]]

\* Mutant: one reset takes a drive all the way out of fault reaction.
CommandMoveShort(state, cmd) ==
    IF state = "FAULT_REACTION_ACTIVE" /\ cmd = "FAULT_RESET" THEN "SWITCH_ON_DISABLED"
    ELSE IF cmd \in DOMAIN DriveMoves[state] THEN DriveMoves[state][cmd] ELSE state

CommandMove(state, cmd) ==
    IF cmd \in DOMAIN DriveMoves[state] THEN DriveMoves[state][cmd] ELSE state

\* An error flag outranks everything, a drive that is not enabled never leaves
\* NOT_READY_TO_SWITCH_ON, and only then is the command looked at.
drive_process_state(cmd, state, flags, en) ==
    IF check_for_error(flags) THEN "FAULT_REACTION_ACTIVE"
    ELSE IF ~en THEN "NOT_READY_TO_SWITCH_ON"
    ELSE CommandMove(state, cmd)

Tick(n) == IF n < MaxTicks THEN n + 1 ELSE n

\* Mutant: any healthy drive calls the reset off.
trigger_resetUnanimous(state, ticks) ==
    /\ \E d \in Drive : ticks[d] > ResetTicks
    /\ \A e \in Drive : state[e] = "FAULT_REACTION_ACTIVE"

\* The loop over the drives sets trigger_reset at a drive that has been in
\* fault reaction for too long, and clears it again at a drive that is not in
\* fault reaction: the last drive to have its say wins.
trigger_reset(state, ticks) ==
    \E d \in Drive :
        /\ ticks[d] > ResetTicks
        /\ \A e \in Drive : e > d => state[e] = "FAULT_REACTION_ACTIVE"

\* What the loop makes of the bank when the chips report `flags'.
Processed(flags) ==
    [d \in Drive |-> drive_process_state(g_drv_ctrlwrd[d], g_drv_cia_state[d],
                                         flags[d], d \in EnabledDrives)]

drv_update_state(flags) ==
    /\ g_drv_status_flag' = flags
    /\ g_drv_cia_state' = Processed(flags)
    /\ ticks_in_fault_reaction_active' =
          [d \in Drive |->
             IF g_drv_cia_state'[d] = "FAULT_REACTION_ACTIVE"
             THEN Tick(ticks_in_fault_reaction_active[d]) ELSE 0]
    /\ chips_reset' =
          trigger_reset(g_drv_cia_state', ticks_in_fault_reaction_active')

drv_set_ctrl_wrd(word) == g_drv_ctrlwrd' = [d \in Drive |-> word]
-----------------------------------------------------------------------------
Failing(d) == check_for_error(g_drv_status_flag[d])

\* A drive that does not stop failing gets the chips reset, again and again,
\* whatever the other drives do and whatever words they are sent, if it is the
\* last of the bank.  (A healthy drive later in the loop calls the reset off, so
\* nothing of the kind holds of the others.)
LastDriveIsReset == (<>[]Failing(NumDrives - 1)) => []<>chips_reset
=============================================================================
