------------------------------ MODULE MCRecovery ------------------------------
(***************************************************************************)
(* StepControl under a GBC that does as it likes for any time, or for ever, *)
(* and may then come to follow the state it is told, at a moment when no     *)
(* transition is waiting for drives.                                        *)
(***************************************************************************)
EXTENDS MCStepControl

VARIABLE following   \* has GBC begun to answer the reported state?

\* The command with which a GBC on its way to OPERATION_ENABLED answers the
\* state it is told.
NextCommand == [
    NONE                   |-> "DISABLE_VOLTAGE",
    NOT_READY_TO_SWITCH_ON |-> "DISABLE_VOLTAGE",
    SWITCH_ON_DISABLED     |-> "SHUTDOWN",
    READY_TO_SWITCH_ON     |-> "SWITCH_ON",
    SWITCHED_ON            |-> "ENABLE_OPERATION",
    OPERATION_ENABLED      |-> "ENABLE_OPERATION",
    QUICK_STOP_ACTIVE      |-> "DISABLE_VOLTAGE",
    FAULT_REACTION_ACTIVE  |-> "DISABLE_VOLTAGE",
    FAULT                  |-> "FAULT_RESET"]

RecoveryInit == Init /\ following = FALSE

RecoveryNext ==
    \/ ~following /\ Next /\ following' \in {FALSE, cycle_count' = 0}
    \/ following /\ following' = TRUE /\ step_ctrl_main(Word(NextCommand[machine_word]))

RecoverySpec ==
    RecoveryInit /\ [][RecoveryNext]_<<vars, following>> /\ WF_<<vars, following>>(RecoveryNext)

\* The machine reports OPERATION_ENABLED without its drives: the case that the
\* comment of trn13 names ("BUT if we are in op enabled, controlword is enable op,
\* drive drops to switch on disabled") and the code leaves open.
Mismatch == current_state = "OPERATION_ENABLED" /\ Moving # Drive

\* Wherever an erratic GBC and failing drives have left machine and drives, a
\* GBC that begins to follow the reported state, with drives that cease to fail,
\* ends up in OPERATION_ENABLED with every drive in it, and stays there: it is
\* not timed out on the way, however many faults there were.  Two traps are
\* excepted: a machine that reports OPERATION_ENABLED without its drives
\* (Mismatch), and a quick stop (QuickStopIsLeft).
Recovers ==
    (/\ <>[](Quiet /\ following /\ ~Mismatch)
     /\ [](following => current_state # "QUICK_STOP_ACTIVE")) =>
        <>[](current_state = "OPERATION_ENABLED" /\ Moving = Drive)
-----------------------------------------------------------------------------
\* trn12, "expected machine controlword: DISABLE_VOLTAGE. Commands drives with
\* CIA_DISABLE_VOLTAGE_CTRLWRD": so a quick stop that is followed by
\* DISABLE_VOLTAGE for good ends with machine and drives disabled, which the
\* code does not do: it sends nothing, waits for drives nobody has told, and
\* is timed out.
QuickStopIsLeft ==
    (<>[](Quiet /\ following)) =>
        []((following /\ current_state = "QUICK_STOP_ACTIVE")
              => <>(current_state = "SWITCH_ON_DISABLED"))
==============================================================================
