------------------------------- MODULE Cia402 -------------------------------
(***************************************************************************)
(* The CiA 402 vocabulary the controller shares with its drives: the       *)
(* states and commands of cia402.h, which belongs to the gclibs submodule   *)
(* and is modelled from how src/ uses it.                                   *)
(*                                                                         *)
(* A control word is represented by the command cia_ctrlwrd_to_command()    *)
(* decodes it to: no code under src/ looks at a word in any other way.  Two *)
(* words need care, so what they decode to is a parameter:                  *)
(*   - trn5 sends CIA_DISABLE_OPERATION_CTRLWRD, whose own log line says    *)
(*     that the switch-on word is the same;                                 *)
(*   - trn16 sends CIA_ENABLE_OPERATION, the enumerator of the command,     *)
(*     where a control word is expected.                                    *)
(***************************************************************************)

\* cia_state_t
CiaStates == {"NOT_READY_TO_SWITCH_ON", "SWITCH_ON_DISABLED",
              "READY_TO_SWITCH_ON", "SWITCHED_ON", "OPERATION_ENABLED",
              "QUICK_STOP_ACTIVE", "FAULT_REACTION_ACTIVE", "FAULT"}

\* cia_commands_t
CiaCommands == {"SHUTDOWN", "SWITCH_ON", "DISABLE_VOLTAGE", "QUICK_STOP",
                "DISABLE_OPERATION", "ENABLE_OPERATION", "FAULT_RESET"}

CONSTANTS
    DisableOperationWord,  \* what CIA_DISABLE_OPERATION_CTRLWRD decodes to
    EnableOperationEnum    \* what CIA_ENABLE_OPERATION decodes to as a word

ASSUME DisableOperationWordAssumption ==
    DisableOperationWord \in {"DISABLE_OPERATION", "SWITCH_ON"}

ASSUME EnableOperationEnumAssumption == EnableOperationEnum \in CiaCommands

\* A word with no bit set, which a drive reads as "disable voltage": the
\* initial value of g_drv_ctrlwrd, and what trn14 sends between two resets.
ZeroWord == "DISABLE_VOLTAGE"
=============================================================================
