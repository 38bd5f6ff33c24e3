---------------------------- MODULE MCStepControl ----------------------------
(***************************************************************************)
(* Small instances of StepControl.  The bounds are explained in the README. *)
(***************************************************************************)
EXTENDS StepControl, StatusDecode

Word(c) == [command |-> c, request_fault |-> FALSE]

\* The commands that take the machine up to OPERATION_ENABLED and stop it.
UpAndStop == {Word(c) : c \in {"SHUTDOWN", "SWITCH_ON", "ENABLE_OPERATION",
                               "QUICK_STOP", "FAULT_RESET"}}

AllCommands == {Word(c) : c \in CiaCommands}

\* The flags of motors that stall or do not, as STATUS tells of one that runs at
\* its speed, one that stands with a load missing, and one that has stalled.
StallOnly == {{}, {"stall"}}
ASSUME StallAssumption ==
    StallOnly = {FlagsOf({2, 3}), FlagsOf({0, 29, 30, 31}), FlagsOf({11, 31})}

OneDrive == {0}
TwoDrives == {0, 1}

\* An echo within the tolerance, and one that shows any other lag, as the zero
\* of a newly established shared memory does.
LiveEcho == {1}
ReconnectEcho == {1, 3}
==============================================================================
