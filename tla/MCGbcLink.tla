------------------------------ MODULE MCGbcLink ------------------------------
(***************************************************************************)
(* Small instance of GbcLink with the digital outputs of IoMap behind it.   *)
(***************************************************************************)
EXTENDS IoMap

OneDrive == {0}
NoFlags == {{}}

Word(c) == [command |-> c, request_fault |-> FALSE]
UpAndDown == {Word(c) : c \in {"SHUTDOWN", "SWITCH_ON", "ENABLE_OPERATION",
                               "DISABLE_VOLTAGE"}}

\* The table of io.c: one output.
Configured == [pin \in {1, 26} |->
    IF pin = 26 THEN [function |-> "GPIO_OUT", gbc_gpio_number |-> 3]
                ELSE [function |-> "GPIO_NOT_USED", gbc_gpio_number |-> 0]]
TheOutput == {3}
EveryLag == 0 .. HbModulus - 1
==============================================================================
