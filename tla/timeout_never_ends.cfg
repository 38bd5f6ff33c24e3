SPECIFICATION Spec
CONSTANTS
    NumDrives = 1
    EnabledDrives <- OneDrive
    FlagSets <- StallOnly
    ResetTicks = 0
    Timeout = 2
    HbTolerance = 1
    HbModulus = 4
    EchoLags <- LiveEcho
    Outputs <- AllCommands
    DisableOperationWord = "SWITCH_ON"
    EnableOperationEnum = "SHUTDOWN"
PROPERTIES EveryFaultReactionEnds
