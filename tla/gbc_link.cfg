SPECIFICATION IoSpec
CONSTANTS
    NumDrives = 1
    EnabledDrives <- OneDrive
    FlagSets <- NoFlags
    ResetTicks = 0
    Timeout = 2
    HbTolerance = 3
    HbModulus = 6
    EchoLags <- EveryLag
    Outputs <- UpAndDown
    CheckCycles = 2
    io_map <- Configured
    Digitals <- TheOutput
    DisableOperationWord = "SWITCH_ON"
    EnableOperationEnum = "SHUTDOWN"
INVARIANTS LinkTypeOK PromptGbcIsHeard OutputsCut
PROPERTIES DrivesTheMachine TakesOverAtRest ConnectsAgain
