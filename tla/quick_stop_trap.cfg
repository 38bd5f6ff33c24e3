SPECIFICATION RecoverySpec
CONSTANTS
    NumDrives = 1
    EnabledDrives <- OneDrive
    FlagSets <- StallOnly
    ResetTicks = 0
    Timeout = 2
    HbTolerance = 1
    HbModulus = 4
    EchoLags <- LiveEcho
    Outputs <- UpAndStop
    DisableOperationWord = "DISABLE_OPERATION"
    EnableOperationEnum = "DISABLE_VOLTAGE"
PROPERTY QuickStopIsLeft
