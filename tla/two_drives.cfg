SPECIFICATION SafeSpec
CONSTANTS
    NumDrives = 2
    EnabledDrives <- TwoDrives
    FlagSets <- StallOnly
    ResetTicks = 0
    Timeout = 2
    HbTolerance = 1
    HbModulus = 4
    EchoLags <- ReconnectEcho
    Outputs <- AllCommands
    DisableOperationWord = "DISABLE_OPERATION"
    EnableOperationEnum = "DISABLE_VOLTAGE"
INVARIANTS TypeOK MotionAuthority InStep FaultWords
PROPERTIES KeepsMotionPermit EntryInSync SilentGbcStops TimeoutLatches
