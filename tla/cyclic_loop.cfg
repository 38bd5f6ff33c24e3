SPECIFICATION LoopSpec
CONSTANTS
    Second = 25
    Period = 10
    CycleMs = 2
    Reminder = 3
    StartDelay = 2
    ErrorPercentage = 80
    WarningPercentage = 50
    Starts <- SomeStarts
    Durations <- AnyDuration
    MaxLate = 30
INVARIANTS LoopTypeOK KeepsPace RemindedInTime
PROPERTIES OverrunIsSeen NewsIsTold
