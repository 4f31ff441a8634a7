\* Iteration counts within one batch of the largest counter value.
SPECIFICATION BenchSpec
CONSTANTS
    Files <- RecordedFiles
    Targets <- Nine
    Options <- WideAndNone
    MaxFrame <- LargestFrame
    UIntMax = 65535
    MaxBlockCount = 4096
    MaxIterations = 48
    Recordings <- OneRecording
    Iterations <- BeyondWrap
    CounterMax = 31
    BatchSize = 4
    WarmupLimit = 3
    Multiplier = 21
PROPERTIES
    TimesNoIterationTwice
CHECK_DEADLOCK FALSE
