\* The benchmark, for iteration counts its counters can hold.
SPECIFICATION FairBenchSpec
CONSTANTS
    Files <- RecordedFiles
    Targets <- Nine
    Options <- WideAndNone
    MaxFrame <- LargestFrame
    UIntMax = 65535
    MaxBlockCount = 4096
    MaxIterations = 48
    Recordings <- SmallRecordings
    Iterations <- UpToWrap
    CounterMax = 31
    BatchSize = 4
    WarmupLimit = 3
    Multiplier = 21
INVARIANTS
    FailsOnlyWhenIncomplete
    TimesEachIterationOnce
PROPERTIES
    BenchmarkEnds
CHECK_DEADLOCK FALSE
