\* The plan of a generated recording for every seed, the encoder, its failures, and the parsers that read its output back.
SPECIFICATION WriterSpec
CONSTANTS
    Configs <- SmallConfigs
    Plans <- AllPlans
    Cuts <- NearBoundaries
    UIntMax = 5119
    MaxBlockCount = 3
INVARIANTS
    EveryFrameOnce
    AudioBetweenVideo
    GeneratedFileIsSearchable
    ReadsBack
    NeverMisread
    CutFileKeepsWholeGroups
    FollowerIsNextVideo
CHECK_DEADLOCK FALSE
