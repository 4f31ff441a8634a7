\* The documented result of WriteSyntheticFile.
SPECIFICATION WriterSpec
CONSTANTS
    Configs <- SmallConfigs
    Plans <- AllPlans
    Cuts <- NearBoundaries
    UIntMax = 5119
    MaxBlockCount = 3
INVARIANTS
    TrueMeansWritten
CHECK_DEADLOCK FALSE
