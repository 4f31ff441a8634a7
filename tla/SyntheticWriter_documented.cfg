\* Group headers as docs/group_header.txt describes them.
SPECIFICATION WriterSpec
CONSTANTS
    Configs <- SmallConfigs
    Plans <- AllPlans
    Cuts <- NearBoundaries
    UIntMax = 5119
    MaxBlockCount = 3
INVARIANTS
    DocumentedHeadersParse
CHECK_DEADLOCK FALSE
