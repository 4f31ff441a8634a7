\* Cut, overwritten and erased headers, and groups on every alignment.
SPECIFICATION FairSpec
CONSTANTS
    Files <- HostileFiles
    Targets <- Nine
    Options <- AnyWindow
    MaxFrame <- LargestFrame
    UIntMax = 65535
    MaxBlockCount = 4096
    MaxIterations = 48
INVARIANTS
    TypeOK
    MatchesInsideFile
    MatchIsFloor
    NotFoundMeansAbsent
    MatchesAdjoin
PROPERTIES
    Terminates
    IntervalHalves
