\* The test's promise for a shared frame, on uneven payloads.
SPECIFICATION FairSpec
CONSTANTS
    Files <- MisalignedFiles
    Targets <- Six
    Options <- WideOnly
    MaxFrame <- LargestFrame
    UIntMax = 65535
    MaxBlockCount = 4096
    MaxIterations = 48
INVARIANTS
    SharedFrameHasTwoMatches
