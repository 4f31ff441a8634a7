\* The documented lower bound of the backward scan.
SPECIFICATION FairSpec
CONSTANTS
    Files <- AlignedFiles
    Targets <- Six
    Options <- AnyWindow
    MaxFrame <- LargestFrame
    UIntMax = 65535
    MaxBlockCount = 4096
    MaxIterations = 48
INVARIANTS
    ScanStaysInWindow
