\* Well-formed, aligned recordings, with and without audio: the search
\* implements the frame index, bisection is enough where it should be, and a
\* group whose audio word is damaged hides nothing but itself.
SPECIFICATION FairSpec
CONSTANTS
    Files <- WellFormedFiles
    Targets <- Nine
    Options <- WideAndNarrow
    MaxFrame <- LargestFrame
    UIntMax = 65535
    MaxBlockCount = 4096
    MaxIterations = 48
INVARIANTS
    MatchesAdjoin
    NeverDiscardsTarget
    FallbackOnlyWhenAbsent
    
PROPERTIES
    ImplementsIndex
