\* The search program: query, mapping and search put together by main.
SPECIFICATION FairProgramSpec
CONSTANTS
    Files <- ProgramFiles
    Targets <- EveryNumber
    Options <- WideOnly
    MaxFrame <- LargestFrame
    UIntMax = 65535
    MaxBlockCount = 4096
    MaxIterations = 48
    Queries <- SmallQueries
    Handles = {h1, h2}
    Addresses = {a1}
    ErrorCodes = {2}
INVARIANTS
    QueryExpands
    MappedWhileSearching
    NothingLeftOpen
PROPERTIES
    ImplementsReport
    ProgramEnds
CHECK_DEADLOCK FALSE
