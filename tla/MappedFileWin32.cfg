\* Open, Close and the destructor, with every system call failing.
SPECIFICATION MappedFileSpec
CONSTANTS
    Handles = {h1, h2, h3}
    Addresses = {a1, a2}
    Sizes = {0, 4, 8}
    ErrorCodes = {2, 1006}
INVARIANTS
    NothingLeaks
    AllOrNothing
    OpenFileIsTheLastOne
PROPERTIES
    OthersAreLeftAlone
