\* The documented meaning of error_message().
SPECIFICATION MappedFileSpec
CONSTANTS
    Handles = {h1, h2, h3}
    Addresses = {a1, a2}
    Sizes = {0, 4, 8}
    ErrorCodes = {2, 1006}
INVARIANTS
    ErrorDescribesFailure
