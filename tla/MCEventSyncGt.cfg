CONSTANTS
    Feeds = {"cowSwaps"}
    Processes = {p1}
    PageSize = 3
    History = 2
    MaxPerBlock = 2
    MaxBlock = 3
SPECIFICATION Spec
INVARIANT
    NothingBehindIsMissing
