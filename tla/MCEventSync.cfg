\* Two processes, pages that split blocks.
CONSTANTS
    Feeds <- OneOfEach
    Processes = {p1, p2}
    PageSize = 3
    History = 2
    MaxPerBlock = 2
    MaxBlock = 3
SPECIFICATION Spec
INVARIANTS
    TypeOK
    NoGaps
    NoBlockSkipped
PROPERTY
    CopiesInOrder
    AllProcessed
