\* Two overlapping runs, one user and one farm, known from the start or added later.
CONSTANTS
    p1 = p1
    p2 = p2
    Kinds = {"gauge", "masterchef", "reliquary"}
    Farms = {"f"}
    Users = {"u"}
    Amounts = {0, 1}
    Processes = {p1, p2}
    Margin = 1
    RpcRange = 2
    Batches = 2
    ChunkSize = 2
    Lag = 1
    Delay = 1
    MaxBlock = 3
SPECIFICATION Spec
SYMMETRY Symmetry
INVARIANTS
    TypeOK
    StaleIsReread
