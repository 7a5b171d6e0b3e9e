CONSTANTS
    r1 = r1
    r2 = r2
    p1 = p1
    p2 = p2
    Rows = {r1, r2}
    Amounts = {0, 1}
    Pools = {"old"}
    PoolOf <- OnePool
    OldPools = {"old"}
    Processes = {p1}
    Syncers = {p1}
    Margin = 2
    RpcMargin = 1
    Chunks = 1
    MaxLag = 1
    Delay = 1
    MaxBlock = 4
SPECIFICATION Spec
INVARIANTS
    NothingMissed
