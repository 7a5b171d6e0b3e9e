\* One process, and a pool that is added.
CONSTANTS
    r1 = r1
    r2 = r2
    p1 = p1
    p2 = p2
    Rows = {r1, r2}
    Amounts = {0, 1}
    Pools = {"old", "new"}
    PoolOf <- NewPool
    OldPools = {"old"}
    Processes = {p1}
    Syncers = {p1}
    Margin = 1
    RpcMargin = 1
    Chunks = 4
    MaxLag = 1
    Delay = 2
    MaxBlock = 3
SPECIFICATION FairSpec
INVARIANTS
    TypeOK
    NewPoolsLoaded
PROPERTY
    Converges
