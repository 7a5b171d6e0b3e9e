\* Two overlapping runs, both of which may be syncs, over two rows of one pool. Four blocks
\* let a sync commit an older block between the start and the end of another one.
CONSTANTS
    r1 = r1
    r2 = r2
    p1 = p1
    p2 = p2
    Rows = {r1, r2}
    Amounts = {0, 1}
    Pools = {"old"}
    PoolOf <- OnePool
    OldPools = {"old"}
    Processes = {p1, p2}
    Syncers = {p1, p2}
    Margin = 1
    RpcMargin = 1
    Chunks = 5
    MaxLag = 1
    Delay = 1
    MaxBlock = 4
SPECIFICATION Spec
SYMMETRY Symmetry
VIEW WithoutUsed
INVARIANTS
    NothingMissed
