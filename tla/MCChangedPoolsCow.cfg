\* The CoW AMM sync and reloads; no margin, batches of a single block.
CONSTANTS
    Kind = "cow"
    Jobs = {"sync", "reload"}
    Pools <- AllPools
    OldPools <- OldPool
    Lbps = {}
    Margin = 0
    Range = 1
    Delay = 1
    MaxBlock = 4
SPECIFICATION Spec
INVARIANTS
    MissedOnlyWhileWriting
