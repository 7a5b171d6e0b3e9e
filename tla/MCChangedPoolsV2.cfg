CONSTANTS
    Kind = "v2"
    Jobs = {"sync"}
    Pools <- AllPools
    OldPools <- OldPool
    Lbps <- NewPool
    Margin = 0
    Range = 1
    Delay = 4
    MaxBlock = 4
SPECIFICATION Spec
INVARIANTS
    MissedOnlyWhileWriting
