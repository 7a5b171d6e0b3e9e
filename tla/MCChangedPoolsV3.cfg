\* The V3 sync and the job that adds pools; two blocks of delay, the most the margin allows.
CONSTANTS
    Kind = "v3"
    Jobs = {"sync", "add"}
    Pools <- AllPools
    OldPools <- OldPool
    Lbps = {}
    Margin = 1
    Range = 1
    Delay = 2
    MaxBlock = 5
SPECIFICATION Spec
VIEW WithoutWindow
INVARIANTS
    TypeOK
    NothingMissed
