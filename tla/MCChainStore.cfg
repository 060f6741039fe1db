CONSTANTS
    Block <- MCBlock
    Miner <- MCMiner
    StateRoot <- MCState
    Header <- MCHeader
    Log2Power <- MCLog2Power
    Task = {t1, t2}
    Genesis = "g"
    BadBlock = {"e"}
    Snapshot = FALSE
SPECIFICATION FairSpec
INVARIANTS
    HeadIsSafe
PROPERTIES
    HeadNeverRegresses
    PutTipsetEnds
    ImplementsHeadStore
