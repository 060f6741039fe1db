CONSTANTS
    Message <- MCMessage
    GasLimit <- MCGasLimit
    BLOCK_GAS_TARGET = 4
    MINIMUM_BASE_FEE = 3
    INITIAL_BASE_FEE = 16
    UPGRADE_SMOKE_HEIGHT = 2
    MaxEpoch = 4
    MaxBlocks = 2
    MaxBaseFee = 24
    Tipset <- MCTipset
    Genesis = "g"
    Parent <- MCParent
    MaxHeight = 4
    SKIP_LENGTH = 2
    CacheSize = 2
    Lookup = {l1, l2}
    First = l1
    Lookback = 2
    BeaconChanges = {2, 3, 5}
    RoundTime = 3
    Interval <- MCInterval
    BeaconAge <- MCBeaconAge
    EntryLimit = 3
SPECIFICATION MCFairSpec
CHECK_DEADLOCK FALSE
INVARIANTS
    ReadsAreRight
PROPERTIES
    FeeIsSound
    FeeFalls
    LookupEnds
