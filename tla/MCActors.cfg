CONSTANTS
    GrowthNum = 3
    GrowthDen = 2
    BASELINE_INITIAL_VALUE = 3
    INIT_BASELINE_POWER = 2
    Rewards = {5}
    EXPECTED_LEADERS_PER_EPOCH = 5
    InitialRewardBalance = 3
    WinCounts = {1, 2}
    GasRewards = {0, 1}
    MaxAwards = 2
    Miner = {m1, m2}
    MinPower = 2
    CONSENSUS_MINER_MIN_MINERS = 1
    MAX_MINER_PROVE_COMMITS_PER_EPOCH = 1
    Deltas <- MCDeltas
    PledgeDeltas = {1}
    NullRuns = {1, 2}
    MaxEpoch = 2
    MaxCalls = 5
    MaxPower = 12
    a = a
    b = b
    c = c
    SIGNERS_MAX = 3
    MaxTxns = 3
    SETTLE_DELAY = 1
    MaxDeposits = 1
    MaxVouchers = 4
    LastEpoch = 2
    Bits = {0, 2, 17, 300}
    Fields <- MCFields
    MaxOps = 3

SPECIFICATION MCSpec
CHECK_DEADLOCK FALSE
INVARIANTS
    BitFieldIsRight
PROPERTIES
    PowerIsSound
    WalletIsSafe
    
    ControlIsSafe
