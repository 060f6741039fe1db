CONSTANTS
    WPoStPeriodDeadlines = 4
    WPoStChallengeWindow = 1
    Sectors = {1, 2, 3}
    DealSectors = {3}
    PartitionSize = 2
    MaxPartitions = 2
    FaultMaxAge = 4
    FaultDeclarationCutoff = 1
    DisputeWindow = 1
    MaxProveCommitDuration = 2
    PreCommitChallengeDelay = 0
    CleanUpDelay = 1
    MinSectorExpiration = 3
    MaxExtension = 8
    ConsensusFaultDuration = 1
    AddressedSectorsMax = 1
    AddressedPartitionsMax = 1
    MinAggregated = 2
    SectorSize = 2
    DealWeight = 2
    Deposit = 1
    FaultFee = 1
    TerminationFee = 2
    InvalidPoStFee = 1
    DisputeReward = 1
    ConsensusPenalty = 2
    ConsensusReward = 1
    AggregateFee = 1
    BlockReward = 3
    LockedReward = 2
    VestPeriod = 4
    VestStep = 2
    VestQuantum = 2
    Funds = 8
    Horizon = 9
    Budget = 3
SPECIFICATION MCSpec
CHECK_DEADLOCK FALSE
INVARIANTS
    SectorsAccounted
    CronIsSound
PROPERTIES
    DeadlinesAreKept
