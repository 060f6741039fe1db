CONSTANTS
    Tipset <- MCTipset
    Epoch <- MCEpoch
    Parents <- MCParents
    HeaderWeight <- MCHeaderWeight
    ChainWeight <- MCChainWeight
    InitialHead = "g"
    ChannelCap = 1
    MaxSent = 1
    MaxFailed = 1
    tipset_sample_size = 2
SPECIFICATION MuxerFairSpec
INVARIANTS
    QueueIsSound
PROPERTIES
    CatchesUp
