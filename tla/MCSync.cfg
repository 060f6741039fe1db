CONSTANTS
    Block <- MCBlock
    Genesis = "g"
    Tipset <- MCTipset
    Epoch <- MCEpoch
    Parents <- MCParents
    Invalid = {"o"}
    Early = {"x"}
    LocalHead = {{"m"}, {"k"}}
    Gossiped = {"x", "n", "s"}
    MAX_TIPSETS_TO_REQUEST = 2
    FORK_LENGTH_THRESHOLD = 4
    PartialForkAnswer = FALSE
    Peer = {p1, p2}
    Request = {r1}
    SHUFFLE_PEERS_PREFIX = 1
    Duration = {1}
    MaxLogged = 1
    MaxEvents = 2
    Steady = {p2}
SPECIFICATION MCSpec

    
PROPERTIES
    RangeLeavesNoGap
    RangeEnds
    PeersAreTracked
