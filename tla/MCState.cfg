CONSTANTS
    Keys = {1, 2, 3, 4, 5}
    Vals = {"a", "b"}
    HashOf <- MCHash
    bit_width = 3
    InitialMaps <- MCMaps
    MaxCalls = 4
    WordBits = 4
    Indices = {0, 5, 14}
    Batches = {{0, 5}, {1, 14}}
    Tasks = {"v", "p", "q"}
    Validator = "v"
    Genesis = "g"
    ParentOf <- StateParent
    HeightOf <- StateEpoch
    Claims <- StateClaims
    Tip = "c"
    MaxFails = 1
    MaxAsks = 2
    Confidences = {0, 1, 2}
    QueueCap = 3
    Addr = {"a", "b"}
    MaxOps = 4
    MaxStops = 3
    MaxDiskErrors = 2
SPECIFICATION MCFairSpec
CHECK_DEADLOCK FALSE
INVARIANTS
    TriesAreSound
    TriesAreDurable
    KeysAreKept
    StatesAreRight
    

    
