CONSTANTS
    Addr = {"a", "b"}
    Message <- MCMessage
    Tipset <- MCTipset
    Parent <- MCParent
    Included <- MCIncluded
    Genesis = "g"
    Call = {c1, c2}
    RPC_BUFFER = 2
    TRIGGERS = 1
    Reverts = {TRUE, FALSE}
    MaxInputs = 3
    Sender = {"p", "q", "r", "s"}
    Priority = {"p", "q"}
    Pools <- MCPools
    BLOCK_GAS_LIMIT = 5
    MIN_GAS = 1
    OnChainGas = 1
SPECIFICATION MCSpec
CHECK_DEADLOCK FALSE
INVARIANTS
    PoolIsSound
    
PROPERTIES
    
    FollowsHead
