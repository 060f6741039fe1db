CONSTANTS
    c1 = c1
    c2 = c2
    p1 = p1
    p2 = p2
    root = root
    root_key = root
    Address <- MCAddress
    Allowances = {3}
    MINIMUM_VERIFIED_DEAL_SIZE = 2
    MaxGrants = 3
    Providers <- MCProviders
    Proposals <- MCProposals
    DEAL_UPDATES_INTERVAL = 2
    Deposits = {4}
    TerminationDelays = {0}
    MaxDeals = 3
    MaxEpoch = 7
    MaxTransfers = 4
    MaxBatch = 2

SPECIFICATION Spec
CHECK_DEADLOCK FALSE
INVARIANTS
    
    CapIsKept

    
