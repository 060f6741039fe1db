SPECIFICATION Spec
CONSTANTS
    Prices <- MCPrices
    Messages <- MCMessages
    Miners <- MCMiners
    CronEntries <- MCCron
    Targets <- MCTargets
    Beneficiaries <- MCBeneficiaries
    Root <- MCRoot
    Spans <- MCSpans
    V4Height = 1
    BaseFee = 2
    BlockReward = 1
    ImplicitGas <- MCImplicitGas
    MaxCallDepth = 3
    MaxMessages = 2
    Revisit = FALSE
CHECK_DEADLOCK FALSE
INVARIANTS
    FundsAreConserved
    
PROPERTIES
    CallsAreAtomic
