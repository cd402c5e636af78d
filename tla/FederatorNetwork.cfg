CONSTANTS
    admin = admin
    f1 = f1
    f2 = f2
    f3 = f3
    zero = zero
    Accounts <- MCAccounts
    ZeroAddress = zero
    Deployer = admin
    SignatureLists <- MCSignatureLists
    Nodes = {1, 2, 3}
    NoNode = NoNode
    Forced <- NobodyForced
    Tries = 2
    MaxSyncs = 2
    MaxAsking = 2
    AddressOf <- MCAddressOf
    InitialNetworks <- MCNetworks
    RoleChanges = {f1, zero}
    NotCached = NotCached
SPECIFICATION FairSpec
INVARIANTS
    AccessControlTypeOK
    MajoritiesIntersect
    NetworkTypeOK
    InitiatorIsOnline
    DepartedHaveNoVote
    UndecidedNodesAsk
PROPERTIES
    StickyInitiator
    OneInitiatorInTheEnd
CHECK_DEADLOCK FALSE
