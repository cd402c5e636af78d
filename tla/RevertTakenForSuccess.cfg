CONSTANTS
    n1 = n1
    n2 = n2
    n3 = n3
    n4 = n4
    Nodes = {n1, n2}
    NumTransfers = 2
    TotalAmount <- OneBtcEach
    MaxTransfersInBatch = 2
    MaxBtcInBatch = 3
    NumRequiredSigners = 2
    NumCoins = 1
    InitialInitiators <- AllAgree
    Turns <- AllTurns
    Returns <- Reclaims
    NoBatch = NoBatch
    Scenarios <- OneReturn
    MaxInFlight = 1
SPECIFICATION FairSpec
PROPERTIES
    EveryTransferEnds
CHECK_DEADLOCK FALSE
