CONSTANTS
    n1 = n1
    n2 = n2
    n3 = n3
    n4 = n4
    Nodes = {n1, n2}
    NumTransfers = 2
    TotalAmount <- TwoBtcEach
    MaxTransfersInBatch = 2
    MaxBtcInBatch = 3
    NumRequiredSigners = 2
    NumCoins = 1
    InitialInitiators <- AllAgree
    Turns <- AllTurns
    Returns <- NoReturns
    NoBatch = NoBatch
    Scenarios <- OneRestart
    MaxInFlight = 1
SPECIFICATION FairSpec
PROPERTIES
    EveryTransferEnds
CHECK_DEADLOCK FALSE
