CONSTANTS
    n1 = n1
    n2 = n2
    n3 = n3
    n4 = n4
    Nodes = {n1, n2, n3, n4}
    NumTransfers = 1
    TotalAmount <- OneBtcEach
    MaxTransfersInBatch = 1
    MaxBtcInBatch = 3
    NumRequiredSigners = 3
    NumCoins = 1
    InitialInitiators <- AllAgree
    Turns <- AllTurns
    Returns <- NoReturns
    NoBatch = NoBatch
    Scenarios <- OneTransferTwoChanges
    MaxInFlight = 1
SPECIFICATION Spec
INVARIANTS
    NobodySignsTwice
CHECK_DEADLOCK FALSE
