CONSTANTS
    n1 = n1
    n2 = n2
    n3 = n3
    n4 = n4
    Nodes = {n1, n2, n3}
    NumTransfers = 1
    TotalAmount <- OneBtcEach
    MaxTransfersInBatch = 1
    MaxBtcInBatch = 3
    NumRequiredSigners = 2
    NumCoins = 2
    InitialInitiators <- AllAgree
    Turns <- OthersTurnToN2
    Returns <- NoReturns
    NoBatch = NoBatch
    Scenarios <- OneTransferTwoChanges
    MaxInFlight = 1
SPECIFICATION Spec
INVARIANTS
    NoDoublePayment
    PaidIsCommitted
    
CHECK_DEADLOCK FALSE
