CONSTANTS
    n1 = n1
    n2 = n2
    n3 = n3
    n4 = n4
    Nodes = {n1, n2}
    NumTransfers = 2
    TotalAmount <- OneBtcEach
    MaxTransfersInBatch = 2
    MaxBtcInBatch = 3
    NumRequiredSigners = 2
    NumCoins = 2
    InitialInitiators <- AllAgree
    Turns <- AllTurns
    Returns <- AllReturns
    NoBatch = NoBatch
    Scenarios <- FailuresAndReturns
    MaxInFlight = 1
SPECIFICATION Spec
INVARIANTS
    TypeOK
    PaidIsCommitted
    MinedIsPaid
    FinalizedIsPaid
    
PROPERTY ImplementsPayouts
CHECK_DEADLOCK FALSE
