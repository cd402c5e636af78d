CONSTANTS
    n1 = n1
    n2 = n2
    n3 = n3
    n4 = n4
    Nodes = {n1, n2, n3}
    NumTransfers = 2
    TotalAmount <- OneBtcEach
    MaxTransfersInBatch = 1
    MaxBtcInBatch = 3
    NumRequiredSigners = 2
    NumCoins = 1
    InitialInitiators <- AllAgree
    Turns <- AllTurnToN3
    Returns <- NoReturns
    NoBatch = NoBatch
    Scenarios <- TwoTransfersTwoChanges
    MaxInFlight = 1
SPECIFICATION Spec
INVARIANTS
    CommitmentsCanBeMined
CHECK_DEADLOCK FALSE
