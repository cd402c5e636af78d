CONSTANTS
    Transfers = {1, 2}
    InvalidAddresses = {2}
    PossibleCalls <- MCPossibleCalls
    StartBlock = 1
    RequiredConfirmations = 1
    BatchSize = 2
    Retries = 1
    NoHash = NoHash
    MaxBlocks = 5
    MaxFaults = 2
SPECIFICATION FairSpec
INVARIANTS
    ScannerTypeOK
    ScanNeverThrows
PROPERTIES
    ImplementsMirror
    CatchesUp
CHECK_DEADLOCK FALSE
