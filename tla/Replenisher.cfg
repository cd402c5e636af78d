CONSTANTS
    n1 = n1
    n2 = n2
    n3 = n3
    Nodes = {n1, n2, n3}
    Replenishers = {n1, n2}
    NumRequiredSigners = 2
    NumCoins = 4
    CoinValue <- MCCoinValue
    FeePerInput = 1
    ReplenishThreshold = 2
    ReplenishMinAmount = 2
    MaxReplenishTxInputs = 2
    MaxReplenishmentsDuringPeriod = 2
    NoPsbt = NoPsbt
    InitialBalance = 2
    Amounts = {1}
    MaxPeriod = 1
    MaxGathered = 2
    MaxInFlight = 0
    MaxFaults = 1
SPECIFICATION FairSpec
INVARIANTS
    ReplenisherTypeOK
    CapHolds
    FewAtOnce
PROPERTIES
    RefilledInTheEnd
CHECK_DEADLOCK FALSE
