CONSTANTS
    admin = admin
    guard = guard
    f1 = f1
    f2 = f2
    user = user
    contract = contract
    zero = zero
    btc1 = btc1
    btc2 = btc2
    key = key
    value = value
    NoValue = NoValue
    Accounts <- MCAccounts
    ZeroAddress = zero
    Deployer = admin
    SatoshiDivisor = 2
    DynamicFeeDivisor = 4
    MaxBaseFeeSatoshi = 2
    MaxUint40 = 3
    DefaultFee <- LowFee
    DefaultLimits <- WideLimits
    RejectingAccounts = {contract}
    MaximumValidNonce = 1
    MaxRequiredBlocksBeforeReclaim = 2
    DefaultRequiredBlocks = 1
    BtcAddresses = {btc1}
    Validators <- AcceptBtc1
    Text <- MCText
    FeeSlots = {0}
    ConfigKeys = {}
    ConfigValues = {}
    DeploymentRoles <- TwoFederators
    RoleChanges = {}
    SignatureLists <- SomeSignatures
    Depositors = {user, contract}
    Values = {2, 3, 6}
    Batches <- BatchesUpTo2
    Fees = {}
    Limits = {}
    RequiredBlocks = {0, 2, 3}
    OldNonces = {}
SPECIFICATION FairSpec
INVARIANTS
    TypeOK
    Solvency
    FrozenIsPaused
PROPERTIES
    ImplementsLedger
    NoTransferStuckInNew
