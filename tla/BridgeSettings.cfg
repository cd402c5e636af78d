CONSTANTS
    admin = admin
    guard = guard
    f1 = f1
    f2 = f2
    user = user
    contract = contract
    zero = zero
    btc1 = btc1
    btc2 = btc2
    key = key
    value = value
    NoValue = NoValue
    Accounts <- MCAccounts
    ZeroAddress = zero
    Deployer = admin
    SatoshiDivisor = 2
    DynamicFeeDivisor = 4
    MaxBaseFeeSatoshi = 2
    MaxUint40 = 3
    DefaultFee <- LowFee
    DefaultLimits <- WideLimits
    RejectingAccounts = {contract}
    MaximumValidNonce = 1
    MaxRequiredBlocksBeforeReclaim = 1
    DefaultRequiredBlocks = 0
    BtcAddresses = {btc1, btc2}
    Validators <- MainnetValidators
    Text <- MCText
    FeeSlots = {0, 1}
    ConfigKeys = {key}
    ConfigValues = {value}
    DeploymentRoles <- OneFederator
    RoleChanges <- GuardRole
    SignatureLists <- OneSignature
    Depositors = {user}
    Values = {6}
    Batches = {}
    Fees <- SomeFees
    Limits = {2}
    RequiredBlocks = {}
    OldNonces = {0, 1, 2}
SPECIFICATION Spec
INVARIANTS
    NextSlotFree
    FeeStructuresExplainAmounts
    OneWrongByteIsRefused
