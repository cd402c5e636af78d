--------------------------- MODULE FastBTCBridge ---------------------------
(***************************************************************************)
(* FastBTCBridge.sol (with Freezable.sol and FastBTCAccessControllable.sol *)
(* and OpenZeppelin's Pausable): the contract that escrows the rBTC of the *)
(* users, and on which the federators record the fate of every transfer.   *)
(*                                                                         *)
(* A call that reverts leaves the state alone, so a call is an action      *)
(* whose guard is the conjunction of all the requires on its way. The      *)
(* identifier of a transfer is the pair <<btcAddress, nonce>> that the     *)
(* contract hashes.                                                        *)
(* rBTC amounts are in wei and transfer amounts in satoshi, as in the code;*)
(* one satoshi is SatoshiDivisor wei.                                      *)
(***************************************************************************)
EXTENDS FastBTCAccessControl, Integers

CONSTANTS
    BtcAddresses,         \* the strings users give as Bitcoin addresses
    Validators,           \* address validators: the strings each one accepts
    FeeSlots,             \* indices of feeStructures
    SatoshiDivisor,       \* SATOSHI_DIVISOR
    DynamicFeeDivisor,    \* DYNAMIC_FEE_DIVISOR
    MaxBaseFeeSatoshi,    \* MAX_BASE_FEE_SATOSHI
    MaxUint40,            \* type(uint40).max
    MaximumValidNonce,    \* MAXIMUM_VALID_NONCE
    MaxRequiredBlocksBeforeReclaim, \* MAX_REQUIRED_BLOCKS_BEFORE_RECLAIM
    DefaultFee,           \* the fee structure the constructor installs
    DefaultLimits,        \* initial minTransferSatoshi and maxTransferSatoshi
    DefaultRequiredBlocks,\* initial requiredBlocksBeforeReclaim
    RejectingAccounts,    \* contracts that refuse rBTC, so sendValue reverts
    ConfigKeys, ConfigValues, NoValue

\* Arguments that callers try.
CONSTANTS
    DeploymentRoles,      \* roles when the bridge is deployed
    RoleChanges,          \* <<role, account>> pairs granted or revoked later
    Depositors,           \* rskAddress: msg.sender, or one given in call data
    Values,               \* msg.value, in wei
    Batches,              \* transferIds of the federator calls
    Fees,                 \* fee structures that admins add
    Limits,               \* minimum or maximum amounts that admins set
    RequiredBlocks,       \* reclaim delays that admins set
    OldNonces             \* nonces found in the previous contract

TransferIds == BtcAddresses \X (0 .. MaximumValidNonce)

TransferStatus ==
    {"NOT_APPLICABLE", "NEW", "SENDING", "MINED", "REFUNDED", "RECLAIMED"}

FeeStructure == [base : 0 .. MaxBaseFeeSatoshi, dynamic : 0 .. DynamicFeeDivisor - 1]

NoFee == [base |-> 0, dynamic |-> 0]

ASSUME BridgeAssumption ==
    /\ IsFiniteSet(BtcAddresses)
    /\ \A v \in Validators : v \subseteq BtcAddresses
    /\ SatoshiDivisor \in Nat \ {0}
    /\ DynamicFeeDivisor \in Nat \ {0}
    /\ MaxBaseFeeSatoshi \in Nat
    /\ MaxUint40 \in Nat
    /\ MaximumValidNonce \in Nat
    /\ MaxRequiredBlocksBeforeReclaim \in Nat
    /\ 0 \in FeeSlots
    /\ DefaultFee \in FeeStructure \ {NoFee}
    /\ DefaultLimits \in [min : 0 .. MaxUint40, max : 0 .. MaxUint40]
    /\ DefaultRequiredBlocks \in 0 .. MaxRequiredBlocksBeforeReclaim
    /\ DeploymentRoles \subseteq [Roles -> SUBSET Accounts]
    /\ RoleChanges \subseteq Roles \X Addresses
    /\ Depositors \subseteq Addresses
    /\ Values \subseteq Nat
    /\ Batches \subseteq Seq(TransferIds)
    /\ Fees \subseteq [base : Nat, dynamic : Nat]
    /\ Limits \subseteq Nat
    /\ RequiredBlocks \subseteq Nat
    /\ OldNonces \subseteq 0 .. MaximumValidNonce + 1
    /\ NoValue \notin ConfigValues

VARIABLES
    transfers,       \* TransferIds -> the BitcoinTransfer stored under it
    waited,          \* TransferIds -> block.number - blockNumber while NEW
    nextNonces,      \* BtcAddresses -> the next nonce
    feeStructures,   \* FeeSlots -> fee structure
    currentFee,      \* currentFeeStructureIndex, baseFeeSatoshi, dynamicFee
    limits,          \* minTransferSatoshi, maxTransferSatoshi
    requiredBlocks,  \* requiredBlocksBeforeReclaim
    withdrawable,    \* totalAdminWithdrawableRbtc
    balance,         \* rBTC the contract holds, in wei
    validator,       \* btcAddressValidator
    nodeConfig,      \* ConfigKeys -> value
    initialized, paused, frozen, obsolete,
    netAmounts       \* amountSatoshi of the NewBitcoinTransfer event of an id

transferVars == <<transfers, waited, netAmounts>>
fundVars == <<withdrawable, balance>>
feeVars == <<feeStructures, currentFee>>
modeVars == <<initialized, paused, frozen, obsolete>>
settingVars == <<limits, requiredBlocks, validator, nodeConfig>>
vars == <<transfers, waited, netAmounts, nextNonces, withdrawable, balance,
          feeStructures, currentFee, initialized, paused, frozen, obsolete,
          limits, requiredBlocks, validator, nodeConfig, roleMembers>>

-----------------------------------------------------------------------------
NoTransfer ==
    [status |-> "NOT_APPLICABLE", rskAddress |-> ZeroAddress,
     feeStructureIndex |-> 0, totalAmountSatoshi |-> 0]

BitcoinTransfer ==
    [status : TransferStatus, rskAddress : Addresses,
     feeStructureIndex : FeeSlots, totalAmountSatoshi : 0 .. MaxUint40]

WithStatus(status) == {id \in TransferIds : transfers[id].status = status}

\* One pair for every satoshi of the transfers ids, so that a sum of amounts
\* is the size of a set.
Satoshis(ids) ==
    {p \in ids \X (1 .. MaxUint40) : p[2] <= transfers[p[1]].totalAmountSatoshi}

TotalSatoshi(ids) == Cardinality(Satoshis(ids))

FeeSatoshi(fee, amountSatoshi) ==
    fee.base + (amountSatoshi * fee.dynamic) \div DynamicFeeDivisor

CalculateCurrentFeeSatoshi(amountSatoshi) ==
    FeeSatoshi(currentFee.structure, amountSatoshi)

BatchIds(batch) == {batch[i] : i \in DOMAIN batch}

\* What the loops over transferIds require: each transfer has the status, and
\* as the loop updates it at once, none occurs twice.
BatchHasStatus(batch, status) ==
    /\ \A i \in DOMAIN batch : transfers[batch[i]].status = status
    /\ \A i, j \in DOMAIN batch : i # j => batch[i] # batch[j]

\* _updateTransferStatus. The block number is never read again, so the model
\* forgets how long the transfers have waited.
UpdateTransferStatus(ids, newStatus) ==
    /\ transfers' = [id \in TransferIds |->
                        IF id \in ids THEN [transfers[id] EXCEPT !.status = newStatus]
                                      ELSE transfers[id]]
    /\ waited' = [id \in TransferIds |-> IF id \in ids THEN 0 ELSE waited[id]]
    /\ UNCHANGED netAmounts

\* _refundTransferRbtc for each of ids: sendValue reverts when the contract
\* has too little or the receiver refuses.
RefundTransferRbtc(ids) ==
    /\ \A id \in ids : transfers[id].rskAddress \notin RejectingAccounts
    /\ TotalSatoshi(ids) * SatoshiDivisor <= balance
    /\ balance' = balance - TotalSatoshi(ids) * SatoshiDivisor

\* The modifiers and the signature check that the federator calls share.
FederatorCall(caller, signatures) ==
    /\ CheckFederator(caller)
    /\ ~frozen
    /\ initialized
    /\ CheckFederatorSignatures(signatures)

-----------------------------------------------------------------------------
\* The bridge is deployed for an access control contract that is in use.
Init ==
    /\ roleMembers \in DeploymentRoles
    /\ transfers = [id \in TransferIds |-> NoTransfer]
    /\ waited = [id \in TransferIds |-> 0]
    /\ netAmounts = [id \in TransferIds |-> 0]
    /\ nextNonces = [a \in BtcAddresses |-> 0]
    /\ feeStructures = [i \in FeeSlots |-> IF i = 0 THEN DefaultFee ELSE NoFee]
    /\ currentFee = [index |-> 0, structure |-> DefaultFee]
    /\ limits = DefaultLimits
    /\ requiredBlocks = DefaultRequiredBlocks
    /\ withdrawable = 0
    /\ balance = 0
    /\ validator \in Validators
    /\ nodeConfig = [k \in ConfigKeys |-> NoValue]
    /\ initialized = FALSE
    /\ paused = FALSE
    /\ frozen = FALSE
    /\ obsolete = FALSE

\* _transferToBtc, behind transferToBtc (rskAddress is msg.sender) and
\* receiveEthFromBridge (rskAddress comes in the call data).
TransferToBtc(btcAddress, rskAddress, value) ==
    LET nonce == nextNonces[btcAddress]
        id == <<btcAddress, nonce>>
        amountSatoshi == value \div SatoshiDivisor
        feeSatoshi == CalculateCurrentFeeSatoshi(amountSatoshi)
    IN  /\ ~paused
        /\ initialized
        /\ btcAddress \in validator
        /\ nonce <= MaximumValidNonce
        /\ value % SatoshiDivisor = 0
        /\ amountSatoshi >= limits.min
        /\ amountSatoshi <= limits.max
        /\ transfers[id].status = "NOT_APPLICABLE"
        /\ feeSatoshi <= amountSatoshi
        /\ transfers' = [transfers EXCEPT ![id] =
                [status |-> "NEW", rskAddress |-> rskAddress,
                 feeStructureIndex |-> currentFee.index,
                 totalAmountSatoshi |-> amountSatoshi]]
        /\ netAmounts' = [netAmounts EXCEPT ![id] = amountSatoshi - feeSatoshi]
        /\ nextNonces' = [nextNonces EXCEPT ![btcAddress] = nonce + 1]
        /\ balance' = balance + value
        /\ UNCHANGED <<waited, withdrawable, feeVars, modeVars, settingVars, roleMembers>>

\* Wrong: a transfer in SENDING may be reclaimed.
ReclaimTransferEvenIfSending(caller, id) ==
    /\ ~frozen
    /\ initialized
    /\ transfers[id].status \in {"NEW", "SENDING"}
    /\ transfers[id].rskAddress = caller
    /\ waited[id] >= requiredBlocks
    /\ UpdateTransferStatus({id}, "RECLAIMED")
    /\ RefundTransferRbtc({id})
    /\ UNCHANGED <<nextNonces, withdrawable, feeVars, modeVars, settingVars, roleMembers>>

\* Wrong: reclaiming stops when the contract is paused.
ReclaimTransferUnlessPaused(caller, id) ==
    /\ ~paused
    /\ initialized
    /\ transfers[id].status = "NEW"
    /\ transfers[id].rskAddress = caller
    /\ waited[id] >= requiredBlocks
    /\ UpdateTransferStatus({id}, "RECLAIMED")
    /\ RefundTransferRbtc({id})
    /\ UNCHANGED <<nextNonces, withdrawable, feeVars, modeVars, settingVars, roleMembers>>

ReclaimTransfer(caller, id) ==
    /\ ~frozen
    /\ initialized
    /\ transfers[id].status = "NEW"
    /\ transfers[id].rskAddress = caller
    /\ waited[id] >= requiredBlocks
    /\ UpdateTransferStatus({id}, "RECLAIMED")
    /\ RefundTransferRbtc({id})
    /\ UNCHANGED <<nextNonces, withdrawable, feeVars, modeVars, settingVars, roleMembers>>

\* The hash of the Bitcoin transaction only goes into an event.
MarkTransfersAsSending(caller, batch, signatures) ==
    /\ FederatorCall(caller, signatures)
    /\ BatchHasStatus(batch, "NEW")
    /\ withdrawable' = withdrawable + TotalSatoshi(BatchIds(batch)) * SatoshiDivisor
    /\ UpdateTransferStatus(BatchIds(batch), "SENDING")
    /\ UNCHANGED <<nextNonces, balance, feeVars, modeVars, settingVars, roleMembers>>

\* Wrong: the status is not checked.
MarkAnyTransfersAsMined(caller, batch, signatures) ==
    /\ FederatorCall(caller, signatures)
    /\ \E status \in {"NEW", "SENDING"} : BatchHasStatus(batch, status)
    /\ UpdateTransferStatus(BatchIds(batch), "MINED")
    /\ UNCHANGED <<nextNonces, fundVars, feeVars, modeVars, settingVars, roleMembers>>

MarkTransfersAsMined(caller, batch, signatures) ==
    /\ FederatorCall(caller, signatures)
    /\ BatchHasStatus(batch, "SENDING")
    /\ UpdateTransferStatus(BatchIds(batch), "MINED")
    /\ UNCHANGED <<nextNonces, fundVars, feeVars, modeVars, settingVars, roleMembers>>

RefundTransfers(caller, batch, signatures) ==
    /\ FederatorCall(caller, signatures)
    /\ BatchHasStatus(batch, "NEW")
    /\ UpdateTransferStatus(BatchIds(batch), "REFUNDED")
    /\ RefundTransferRbtc(BatchIds(batch))
    /\ UNCHANGED <<nextNonces, withdrawable, feeVars, modeVars, settingVars, roleMembers>>

\* The chain goes on. Delays above MaxRequiredBlocksBeforeReclaim cannot be
\* told apart by reclaimTransfer, so the count stops there.
MineBlock ==
    /\ waited' = [id \in TransferIds |->
                     IF /\ transfers[id].status = "NEW"
                        /\ waited[id] < MaxRequiredBlocksBeforeReclaim
                     THEN waited[id] + 1 ELSE waited[id]]
    /\ UNCHANGED <<transfers, netAmounts, nextNonces, fundVars, feeVars,
                   modeVars, settingVars, roleMembers>>

-----------------------------------------------------------------------------
\* Wrong: the slot may be in use.
OverwriteFeeStructure(caller, index, fee) ==
    /\ CheckAdmin(caller)
    /\ index \in FeeSlots
    /\ fee.base <= MaxBaseFeeSatoshi
    /\ fee.dynamic < DynamicFeeDivisor
    /\ feeStructures' = [feeStructures EXCEPT ![index] = fee]
    /\ UNCHANGED <<transferVars, nextNonces, fundVars, currentFee, modeVars,
                   settingVars, roleMembers>>

AddFeeStructure(caller, index, fee) ==
    /\ CheckAdmin(caller)
    /\ index \in FeeSlots
    /\ feeStructures[index] = NoFee
    /\ fee.base <= MaxBaseFeeSatoshi
    /\ fee.dynamic < DynamicFeeDivisor
    /\ feeStructures' = [feeStructures EXCEPT ![index] = fee]
    /\ UNCHANGED <<transferVars, nextNonces, fundVars, currentFee, modeVars,
                   settingVars, roleMembers>>

SetCurrentFeeStructure(caller, index) ==
    /\ CheckAdmin(caller)
    /\ index \in FeeSlots
    /\ feeStructures[index] # NoFee
    /\ currentFee' = [index |-> index, structure |-> feeStructures[index]]
    /\ UNCHANGED <<transferVars, nextNonces, fundVars, feeStructures, modeVars,
                   settingVars, roleMembers>>

SetBtcAddressValidator(caller, newValidator) ==
    /\ CheckAdmin(caller)
    /\ validator' = newValidator
    /\ UNCHANGED <<transferVars, nextNonces, fundVars, feeVars, modeVars,
                   limits, requiredBlocks, nodeConfig, roleMembers>>

\* setMinTransferSatoshi and setMaxTransferSatoshi; nothing relates the two.
SetTransferLimit(caller, bound, satoshi) ==
    /\ CheckAdmin(caller)
    /\ satoshi <= MaxUint40
    /\ limits' = [limits EXCEPT ![bound] = satoshi]
    /\ UNCHANGED <<transferVars, nextNonces, fundVars, feeVars, modeVars,
                   requiredBlocks, validator, nodeConfig, roleMembers>>

\* Applies to the transfers already made, too.
SetRequiredBlocksBeforeReclaim(caller, blocks) ==
    /\ CheckAdmin(caller)
    /\ blocks <= MaxRequiredBlocksBeforeReclaim
    /\ requiredBlocks' = blocks
    /\ UNCHANGED <<transferVars, nextNonces, fundVars, feeVars, modeVars,
                   limits, validator, nodeConfig, roleMembers>>

\* Wrong: only the balance limits the amount.
WithdrawAnyRbtc(caller, amount) ==
    /\ CheckAdmin(caller)
    /\ amount <= balance
    /\ withdrawable' = withdrawable - amount
    /\ balance' = balance - amount
    /\ UNCHANGED <<transferVars, nextNonces, feeVars, modeVars, settingVars, roleMembers>>

WithdrawRbtc(caller, amount) ==
    /\ CheckAdmin(caller)
    /\ amount <= withdrawable
    /\ amount <= balance
    /\ withdrawable' = withdrawable - amount
    /\ balance' = balance - amount
    /\ UNCHANGED <<transferVars, nextNonces, feeVars, modeVars, settingVars, roleMembers>>

\* setNodeConfigValue, and deleteNodeConfigValue when value is NoValue.
SetNodeConfigValue(caller, key, value) ==
    /\ CheckConfigAdmin(caller)
    /\ nodeConfig' = [nodeConfig EXCEPT ![key] = value]
    /\ UNCHANGED <<transferVars, nextNonces, fundVars, feeVars, modeVars,
                   limits, requiredBlocks, validator, roleMembers>>

-----------------------------------------------------------------------------
Pause(caller) ==
    /\ CheckPauser(caller)
    /\ ~paused
    /\ paused' = TRUE
    /\ UNCHANGED <<initialized, frozen, obsolete>>

\* Wrong: a frozen contract is unpaused.
UnpauseEvenIfFrozen(caller) ==
    /\ CheckPauser(caller)
    /\ paused
    /\ paused' = FALSE
    /\ UNCHANGED <<initialized, frozen, obsolete>>

Unpause(caller) ==
    /\ CheckPauser(caller)
    /\ ~frozen
    /\ paused
    /\ paused' = FALSE
    /\ UNCHANGED <<initialized, frozen, obsolete>>

\* freeze pauses as well; unfreeze does not unpause.
Freeze(caller) ==
    /\ CheckGuard(caller)
    /\ ~frozen
    /\ paused' = TRUE
    /\ frozen' = TRUE
    /\ UNCHANGED <<initialized, obsolete>>

Unfreeze(caller) ==
    /\ CheckGuard(caller)
    /\ frozen
    /\ frozen' = FALSE
    /\ UNCHANGED <<initialized, paused, obsolete>>

MarkObsolete(caller) ==
    /\ CheckAdmin(caller)
    /\ frozen
    /\ obsolete' = TRUE
    /\ UNCHANGED <<initialized, paused, frozen>>

MarkReady(caller) ==
    /\ CheckAdmin(caller)
    /\ ~initialized
    /\ initialized' = TRUE
    /\ UNCHANGED <<paused, frozen, obsolete>>

ModeChange(caller) ==
    /\ \/ Pause(caller) \/ Unpause(caller)
       \/ Freeze(caller) \/ Unfreeze(caller)
       \/ MarkObsolete(caller) \/ MarkReady(caller)
    /\ UNCHANGED <<transferVars, nextNonces, fundVars, feeVars, settingVars, roleMembers>>

\* Wrong: nonces are copied into a contract in service.
CopyNoncesLater(caller, oldNonces) ==
    /\ CheckAdmin(caller)
    /\ nextNonces' = [a \in BtcAddresses |->
                        IF a \in DOMAIN oldNonces THEN oldNonces[a] ELSE nextNonces[a]]
    /\ UNCHANGED <<transferVars, fundVars, feeVars, modeVars, settingVars, roleMembers>>

\* oldNonces: what the old contract, which may still be live, answers for the
\* addresses of the call. It may be called again, until MarkReady.
CopyNonces(caller, oldNonces) ==
    /\ CheckAdmin(caller)
    /\ ~initialized
    /\ nextNonces' = [a \in BtcAddresses |->
                        IF a \in DOMAIN oldNonces THEN oldNonces[a] ELSE nextNonces[a]]
    /\ UNCHANGED <<transferVars, fundVars, feeVars, modeVars, settingVars, roleMembers>>

\* The access control contract goes on changing.
ChangeRole(caller, role, account) ==
    /\ \/ GrantRole(caller, role, account)
       \/ RevokeRole(caller, role, account)
       \/ account = caller /\ RenounceRole(caller, role)
    /\ UNCHANGED <<transferVars, nextNonces, fundVars, feeVars, modeVars, settingVars>>

-----------------------------------------------------------------------------
UserNext ==
    \/ \E a \in BtcAddresses, u \in Depositors, v \in Values : TransferToBtc(a, u, v)
    \/ \E u \in Accounts, id \in TransferIds : ReclaimTransfer(u, id)

FederatorNext ==
    \E f \in Accounts, batch \in Batches, s \in SignatureLists :
        \/ MarkTransfersAsSending(f, batch, s)
        \/ MarkTransfersAsMined(f, batch, s)
        \/ RefundTransfers(f, batch, s)

AdminNext ==
    \E c \in Accounts :
        \/ \E i \in FeeSlots, fee \in Fees : AddFeeStructure(c, i, fee)
        \/ \E i \in FeeSlots : SetCurrentFeeStructure(c, i)
        \/ \E v \in Validators : SetBtcAddressValidator(c, v)
        \/ \E bound \in {"min", "max"}, n \in Limits : SetTransferLimit(c, bound, n)
        \/ \E n \in RequiredBlocks : SetRequiredBlocksBeforeReclaim(c, n)
        \/ \E amount \in 1 .. balance : WithdrawRbtc(c, amount)
        \/ \E key \in ConfigKeys, v \in ConfigValues \cup {NoValue} :
              SetNodeConfigValue(c, key, v)
        \/ ModeChange(c)
        \/ \E as \in SUBSET BtcAddresses :
              \E n \in [as -> OldNonces] : CopyNonces(c, n)
        \/ \E change \in RoleChanges : ChangeRole(c, change[1], change[2])

Next == UserNext \/ FederatorNext \/ AdminNext \/ MineBlock

Spec == Init /\ [][Next]_vars

\* Blocks keep coming, and an owner who could reclaim a transfer does.
Fairness ==
    /\ WF_vars(MineBlock)
    /\ \A u \in Accounts, id \in TransferIds : WF_vars(ReclaimTransfer(u, id))

FairSpec == Spec /\ Fairness

-----------------------------------------------------------------------------
\* Type invariant.
TypeOK ==
    /\ transfers \in [TransferIds -> BitcoinTransfer]
    /\ waited \in [TransferIds -> 0 .. MaxRequiredBlocksBeforeReclaim]
    /\ netAmounts \in [TransferIds -> 0 .. MaxUint40]
    /\ nextNonces \in [BtcAddresses -> 0 .. MaximumValidNonce + 1]
    /\ feeStructures \in [FeeSlots -> FeeStructure]
    /\ currentFee \in [index : FeeSlots, structure : FeeStructure]
    /\ limits \in [min : 0 .. MaxUint40, max : 0 .. MaxUint40]
    /\ requiredBlocks \in 0 .. MaxRequiredBlocksBeforeReclaim
    /\ withdrawable \in Nat
    /\ balance \in Nat
    /\ validator \in Validators
    /\ nodeConfig \in [ConfigKeys -> ConfigValues \cup {NoValue}]
    /\ {initialized, paused, frozen, obsolete} \subseteq BOOLEAN
    /\ AccessControlTypeOK

\* The contract always holds exactly what it owes: the rBTC of every transfer
\* that may still go back to its user, and what admins may withdraw. So
\* neither a reclaim, a refund nor a withdrawal ever lacks funds, and a
\* withdrawal never takes the rBTC of a transfer in NEW (README.md:33).
Solvency ==
    balance = TotalSatoshi(WithStatus("NEW")) * SatoshiDivisor + withdrawable

\* "shouldn't happen ever" (line 289): the slot of the next nonce is free, so
\* a transfer is never refused nor overwritten for an identifier in use.
NextSlotFree ==
    \A a \in BtcAddresses : \A n \in nextNonces[a] .. MaximumValidNonce :
        transfers[<<a, n>>].status = "NOT_APPLICABLE"

\* A frozen contract takes no new transfers either, whatever order it was
\* paused, frozen, unfrozen and unpaused in.
FrozenIsPaused == frozen => paused

\* The fee structure a transfer names still gives the net amount announced for
\* it: slots in use are never rewritten, and the fee in force is a slot's.
FeeStructuresExplainAmounts ==
    /\ currentFee.structure = feeStructures[currentFee.index]
    /\ \A id \in TransferIds \ WithStatus("NOT_APPLICABLE") :
          LET t == transfers[id]
          IN  netAmounts[id] = t.totalAmountSatoshi
                - FeeSatoshi(feeStructures[t.feeStructureIndex], t.totalAmountSatoshi)

\* However admins move the reclaim delay, and whatever the federators do, a
\* transfer does not stay NEW for ever in a contract that is in service: its
\* owner reclaims it once the largest delay has passed, if nothing else
\* happens to it before (README.md:29).
NoTransferStuckInNew ==
    \A id \in TransferIds :
        (/\ transfers[id].status = "NEW"
         /\ transfers[id].rskAddress \in Accounts \ RejectingAccounts)
            ~> (transfers[id].status # "NEW" \/ frozen)

\* The bridge implements the ledger it promises: refunds and reclaims return
\* the money once, SENDING releases it, and the escrow is what the contract
\* holds beyond what admins may withdraw.
Phase(status) ==
    CASE status = "NOT_APPLICABLE" -> "none"
      [] status = "NEW" -> "held"
      [] status = "SENDING" -> "released"
      [] status = "MINED" -> "paid"
      [] OTHER -> "returned"

Ledger == INSTANCE PegOutLedger WITH
    Transfers <- TransferIds,
    Owners <- Addresses,
    MaxAmount <- MaxUint40 * SatoshiDivisor,
    phase <- [id \in TransferIds |-> Phase(transfers[id].status)],
    owner <- [id \in TransferIds |-> transfers[id].rskAddress],
    amount <- [id \in TransferIds |-> transfers[id].totalAmountSatoshi * SatoshiDivisor],
    escrow <- balance - withdrawable,
    spendable <- withdrawable

ImplementsLedger == Ledger!Spec
=============================================================================
