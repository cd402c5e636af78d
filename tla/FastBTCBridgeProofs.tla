------------------------ MODULE FastBTCBridgeProofs ------------------------
(***************************************************************************)
(* Proofs about FastBTCBridge, for every value of its constants: types,    *)
(* then the solvency of the contract, which needs the sum of the amounts   *)
(* of a set of transfers, then the modes, the nonces and the fees, and at  *)
(* last that the contract implements PegOutLedger.                         *)
(***************************************************************************)
EXTENDS FastBTCBridge, FastBTCAccessControlProofs

-----------------------------------------------------------------------------
(* Arithmetic *)

\* A quotient of natural numbers is one.
LEMMA QuotientType ==
    ASSUME NEW n \in Nat, NEW d \in Nat \ {0}
    PROVE  n \div d \in Nat
OBVIOUS

\* A product of natural numbers is one.
LEMMA ProductType ==
    ASSUME NEW m \in Nat, NEW n \in Nat
    PROVE  m * n \in Nat
OBVIOUS

\* Multiplication distributes over sums and differences.
LEMMA ProductOfSum ==
    ASSUME NEW l \in Nat, NEW m \in Nat, NEW n \in Nat
    PROVE  (l + m) * n = l * n + m * n
OBVIOUS

\* A quotient without remainder gives the number back.
LEMMA ExactQuotient ==
    ASSUME NEW n \in Nat, NEW d \in Nat \ {0}, n % d = 0
    PROVE  (n \div d) * d = n
OBVIOUS

-----------------------------------------------------------------------------
(* Sums of amounts *)

\* There are finitely many identifiers of transfers.
LEMMA TransferIdsFinite == IsFiniteSet(TransferIds)
<1>1. IsFiniteSet(0 .. MaximumValidNonce)
  BY BridgeAssumption, FS_Interval
<1>2. QED
  BY <1>1, BridgeAssumption, FS_Product DEF TransferIds

\* The sum of the amounts of ids when the transfers are f: it is TotalSatoshi(ids)
\* for transfers, and speaks of the next state for transfers'.
Units(f, ids) == {p \in ids \X (1 .. MaxUint40) : p[2] <= f[p[1]].totalAmountSatoshi}
Sum(f, ids) == Cardinality(Units(f, ids))

\* Sums are natural numbers.
LEMMA SumType ==
    ASSUME NEW f, NEW ids \in SUBSET TransferIds
    PROVE  IsFiniteSet(Units(f, ids)) /\ Sum(f, ids) \in Nat
<1>1. Units(f, ids) \subseteq TransferIds \X (0 .. MaxUint40)
  BY BridgeAssumption DEF Units
<1>2. IsFiniteSet(0 .. MaxUint40)
  BY BridgeAssumption, FS_Interval
<1>3. IsFiniteSet(Units(f, ids))
  BY <1>1, <1>2, TransferIdsFinite, FS_Product, FS_Subset
<1>4. QED
  BY <1>3, FS_CardinalityType DEF Sum

\* The sum of disjoint sets is the sum of their sums.
LEMMA SumOfDisjoint ==
    ASSUME NEW f, NEW A \in SUBSET TransferIds, NEW B \in SUBSET TransferIds, A \cap B = {}
    PROVE  Sum(f, A \cup B) = Sum(f, A) + Sum(f, B)
<1> DEFINE SA == Units(f, A)
           SB == Units(f, B)
<1>1. Units(f, A \cup B) = SA \cup SB
  BY DEF Units
<1>2. SA \cap SB = {}
  BY DEF Units
<1>3. /\ IsFiniteSet(SA) /\ Cardinality(SA) \in Nat
      /\ IsFiniteSet(SB) /\ Cardinality(SB) \in Nat
  BY SumType, FS_CardinalityType
<1>4. Cardinality(SA \cup SB) = Cardinality(SA) + Cardinality(SB) - Cardinality(SA \cap SB)
  BY <1>3, FS_Union
<1>5. Cardinality(SA \cap SB) = 0
  BY <1>2, FS_EmptySet
<1> HIDE DEF SA, SB
<1>6. Cardinality(SA \cup SB) = Cardinality(SA) + Cardinality(SB)
  BY <1>3, <1>4, <1>5
<1>7. QED
  BY <1>1, <1>6 DEF Sum, SA, SB

\* The sum of one transfer is its amount.
LEMMA SumOfOne ==
    ASSUME NEW f, NEW id \in TransferIds, f[id].totalAmountSatoshi \in 0 .. MaxUint40
    PROVE  Sum(f, {id}) = f[id].totalAmountSatoshi
<1> DEFINE n == f[id].totalAmountSatoshi
<1>1. n \in Nat
  BY BridgeAssumption
<1>2. Units(f, {id}) = {id} \X (1 .. n)
  BY BridgeAssumption DEF Units
<1> HIDE DEF n
<1>3. IsFiniteSet(1 .. n) /\ Cardinality(1 .. n) = n
  BY <1>1, FS_Interval
<1>4. IsFiniteSet({id}) /\ Cardinality({id}) = 1
  BY FS_Singleton
<1>5. Cardinality({id} \X (1 .. n)) = 1 * n
  <2>1. Cardinality({id} \X (1 .. n)) = Cardinality({id}) * Cardinality(1 .. n)
    BY <1>3, <1>4, FS_Product
  <2>2. QED
    BY <1>3, <1>4, <2>1
<1>6. Sum(f, {id}) = 1 * n
  BY <1>2, <1>5 DEF Sum
<1>7. Sum(f, {id}) = n
  BY <1>1, <1>6
<1>8. QED
  BY <1>7 DEF n

\* The sum depends on nothing but the amounts.
LEMMA SumOfSameAmounts ==
    ASSUME NEW f, NEW g, NEW ids \in SUBSET TransferIds,
           \A id \in ids : f[id].totalAmountSatoshi = g[id].totalAmountSatoshi
    PROVE  Sum(f, ids) = Sum(g, ids)
<1>1. Units(f, ids) = Units(g, ids)
  BY DEF Units
<1>2. QED
  BY <1>1 DEF Sum

\* The sum the contract works with, as a function of the transfers.
LEMMA TotalSatoshiIsSum == \A ids : TotalSatoshi(ids) = Sum(transfers, ids)
BY DEF TotalSatoshi, Satoshis, Sum, Units

\* The sum in wei is a natural number, too.
LEMMA WeiType ==
    ASSUME NEW ids \in SUBSET TransferIds
    PROVE  TotalSatoshi(ids) * SatoshiDivisor \in Nat
<1>1. TotalSatoshi(ids) \in Nat
  BY SumType, TotalSatoshiIsSum
<1>2. SatoshiDivisor \in Nat
  BY BridgeAssumption
<1>3. QED
  BY <1>1, <1>2, ProductType

-----------------------------------------------------------------------------
(* Types *)

\* A batch is a list of identifiers.
LEMMA BatchIdsType ==
    ASSUME NEW batch \in Batches
    PROVE  BatchIds(batch) \in SUBSET TransferIds
BY BridgeAssumption DEF BatchIds

\* Moving transfers to another status keeps their type.
LEMMA UpdateTransferStatusType ==
    ASSUME TypeOK, NEW ids \in SUBSET TransferIds, NEW newStatus \in TransferStatus,
           UpdateTransferStatus(ids, newStatus)
    PROVE  /\ transfers' \in [TransferIds -> BitcoinTransfer]
           /\ waited' \in [TransferIds -> 0 .. MaxRequiredBlocksBeforeReclaim]
           /\ netAmounts' \in [TransferIds -> 0 .. MaxUint40]
<1>1. transfers' \in [TransferIds -> BitcoinTransfer]
  <2>1. \A id \in TransferIds : [transfers[id] EXCEPT !.status = newStatus] \in BitcoinTransfer
    BY DEF TypeOK, BitcoinTransfer
  <2>2. QED
    BY <2>1 DEF TypeOK, UpdateTransferStatus
<1>2. waited' \in [TransferIds -> 0 .. MaxRequiredBlocksBeforeReclaim]
  BY BridgeAssumption DEF TypeOK, UpdateTransferStatus
<1>3. netAmounts' \in [TransferIds -> 0 .. MaxUint40]
  BY DEF TypeOK, UpdateTransferStatus
<1>4. QED
  BY <1>1, <1>2, <1>3

\* What is paid back for a set of transfers leaves a natural number of wei.
LEMMA RefundTransferRbtcType ==
    ASSUME TypeOK, NEW ids \in SUBSET TransferIds, RefundTransferRbtc(ids)
    PROVE  balance' \in Nat
<1>1. TotalSatoshi(ids) * SatoshiDivisor \in Nat
  BY WeiType DEF TypeOK
<1>2. QED
  BY <1>1 DEF TypeOK, RefundTransferRbtc

\* The constructor's state has the types.
LEMMA InitType == Init => TypeOK
<1> SUFFICES ASSUME Init PROVE TypeOK
  OBVIOUS
<1>1. NoTransfer \in BitcoinTransfer
  BY BridgeAssumption DEF NoTransfer, BitcoinTransfer, TransferStatus, Addresses
<1>2. NoFee \in FeeStructure /\ DefaultFee \in FeeStructure
  BY BridgeAssumption DEF NoFee, FeeStructure
<1>3. AccessControlTypeOK
  BY BridgeAssumption DEF Init, AccessControlTypeOK
<1>4. transfers \in [TransferIds -> BitcoinTransfer]
  BY <1>1 DEF Init
<1>5. /\ feeStructures \in [FeeSlots -> FeeStructure]
      /\ currentFee \in [index : FeeSlots, structure : FeeStructure]
  BY <1>2, BridgeAssumption DEF Init
<1>6. /\ waited \in [TransferIds -> 0 .. MaxRequiredBlocksBeforeReclaim]
      /\ netAmounts \in [TransferIds -> 0 .. MaxUint40]
      /\ nextNonces \in [BtcAddresses -> 0 .. MaximumValidNonce + 1]
  BY BridgeAssumption DEF Init
<1>7. QED
  BY <1>3, <1>4, <1>5, <1>6, BridgeAssumption DEF Init, TypeOK

\* A deposit: the amount fits because the limits do, the fee never exceeds it.
LEMMA TransferToBtcType ==
    ASSUME TypeOK, NEW a \in BtcAddresses, NEW u \in Depositors, NEW v \in Values,
           TransferToBtc(a, u, v)
    PROVE  TypeOK'
<1> DEFINE id == <<a, nextNonces[a]>>
           amountSatoshi == v \div SatoshiDivisor
           feeSatoshi == CalculateCurrentFeeSatoshi(amountSatoshi)
<1>1. id \in TransferIds
  BY DEF TypeOK, TransferToBtc, TransferIds
<1>2. amountSatoshi \in 0 .. MaxUint40
  BY BridgeAssumption DEF TypeOK, TransferToBtc
<1>3. feeSatoshi \in Nat /\ feeSatoshi <= amountSatoshi
  <2>1. currentFee.structure \in FeeStructure
    BY DEF TypeOK
  <2>2. currentFee.structure.base \in Nat /\ currentFee.structure.dynamic \in Nat
    BY <2>1, BridgeAssumption DEF FeeStructure
  <2>3. amountSatoshi * currentFee.structure.dynamic \in Nat
    BY <1>2, <2>2, ProductType, BridgeAssumption
  <2>4. (amountSatoshi * currentFee.structure.dynamic) \div DynamicFeeDivisor \in Nat
    BY <2>3, QuotientType, BridgeAssumption
  <2>5. feeSatoshi \in Nat
    BY <2>2, <2>4 DEF CalculateCurrentFeeSatoshi, FeeSatoshi
  <2>6. QED
    BY <2>5 DEF TransferToBtc
<1>4. [status |-> "NEW", rskAddress |-> u, feeStructureIndex |-> currentFee.index,
       totalAmountSatoshi |-> amountSatoshi] \in BitcoinTransfer
  BY <1>2, BridgeAssumption DEF TypeOK, BitcoinTransfer, TransferStatus
<1>5. transfers' \in [TransferIds -> BitcoinTransfer]
  BY <1>4 DEF TypeOK, TransferToBtc
<1>6. netAmounts' \in [TransferIds -> 0 .. MaxUint40]
  <2>1. amountSatoshi - feeSatoshi \in 0 .. MaxUint40
    BY <1>2, <1>3, BridgeAssumption
  <2>2. QED
    BY <2>1 DEF TypeOK, TransferToBtc
<1>7. nextNonces' \in [BtcAddresses -> 0 .. MaximumValidNonce + 1]
  BY BridgeAssumption DEF TypeOK, TransferToBtc
<1>8. balance' \in Nat
  <2>1. v \in Nat /\ balance \in Nat
    BY BridgeAssumption DEF TypeOK
  <2>2. balance' = balance + v
    BY DEF TransferToBtc
  <2>3. QED
    BY <2>1, <2>2
<1>9. UNCHANGED <<waited, withdrawable, feeVars, modeVars, settingVars, roleMembers>>
  BY DEF TransferToBtc
<1>10. QED
  BY <1>5, <1>6, <1>7, <1>8, <1>9
  DEF TypeOK, AccessControlTypeOK, feeVars, modeVars, settingVars

\* The calls that move transfers to another status.
LEMMA StatusCallType ==
    ASSUME TypeOK,
           \/ \E u \in Accounts, id \in TransferIds : ReclaimTransfer(u, id)
           \/ FederatorNext
    PROVE  TypeOK'
<1>1. ASSUME NEW u \in Accounts, NEW id \in TransferIds, ReclaimTransfer(u, id)
      PROVE  TypeOK'
  <2>1. UpdateTransferStatus({id}, "RECLAIMED") /\ RefundTransferRbtc({id})
    BY <1>1 DEF ReclaimTransfer
  <2>2. balance' \in Nat
    BY <2>1, RefundTransferRbtcType
  <2>3. UNCHANGED <<nextNonces, withdrawable, feeVars, modeVars, settingVars, roleMembers>>
    BY <1>1 DEF ReclaimTransfer
  <2>4. QED
    BY <2>1, <2>2, <2>3, UpdateTransferStatusType
    DEF TypeOK, AccessControlTypeOK, feeVars, modeVars, settingVars, TransferStatus
<1>2. ASSUME NEW f \in Accounts, NEW batch \in Batches, NEW s \in SignatureLists,
             MarkTransfersAsSending(f, batch, s)
      PROVE  TypeOK'
  <2>1. UpdateTransferStatus(BatchIds(batch), "SENDING")
    BY <1>2 DEF MarkTransfersAsSending
  <2>2. withdrawable' \in Nat
    <3>1. TotalSatoshi(BatchIds(batch)) * SatoshiDivisor \in Nat
      BY WeiType, BatchIdsType DEF TypeOK
    <3>2. QED
      BY <1>2, <3>1 DEF MarkTransfersAsSending, TypeOK
  <2>3. UNCHANGED <<nextNonces, balance, feeVars, modeVars, settingVars, roleMembers>>
    BY <1>2 DEF MarkTransfersAsSending
  <2>4. QED
    BY <2>1, <2>2, <2>3, UpdateTransferStatusType, BatchIdsType
    DEF TypeOK, AccessControlTypeOK, feeVars, modeVars, settingVars, TransferStatus
<1>3. ASSUME NEW f \in Accounts, NEW batch \in Batches, NEW s \in SignatureLists,
             MarkTransfersAsMined(f, batch, s)
      PROVE  TypeOK'
  <2>1. /\ UpdateTransferStatus(BatchIds(batch), "MINED")
        /\ UNCHANGED <<nextNonces, fundVars, feeVars, modeVars, settingVars, roleMembers>>
    BY <1>3 DEF MarkTransfersAsMined
  <2>2. QED
    BY <2>1, UpdateTransferStatusType, BatchIdsType
    DEF TypeOK, AccessControlTypeOK, fundVars, feeVars, modeVars, settingVars, TransferStatus
<1>4. ASSUME NEW f \in Accounts, NEW batch \in Batches, NEW s \in SignatureLists,
             RefundTransfers(f, batch, s)
      PROVE  TypeOK'
  <2>1. UpdateTransferStatus(BatchIds(batch), "REFUNDED") /\ RefundTransferRbtc(BatchIds(batch))
    BY <1>4 DEF RefundTransfers
  <2>2. balance' \in Nat
    BY <2>1, RefundTransferRbtcType, BatchIdsType
  <2>3. UNCHANGED <<nextNonces, withdrawable, feeVars, modeVars, settingVars, roleMembers>>
    BY <1>4 DEF RefundTransfers
  <2>4. QED
    BY <2>1, <2>2, <2>3, UpdateTransferStatusType, BatchIdsType
    DEF TypeOK, AccessControlTypeOK, feeVars, modeVars, settingVars, TransferStatus
<1>5. QED
  BY <1>1, <1>2, <1>3, <1>4 DEF FederatorNext

\* What admins, guards and pausers do, and the nonces copied from the
\* previous contract.
LEMMA AdminType == ASSUME TypeOK, AdminNext PROVE TypeOK'
<1> USE BridgeAssumption
<1>1. ASSUME NEW c \in Accounts, NEW i \in FeeSlots, NEW fee \in Fees, AddFeeStructure(c, i, fee)
      PROVE  TypeOK'
  <2>1. fee \in FeeStructure
    BY <1>1 DEF AddFeeStructure, FeeStructure
  <2>2. feeStructures' \in [FeeSlots -> FeeStructure]
    BY <1>1, <2>1 DEF AddFeeStructure, TypeOK
  <2>3. QED
    BY <1>1, <2>2 DEF AddFeeStructure, TypeOK, AccessControlTypeOK, transferVars, fundVars,
                      modeVars, settingVars
<1>2. ASSUME NEW c \in Accounts, NEW i \in FeeSlots, SetCurrentFeeStructure(c, i)
      PROVE  TypeOK'
  BY <1>2 DEF SetCurrentFeeStructure, TypeOK, AccessControlTypeOK, transferVars, fundVars,
              modeVars, settingVars
<1>3. ASSUME NEW c \in Accounts, NEW v \in Validators, SetBtcAddressValidator(c, v)
      PROVE  TypeOK'
  BY <1>3 DEF SetBtcAddressValidator, TypeOK, AccessControlTypeOK, transferVars, fundVars,
              feeVars, modeVars
<1>4. ASSUME NEW c \in Accounts, NEW bound \in {"min", "max"}, NEW n \in Limits,
             SetTransferLimit(c, bound, n)
      PROVE  TypeOK'
  <2>1. n \in 0 .. MaxUint40
    BY <1>4 DEF SetTransferLimit
  <2>2. limits' \in [min : 0 .. MaxUint40, max : 0 .. MaxUint40]
    BY <1>4, <2>1 DEF SetTransferLimit, TypeOK
  <2>3. QED
    BY <1>4, <2>2 DEF SetTransferLimit, TypeOK, AccessControlTypeOK, transferVars, fundVars,
                      feeVars, modeVars
<1>5. ASSUME NEW c \in Accounts, NEW n \in RequiredBlocks, SetRequiredBlocksBeforeReclaim(c, n)
      PROVE  TypeOK'
  BY <1>5 DEF SetRequiredBlocksBeforeReclaim, TypeOK, AccessControlTypeOK, transferVars,
              fundVars, feeVars, modeVars
<1>6. ASSUME NEW c \in Accounts, NEW amount \in 1 .. balance, WithdrawRbtc(c, amount)
      PROVE  TypeOK'
  BY <1>6 DEF WithdrawRbtc, TypeOK, AccessControlTypeOK, transferVars, feeVars, modeVars,
              settingVars
<1>7. ASSUME NEW c \in Accounts, NEW key \in ConfigKeys, NEW v \in ConfigValues \cup {NoValue},
             SetNodeConfigValue(c, key, v)
      PROVE  TypeOK'
  BY <1>7 DEF SetNodeConfigValue, TypeOK, AccessControlTypeOK, transferVars, fundVars,
              feeVars, modeVars
<1>8. ASSUME NEW c \in Accounts, ModeChange(c)
      PROVE  TypeOK'
  <2>1. {initialized', paused', frozen', obsolete'} \subseteq BOOLEAN
    BY <1>8 DEF ModeChange, Pause, Unpause, Freeze, Unfreeze, MarkObsolete, MarkReady, TypeOK
  <2>2. QED
    BY <1>8, <2>1 DEF ModeChange, TypeOK, AccessControlTypeOK, transferVars, fundVars, feeVars,
                      settingVars
<1>9. ASSUME NEW c \in Accounts, NEW as \in SUBSET BtcAddresses, NEW n \in [as -> OldNonces],
             CopyNonces(c, n)
      PROVE  TypeOK'
  <2>1. nextNonces' \in [BtcAddresses -> 0 .. MaximumValidNonce + 1]
    BY <1>9 DEF CopyNonces, TypeOK
  <2>2. QED
    BY <1>9, <2>1 DEF CopyNonces, TypeOK, AccessControlTypeOK, transferVars, fundVars, feeVars,
                      modeVars, settingVars
<1>10. ASSUME NEW c \in Accounts, NEW change \in RoleChanges, ChangeRole(c, change[1], change[2])
       PROVE  TypeOK'
  <2>1. change[1] \in Roles /\ change[2] \in Addresses
    OBVIOUS
  <2>2. AccessControlTypeOK'
    BY <1>10, <2>1, RoleChangePreservesType DEF ChangeRole, TypeOK
  <2>3. QED
    BY <1>10, <2>2 DEF ChangeRole, TypeOK, transferVars, fundVars, feeVars, modeVars, settingVars
<1> HIDE BridgeAssumption
<1>11. QED
  BY <1>1, <1>2, <1>3, <1>4, <1>5, <1>6, <1>7, <1>8, <1>9, <1>10 DEF AdminNext

\* Every variable of the bridge keeps its type: in particular, amounts fit the
\* 40 bits they are stored in, and neither the balance nor what admins may
\* withdraw becomes negative.
THEOREM TypeCorrect == Spec => []TypeOK
<1>1. TypeOK /\ [Next]_vars => TypeOK'
  <2> SUFFICES ASSUME TypeOK, [Next]_vars PROVE TypeOK'
    OBVIOUS
  <2>1. CASE UserNext
    BY <2>1, TransferToBtcType, StatusCallType DEF UserNext
  <2>2. CASE FederatorNext
    BY <2>2, StatusCallType
  <2>3. CASE AdminNext
    BY <2>3, AdminType
  <2>4. CASE MineBlock
    <3>1. waited' \in [TransferIds -> 0 .. MaxRequiredBlocksBeforeReclaim]
      BY <2>4, BridgeAssumption DEF MineBlock, TypeOK
    <3>2. QED
      BY <2>4, <3>1 DEF MineBlock, TypeOK, AccessControlTypeOK, fundVars, feeVars, modeVars,
                        settingVars
  <2>5. CASE UNCHANGED vars
    BY <2>5 DEF vars, TypeOK, AccessControlTypeOK
  <2>6. QED
    BY <2>1, <2>2, <2>3, <2>4, <2>5 DEF Next
<1>2. QED
  BY <1>1, InitType, PTL DEF Spec

-----------------------------------------------------------------------------
(* Solvency *)

\* What the contract owes to the users: the sum of the transfers in NEW.
NewIn(f) == {id \in TransferIds : f[id].status = "NEW"}
Owed == Sum(transfers, NewIn(transfers))

\* Solvency, in terms of what is owed.
LEMMA SolvencyByOwed == Solvency <=> balance = Owed * SatoshiDivisor + withdrawable
BY TotalSatoshiIsSum DEF Solvency, Owed, NewIn, WithStatus

\* When transfers leave NEW, the contract owes their sum less.
LEMMA LeavingNew ==
    ASSUME TypeOK, NEW ids \in SUBSET TransferIds, NEW newStatus \in TransferStatus \ {"NEW"},
           \A id \in ids : transfers[id].status = "NEW",
           UpdateTransferStatus(ids, newStatus)
    PROVE  /\ Owed' \in Nat
           /\ TotalSatoshi(ids) \in Nat
           /\ Owed = Owed' + TotalSatoshi(ids)
<1>1. \A id \in TransferIds :
         /\ transfers'[id].totalAmountSatoshi = transfers[id].totalAmountSatoshi
         /\ transfers'[id].status = IF id \in ids THEN newStatus ELSE transfers[id].status
  BY DEF UpdateTransferStatus, TypeOK, BitcoinTransfer
<1>2. /\ NewIn(transfers') \in SUBSET TransferIds
      /\ NewIn(transfers') \cap ids = {}
      /\ NewIn(transfers) = NewIn(transfers') \cup ids
  BY <1>1 DEF NewIn
<1>3. Owed' = Sum(transfers, NewIn(transfers'))
  BY <1>1, <1>2, SumOfSameAmounts DEF Owed
<1>4. Owed = Sum(transfers, NewIn(transfers')) + Sum(transfers, ids)
  BY <1>2, SumOfDisjoint DEF Owed
<1>5. QED
  BY <1>2, <1>3, <1>4, SumType, TotalSatoshiIsSum

\* Marking transfers that are not NEW leaves alone what is owed.
LEMMA StayingOutOfNew ==
    ASSUME TypeOK, NEW ids \in SUBSET TransferIds, NEW newStatus \in TransferStatus \ {"NEW"},
           \A id \in ids : transfers[id].status # "NEW",
           UpdateTransferStatus(ids, newStatus)
    PROVE  Owed' = Owed
<1>1. \A id \in TransferIds :
         /\ transfers'[id].totalAmountSatoshi = transfers[id].totalAmountSatoshi
         /\ transfers'[id].status = IF id \in ids THEN newStatus ELSE transfers[id].status
  BY DEF UpdateTransferStatus, TypeOK, BitcoinTransfer
<1>2. NewIn(transfers') = NewIn(transfers) /\ NewIn(transfers) \in SUBSET TransferIds
  BY <1>1 DEF NewIn
<1>3. Sum(transfers', NewIn(transfers)) = Sum(transfers, NewIn(transfers))
  BY <1>1, <1>2, SumOfSameAmounts
<1>4. QED
  BY <1>2, <1>3 DEF Owed

\* A deposit adds its amount to what is owed.
LEMMA DepositAddsToOwed ==
    ASSUME TypeOK, TypeOK',
           NEW a \in BtcAddresses, NEW u \in Depositors, NEW v \in Values, TransferToBtc(a, u, v)
    PROVE  /\ Owed \in Nat
           /\ v \div SatoshiDivisor \in Nat
           /\ Owed' = Owed + v \div SatoshiDivisor
<1> DEFINE id == <<a, nextNonces[a]>>
           amountSatoshi == v \div SatoshiDivisor
<1>1. id \in TransferIds
  BY DEF TypeOK, TransferToBtc, TransferIds
<1>2. /\ transfers[id].status = "NOT_APPLICABLE"
      /\ transfers' = [transfers EXCEPT ![id] =
                        [status |-> "NEW", rskAddress |-> u,
                         feeStructureIndex |-> currentFee.index,
                         totalAmountSatoshi |-> amountSatoshi]]
  BY DEF TransferToBtc
<1>3. /\ transfers'[id].status = "NEW"
      /\ transfers'[id].totalAmountSatoshi = amountSatoshi
      /\ \A other \in TransferIds \ {id} : transfers'[other] = transfers[other]
  BY <1>1, <1>2 DEF TypeOK
<1>4. /\ NewIn(transfers) \in SUBSET TransferIds
      /\ NewIn(transfers) \cap {id} = {}
      /\ NewIn(transfers') = NewIn(transfers) \cup {id}
  BY <1>1, <1>2, <1>3 DEF NewIn
<1>5. amountSatoshi \in Nat /\ amountSatoshi \in 0 .. MaxUint40
  <2>1. transfers'[id] \in BitcoinTransfer
    BY <1>1 DEF TypeOK
  <2>2. QED
    BY <1>3, <2>1, BridgeAssumption DEF BitcoinTransfer
<1>6. Sum(transfers', {id}) = amountSatoshi
  BY <1>1, <1>3, <1>5, SumOfOne
<1>7. Sum(transfers', NewIn(transfers)) = Sum(transfers, NewIn(transfers))
  BY <1>3, <1>4, SumOfSameAmounts
<1>8. Owed' = Sum(transfers', NewIn(transfers)) + Sum(transfers', {id})
  BY <1>1, <1>4, SumOfDisjoint DEF Owed
<1>9. Owed \in Nat
  BY <1>4, SumType DEF Owed
<1>10. QED
  BY <1>5, <1>6, <1>7, <1>8, <1>9 DEF Owed

\* A step that leaves alone the transfers leaves alone what is owed.
LEMMA SameTransfersSameOwed == UNCHANGED transfers => Owed' = Owed
BY DEF Owed

\* Solvency of the next state, from the lemmas on what is owed.
LEMMA SolvencyStep ==
    ASSUME TypeOK, TypeOK', Solvency, Next
    PROVE  Solvency'
<1> DEFINE D == SatoshiDivisor
<1>1. D \in Nat \ {0} /\ balance \in Nat /\ withdrawable \in Nat
  BY BridgeAssumption DEF TypeOK
<1>2. balance = Owed * D + withdrawable
  BY SolvencyByOwed
<1>3. SUFFICES balance' = Owed' * D + withdrawable'
  <2>1. (Solvency <=> balance = Owed * SatoshiDivisor + withdrawable)'
    BY SolvencyByOwed, PTL
  <2>2. QED
    BY <2>1
<1>4. ASSUME NEW ids \in SUBSET TransferIds, NEW newStatus \in TransferStatus \ {"NEW"},
             \A id \in ids : transfers[id].status = "NEW",
             UpdateTransferStatus(ids, newStatus)
      PROVE  /\ Owed' * D \in Nat
             /\ TotalSatoshi(ids) * D \in Nat
             /\ balance = Owed' * D + TotalSatoshi(ids) * D + withdrawable
  <2>1. /\ Owed' \in Nat
        /\ TotalSatoshi(ids) \in Nat
        /\ Owed = Owed' + TotalSatoshi(ids)
    BY <1>4, LeavingNew
  <2>2. Owed * D = Owed' * D + TotalSatoshi(ids) * D
    BY <1>1, <2>1, ProductOfSum
  <2>3. Owed' * D \in Nat /\ TotalSatoshi(ids) * D \in Nat
    BY <1>1, <2>1, ProductType
  <2>4. QED
    BY <1>2, <2>2, <2>3
<1>5. ASSUME NEW a \in BtcAddresses, NEW u \in Depositors, NEW v \in Values, TransferToBtc(a, u, v)
      PROVE  balance' = Owed' * D + withdrawable'
  <2>1. /\ Owed \in Nat
        /\ v \div D \in Nat
        /\ Owed' = Owed + v \div D
    BY <1>5, DepositAddsToOwed
  <2>2. v \in Nat
    BY BridgeAssumption
  <2>3. v % D = 0 /\ balance' = balance + v /\ withdrawable' = withdrawable
    BY <1>5 DEF TransferToBtc
  <2>4. (v \div D) * D = v
    BY <1>1, <2>2, <2>3, ExactQuotient
  <2>5. Owed' * D = Owed * D + v
    BY <1>1, <2>1, <2>4, ProductOfSum
  <2>6. Owed * D \in Nat
    BY <1>1, <2>1, ProductType
  <2>7. QED
    BY <1>1, <1>2, <2>2, <2>3, <2>5, <2>6
<1>6. ASSUME NEW u \in Accounts, NEW id \in TransferIds, ReclaimTransfer(u, id)
      PROVE  balance' = Owed' * D + withdrawable'
  <2>1. /\ transfers[id].status = "NEW"
        /\ UpdateTransferStatus({id}, "RECLAIMED")
        /\ RefundTransferRbtc({id})
        /\ UNCHANGED withdrawable
    BY <1>6 DEF ReclaimTransfer
  <2>2. /\ Owed' * D \in Nat
        /\ TotalSatoshi({id}) * D \in Nat
        /\ balance = Owed' * D + TotalSatoshi({id}) * D + withdrawable
    BY <1>4, <2>1 DEF TransferStatus
  <2>3. QED
    BY <1>1, <2>1, <2>2 DEF RefundTransferRbtc
<1>7. ASSUME NEW f \in Accounts, NEW batch \in Batches, NEW s \in SignatureLists,
             MarkTransfersAsSending(f, batch, s)
      PROVE  balance' = Owed' * D + withdrawable'
  <2>1. /\ \A id \in BatchIds(batch) : transfers[id].status = "NEW"
        /\ UpdateTransferStatus(BatchIds(batch), "SENDING")
        /\ withdrawable' = withdrawable + TotalSatoshi(BatchIds(batch)) * D
        /\ UNCHANGED balance
    BY <1>7 DEF MarkTransfersAsSending, BatchHasStatus, BatchIds
  <2>2. /\ Owed' * D \in Nat
        /\ TotalSatoshi(BatchIds(batch)) * D \in Nat
        /\ balance = Owed' * D + TotalSatoshi(BatchIds(batch)) * D + withdrawable
    BY <1>4, <2>1, BatchIdsType DEF TransferStatus
  <2>3. QED
    BY <1>1, <2>1, <2>2
<1>8. ASSUME NEW f \in Accounts, NEW batch \in Batches, NEW s \in SignatureLists,
             MarkTransfersAsMined(f, batch, s)
      PROVE  balance' = Owed' * D + withdrawable'
  <2>1. /\ \A id \in BatchIds(batch) : transfers[id].status # "NEW"
        /\ UpdateTransferStatus(BatchIds(batch), "MINED")
        /\ UNCHANGED <<balance, withdrawable>>
    BY <1>8 DEF MarkTransfersAsMined, BatchHasStatus, BatchIds, fundVars
  <2>2. Owed' = Owed
    BY <2>1, StayingOutOfNew, BatchIdsType DEF TransferStatus
  <2>3. QED
    BY <1>2, <2>1, <2>2
<1>9. ASSUME NEW f \in Accounts, NEW batch \in Batches, NEW s \in SignatureLists,
             RefundTransfers(f, batch, s)
      PROVE  balance' = Owed' * D + withdrawable'
  <2>1. /\ \A id \in BatchIds(batch) : transfers[id].status = "NEW"
        /\ UpdateTransferStatus(BatchIds(batch), "REFUNDED")
        /\ RefundTransferRbtc(BatchIds(batch))
        /\ UNCHANGED withdrawable
    BY <1>9 DEF RefundTransfers, BatchHasStatus, BatchIds
  <2>2. /\ Owed' * D \in Nat
        /\ TotalSatoshi(BatchIds(batch)) * D \in Nat
        /\ balance = Owed' * D + TotalSatoshi(BatchIds(batch)) * D + withdrawable
    BY <1>4, <2>1, BatchIdsType DEF TransferStatus
  <2>3. QED
    BY <1>1, <2>1, <2>2 DEF RefundTransferRbtc
<1>10. CASE AdminNext
  <2>1. UNCHANGED transfers
    BY <1>10 DEF AdminNext, AddFeeStructure, SetCurrentFeeStructure, SetBtcAddressValidator,
       SetTransferLimit, SetRequiredBlocksBeforeReclaim, WithdrawRbtc, SetNodeConfigValue,
       ModeChange, CopyNonces, ChangeRole, transferVars
  <2>2. Owed' = Owed /\ Owed * D \in Nat
    <3>1. Owed \in Nat
      BY SumType DEF Owed, NewIn
    <3>2. QED
      BY <1>1, <2>1, <3>1, SameTransfersSameOwed, ProductType
  <2>3. \/ UNCHANGED <<balance, withdrawable>>
        \/ \E amount \in Nat : /\ balance' = balance - amount
                               /\ withdrawable' = withdrawable - amount
    BY <1>1, <1>10 DEF AdminNext, AddFeeStructure, SetCurrentFeeStructure,
       SetBtcAddressValidator, SetTransferLimit, SetRequiredBlocksBeforeReclaim, WithdrawRbtc,
       SetNodeConfigValue, ModeChange, CopyNonces, ChangeRole, fundVars
  <2>4. QED
    BY <1>1, <1>2, <2>2, <2>3
<1>11. CASE MineBlock
  BY <1>2, <1>11, SameTransfersSameOwed DEF MineBlock, fundVars
<1>12. QED
  BY <1>5, <1>6, <1>7, <1>8, <1>9, <1>10, <1>11 DEF Next, UserNext, FederatorNext

\* The contract holds exactly what it owes to users and what admins may
\* withdraw, whatever the amounts, the batches and the order of the calls: a
\* reclaim or a refund never lacks the rBTC it returns.
THEOREM AlwaysSolvent == Spec => []Solvency
<1>1. Init => Solvency
  <2> SUFFICES ASSUME Init PROVE balance = Owed * SatoshiDivisor + withdrawable
    BY SolvencyByOwed
  <2>1. NewIn(transfers) = {}
    BY DEF Init, NewIn, NoTransfer
  <2>2. Owed = 0
    <3>1. Units(transfers, {}) = {}
      BY DEF Units
    <3>2. QED
      BY <2>1, <3>1, FS_EmptySet DEF Owed, Sum
  <2>3. QED
    BY <2>2, BridgeAssumption DEF Init
<1>2. TypeOK /\ TypeOK' /\ Solvency /\ [Next]_vars => Solvency'
  <2>1. CASE UNCHANGED vars
    <3>1. UNCHANGED <<transfers, balance, withdrawable>>
      BY <2>1 DEF vars
    <3>2. QED
      BY <3>1 DEF Solvency, TotalSatoshi, Satoshis, WithStatus
  <2>2. QED
    BY <2>1, SolvencyStep
<1>3. QED
  BY <1>1, <1>2, TypeCorrect, PTL DEF Spec

-----------------------------------------------------------------------------
(* Modes *)

\* A frozen contract is paused, too: freeze pauses it, and unpause has to wait
\* for unfreeze (Freezable.sol and whenNotFrozen of unpause).
THEOREM FrozenIsAlwaysPaused == Spec => []FrozenIsPaused
<1>1. Init => FrozenIsPaused
  BY DEF Init, FrozenIsPaused
<1>2. FrozenIsPaused /\ [Next]_vars => FrozenIsPaused'
  <2> SUFFICES ASSUME FrozenIsPaused, [Next]_vars PROVE FrozenIsPaused'
    OBVIOUS
  <2>1. CASE UserNext \/ FederatorNext \/ MineBlock \/ UNCHANGED vars
    <3>1. UNCHANGED <<paused, frozen>>
      BY <2>1 DEF UserNext, FederatorNext, TransferToBtc, ReclaimTransfer, MineBlock, vars,
         MarkTransfersAsSending, MarkTransfersAsMined, RefundTransfers, modeVars
    <3>2. QED
      BY <3>1 DEF FrozenIsPaused
  <2>2. CASE \E c \in Accounts : ModeChange(c)
    <3>1. PICK c \in Accounts : \/ Pause(c) \/ Unpause(c) \/ Freeze(c)
                               \/ Unfreeze(c) \/ MarkObsolete(c) \/ MarkReady(c)
      BY <2>2 DEF ModeChange
    <3>2. CASE Unpause(c) \/ Unfreeze(c)
      <4>1. ~frozen'
        BY <3>2 DEF Unpause, Unfreeze
      <4>2. QED
        BY <4>1 DEF FrozenIsPaused
    <3>3. CASE Pause(c) \/ Freeze(c)
      <4>1. paused'
        BY <3>3 DEF Pause, Freeze
      <4>2. QED
        BY <4>1 DEF FrozenIsPaused
    <3>4. CASE MarkObsolete(c) \/ MarkReady(c)
      <4>1. UNCHANGED <<paused, frozen>>
        BY <3>4 DEF MarkObsolete, MarkReady
      <4>2. QED
        BY <4>1 DEF FrozenIsPaused
    <3>5. QED
      BY <3>1, <3>2, <3>3, <3>4
  <2>3. CASE AdminNext /\ ~\E c \in Accounts : ModeChange(c)
    <3>1. UNCHANGED <<paused, frozen>>
      BY <2>3 DEF AdminNext, AddFeeStructure, SetCurrentFeeStructure, SetBtcAddressValidator,
         SetTransferLimit, SetRequiredBlocksBeforeReclaim, WithdrawRbtc, SetNodeConfigValue,
         CopyNonces, ChangeRole, modeVars
    <3>2. QED
      BY <3>1 DEF FrozenIsPaused
  <2>4. QED
    BY <2>1, <2>2, <2>3 DEF Next
<1>3. QED
  BY <1>1, <1>2, PTL DEF Spec

-----------------------------------------------------------------------------
(* Nonces *)

\* NextSlotFree is inductive only with this: before markReady there are no
\* transfers, so copying nonces cannot point at one.
NoTransferBeforeReady ==
    initialized \/ \A id \in TransferIds : transfers[id].status = "NOT_APPLICABLE"

NonceInvariant == NextSlotFree /\ NoTransferBeforeReady

\* Calls on existing transfers take no free slot.
LEMMA StatusCallKeepsSlots ==
    ASSUME TypeOK, NonceInvariant, NEW ids \in SUBSET TransferIds, NEW newStatus,
           initialized, UNCHANGED <<initialized, nextNonces>>,
           \A id \in ids : transfers[id].status # "NOT_APPLICABLE",
           UpdateTransferStatus(ids, newStatus)
    PROVE  NonceInvariant'
<1>1. \A id \in TransferIds :
         transfers[id].status = "NOT_APPLICABLE" => transfers'[id].status = "NOT_APPLICABLE"
  BY DEF UpdateTransferStatus
<1>2. \A a \in BtcAddresses : \A n \in nextNonces[a] .. MaximumValidNonce :
         <<a, n>> \in TransferIds
  BY BridgeAssumption DEF TypeOK, TransferIds
<1>3. QED
  BY <1>1, <1>2 DEF NonceInvariant, NextSlotFree, NoTransferBeforeReady

\* The slots from the next nonce on stay free in every step.
LEMMA NonceStep ==
    ASSUME TypeOK, NonceInvariant, [Next]_vars
    PROVE  NonceInvariant'
<1>1. ASSUME NEW a \in BtcAddresses, NEW u \in Depositors, NEW v \in Values, TransferToBtc(a, u, v)
      PROVE  NonceInvariant'
  <2>1. /\ initialized /\ UNCHANGED initialized
        /\ nextNonces' = [nextNonces EXCEPT ![a] = nextNonces[a] + 1]
        /\ \A id \in TransferIds : id # <<a, nextNonces[a]>> => transfers'[id] = transfers[id]
    BY <1>1 DEF TransferToBtc, modeVars, TypeOK
  <2>2. ASSUME NEW b \in BtcAddresses, NEW n \in nextNonces'[b] .. MaximumValidNonce
        PROVE  transfers'[<<b, n>>].status = "NOT_APPLICABLE"
    <3>1. nextNonces[b] \in Nat /\ nextNonces[a] \in Nat
      BY BridgeAssumption DEF TypeOK
    <3>2. /\ n \in nextNonces[b] .. MaximumValidNonce
          /\ b = a => n # nextNonces[a]
      BY <2>1, <2>2, <3>1, BridgeAssumption DEF TypeOK
    <3>3. <<b, n>> \in TransferIds /\ <<b, n>> # <<a, nextNonces[a]>>
      BY <3>1, <3>2, BridgeAssumption DEF TransferIds
    <3>4. QED
      BY <2>1, <3>2, <3>3 DEF NonceInvariant, NextSlotFree
  <2>3. QED
    BY <2>1, <2>2 DEF NonceInvariant, NextSlotFree, NoTransferBeforeReady
<1>2. ASSUME NEW u \in Accounts, NEW id \in TransferIds, ReclaimTransfer(u, id)
      PROVE  NonceInvariant'
  <2>1. /\ initialized /\ UNCHANGED <<initialized, nextNonces>>
        /\ transfers[id].status = "NEW"
        /\ UpdateTransferStatus({id}, "RECLAIMED")
    BY <1>2 DEF ReclaimTransfer, modeVars
  <2>2. QED
    BY <2>1, StatusCallKeepsSlots
<1>3. CASE FederatorNext
  <2>1. PICK batch \in Batches, status \in {"NEW", "SENDING"}, newStatus \in TransferStatus :
           /\ initialized /\ UNCHANGED <<initialized, nextNonces>>
           /\ BatchHasStatus(batch, status)
           /\ UpdateTransferStatus(BatchIds(batch), newStatus)
    BY <1>3 DEF FederatorNext, MarkTransfersAsSending, MarkTransfersAsMined, RefundTransfers,
       FederatorCall, modeVars, TransferStatus
  <2>2. \A id \in BatchIds(batch) : transfers[id].status # "NOT_APPLICABLE"
    BY <2>1 DEF BatchHasStatus, BatchIds
  <2>3. QED
    BY <2>1, <2>2, BatchIdsType, StatusCallKeepsSlots
<1>4. ASSUME NEW c \in Accounts, NEW as \in SUBSET BtcAddresses, NEW n \in [as -> OldNonces],
             CopyNonces(c, n)
      PROVE  NonceInvariant'
  <2>1. ~initialized /\ UNCHANGED <<transfers, initialized>>
    BY <1>4 DEF CopyNonces, transferVars, modeVars
  <2>2. \A id \in TransferIds : transfers'[id].status = "NOT_APPLICABLE"
    BY <2>1 DEF NonceInvariant, NoTransferBeforeReady
  <2>3. nextNonces' \in [BtcAddresses -> 0 .. MaximumValidNonce + 1]
    BY <1>4, BridgeAssumption DEF CopyNonces, TypeOK
  <2>4. QED
    BY <2>2, <2>3, BridgeAssumption
    DEF NonceInvariant, NextSlotFree, NoTransferBeforeReady, TransferIds
<1>5. CASE /\ AdminNext \/ MineBlock \/ UNCHANGED vars
           /\ ~\E c \in Accounts, as \in SUBSET BtcAddresses :
                 \E n \in [as -> OldNonces] : CopyNonces(c, n)
  <2>1. UNCHANGED <<transfers, nextNonces>> /\ (initialized => initialized')
    BY <1>5 DEF AdminNext, AddFeeStructure, SetCurrentFeeStructure, SetBtcAddressValidator,
       SetTransferLimit, SetRequiredBlocksBeforeReclaim, WithdrawRbtc, SetNodeConfigValue,
       ModeChange, Pause, Unpause, Freeze, Unfreeze, MarkObsolete, MarkReady, ChangeRole,
       MineBlock, vars, transferVars, modeVars
  <2>2. QED
    BY <2>1 DEF NonceInvariant, NextSlotFree, NoTransferBeforeReady
<1>6. QED
  BY <1>1, <1>2, <1>3, <1>4, <1>5 DEF Next, UserNext

\* The slot a deposit takes is free, so it neither overwrites a transfer nor
\* fails with "shouldn't happen ever": copyNonces is only for a contract that
\* has had no transfers.
THEOREM NextSlotAlwaysFree == Spec => []NextSlotFree
<1>1. Init => NonceInvariant
  BY BridgeAssumption DEF Init, NonceInvariant, NextSlotFree, NoTransferBeforeReady, NoTransfer,
     TransferIds
<1>2. NonceInvariant => NextSlotFree
  BY DEF NonceInvariant
<1>3. QED
  BY <1>1, <1>2, NonceStep, TypeCorrect, PTL DEF Spec

-----------------------------------------------------------------------------
(* Fees *)

\* FeeStructuresExplainAmounts is inductive only with this: the fee in force, and
\* that of each transfer, is in a slot that is in use, and those stay as they are.
FeeInvariant ==
    /\ FeeStructuresExplainAmounts
    /\ feeStructures[currentFee.index] # NoFee
    /\ \A id \in TransferIds :
         transfers[id].status # "NOT_APPLICABLE" =>
             feeStructures[transfers[id].feeStructureIndex] # NoFee

\* Moving transfers to another status leaves their fees alone.
LEMMA StatusCallKeepsFees ==
    ASSUME TypeOK, FeeInvariant, NEW ids \in SUBSET TransferIds, NEW newStatus,
           \A id \in ids : transfers[id].status # "NOT_APPLICABLE",
           UpdateTransferStatus(ids, newStatus), UNCHANGED feeVars
    PROVE  FeeInvariant'
<1>1. UNCHANGED <<feeStructures, currentFee, netAmounts>>
  BY DEF feeVars, UpdateTransferStatus
<1>2. \A id \in TransferIds :
         /\ transfers'[id].totalAmountSatoshi = transfers[id].totalAmountSatoshi
         /\ transfers'[id].feeStructureIndex = transfers[id].feeStructureIndex
         /\ transfers'[id].status # "NOT_APPLICABLE" => transfers[id].status # "NOT_APPLICABLE"
  BY DEF UpdateTransferStatus, TypeOK, BitcoinTransfer
<1>3. QED
  BY <1>1, <1>2 DEF FeeInvariant, FeeStructuresExplainAmounts, WithStatus, FeeSatoshi

\* A deposit is explained by the fee in force.
LEMMA DepositKeepsFees ==
    ASSUME TypeOK, FeeInvariant, NEW a \in BtcAddresses, NEW u \in Depositors,
           NEW v \in Values, TransferToBtc(a, u, v)
    PROVE  FeeInvariant'
<1> DEFINE id == <<a, nextNonces[a]>>
           amountSatoshi == v \div SatoshiDivisor
           transfer == [status |-> "NEW", rskAddress |-> u, feeStructureIndex |-> currentFee.index,
                        totalAmountSatoshi |-> amountSatoshi]
<1>1. id \in TransferIds
  BY DEF TypeOK, TransferToBtc, TransferIds
<1>2. /\ transfers' = [transfers EXCEPT ![id] = transfer]
      /\ netAmounts' = [netAmounts EXCEPT ![id] =
                          amountSatoshi - FeeSatoshi(currentFee.structure, amountSatoshi)]
      /\ UNCHANGED <<feeStructures, currentFee>>
  BY DEF TransferToBtc, CalculateCurrentFeeSatoshi, feeVars
<1>3. /\ transfers'[id].feeStructureIndex = currentFee.index
      /\ transfers'[id].totalAmountSatoshi = amountSatoshi
      /\ netAmounts'[id] = amountSatoshi - FeeSatoshi(currentFee.structure, amountSatoshi)
  BY <1>1, <1>2 DEF TypeOK
<1>4. \A other \in TransferIds \ {id} :
         transfers'[other] = transfers[other] /\ netAmounts'[other] = netAmounts[other]
  BY <1>2 DEF TypeOK
<1>5. /\ currentFee.structure = feeStructures[currentFee.index]
      /\ feeStructures[currentFee.index] # NoFee
  BY DEF FeeInvariant, FeeStructuresExplainAmounts
<1> HIDE DEF id, amountSatoshi
<1>6. ASSUME NEW other \in TransferIds, transfers'[other].status # "NOT_APPLICABLE"
      PROVE  LET t == transfers'[other]
             IN  /\ feeStructures'[t.feeStructureIndex] # NoFee
                 /\ netAmounts'[other] = t.totalAmountSatoshi
                      - FeeSatoshi(feeStructures'[t.feeStructureIndex], t.totalAmountSatoshi)
  <2>1. CASE other = id
    BY <1>2, <1>3, <1>5, <2>1
  <2>2. CASE other # id
    BY <1>2, <1>4, <1>6, <2>2 DEF FeeInvariant, FeeStructuresExplainAmounts, WithStatus
  <2>3. QED
    BY <2>1, <2>2
<1>7. QED
  BY <1>2, <1>5, <1>6 DEF FeeInvariant, FeeStructuresExplainAmounts, WithStatus, FeeSatoshi

\* A new fee structure takes a slot that nothing names yet.
LEMMA AddingKeepsFees ==
    ASSUME TypeOK, FeeInvariant, NEW c, NEW index \in FeeSlots, NEW fee,
           AddFeeStructure(c, index, fee)
    PROVE  FeeInvariant'
<1>1. /\ feeStructures[index] = NoFee
      /\ feeStructures' = [feeStructures EXCEPT ![index] = fee]
      /\ UNCHANGED <<transfers, netAmounts, currentFee>>
  BY DEF AddFeeStructure, transferVars
<1>2. \A i \in FeeSlots : feeStructures[i] # NoFee => feeStructures'[i] = feeStructures[i]
  BY <1>1 DEF TypeOK
<1>3. /\ currentFee.index \in FeeSlots
      /\ \A id \in TransferIds : transfers[id].feeStructureIndex \in FeeSlots
  BY DEF TypeOK, BitcoinTransfer
<1>4. QED
  BY <1>1, <1>2, <1>3 DEF FeeInvariant, FeeStructuresExplainAmounts, WithStatus, FeeSatoshi

\* The other calls leave the fees of transfers alone.
LEMMA OtherCallsKeepFees ==
    ASSUME FeeInvariant, UNCHANGED <<transfers, netAmounts, feeStructures>>,
           \/ UNCHANGED currentFee
           \/ \E c \in Accounts, i \in FeeSlots : SetCurrentFeeStructure(c, i)
    PROVE  FeeInvariant'
<1>1. /\ currentFee'.structure = feeStructures[currentFee'.index]
      /\ feeStructures[currentFee'.index] # NoFee
  BY DEF FeeInvariant, FeeStructuresExplainAmounts, SetCurrentFeeStructure
<1>2. QED
  BY <1>1 DEF FeeInvariant, FeeStructuresExplainAmounts, WithStatus, FeeSatoshi

\* What users are told they get is what the fee structure of their transfer gives,
\* for ever: addFeeStructure refuses a slot in use (FastBTCBridge.sol:504), and
\* setCurrentFeeStructure one that is not.
THEOREM FeesAlwaysExplained == Spec => []FeeStructuresExplainAmounts
<1>1. Init => FeeInvariant
  BY BridgeAssumption DEF Init, FeeInvariant, FeeStructuresExplainAmounts, WithStatus, NoTransfer
<1>2. TypeOK /\ FeeInvariant /\ [Next]_vars => FeeInvariant'
  <2> SUFFICES ASSUME TypeOK, FeeInvariant, [Next]_vars
               PROVE  FeeInvariant'
    OBVIOUS
  <2>1. ASSUME NEW a \in BtcAddresses, NEW u \in Depositors, NEW v \in Values,
               TransferToBtc(a, u, v)
        PROVE  FeeInvariant'
    BY <2>1, DepositKeepsFees
  <2>2. ASSUME NEW u \in Accounts, NEW id \in TransferIds, ReclaimTransfer(u, id)
        PROVE  FeeInvariant'
    <3>1. /\ transfers[id].status = "NEW"
          /\ UpdateTransferStatus({id}, "RECLAIMED")
          /\ UNCHANGED feeVars
      BY <2>2 DEF ReclaimTransfer
    <3>2. QED
      BY <3>1, StatusCallKeepsFees
  <2>3. CASE FederatorNext
    <3>1. PICK batch \in Batches, status \in {"NEW", "SENDING"}, newStatus \in TransferStatus :
             /\ BatchHasStatus(batch, status)
             /\ UpdateTransferStatus(BatchIds(batch), newStatus)
             /\ UNCHANGED feeVars
      BY <2>3 DEF FederatorNext, MarkTransfersAsSending, MarkTransfersAsMined, RefundTransfers,
         TransferStatus
    <3>2. \A id \in BatchIds(batch) : transfers[id].status # "NOT_APPLICABLE"
      BY <3>1 DEF BatchHasStatus, BatchIds
    <3>3. QED
      BY <3>1, <3>2, BatchIdsType, StatusCallKeepsFees
  <2>4. ASSUME NEW c \in Accounts, NEW i \in FeeSlots, NEW fee \in Fees, AddFeeStructure(c, i, fee)
        PROVE  FeeInvariant'
    BY <2>4, AddingKeepsFees
  <2>5. CASE /\ AdminNext \/ MineBlock \/ UNCHANGED vars
             /\ ~\E c \in Accounts, i \in FeeSlots, fee \in Fees : AddFeeStructure(c, i, fee)
    <3>1. UNCHANGED <<transfers, netAmounts, feeStructures>>
      BY <2>5 DEF AdminNext, SetCurrentFeeStructure, SetBtcAddressValidator, SetTransferLimit,
         SetRequiredBlocksBeforeReclaim, WithdrawRbtc, SetNodeConfigValue, ModeChange, CopyNonces,
         ChangeRole, MineBlock, vars, transferVars, feeVars
    <3>2. \/ UNCHANGED currentFee
          \/ \E c \in Accounts, i \in FeeSlots : SetCurrentFeeStructure(c, i)
      BY <2>5 DEF AdminNext, SetBtcAddressValidator, SetTransferLimit,
         SetRequiredBlocksBeforeReclaim, WithdrawRbtc, SetNodeConfigValue, ModeChange, CopyNonces,
         ChangeRole, MineBlock, vars, feeVars
    <3>3. QED
      BY <3>1, <3>2, OtherCallsKeepFees
  <2>6. QED
    BY <2>1, <2>2, <2>3, <2>4, <2>5 DEF Next, UserNext
<1>3. FeeInvariant => FeeStructuresExplainAmounts
  BY DEF FeeInvariant
<1>4. QED
  BY <1>1, <1>2, <1>3, TypeCorrect, PTL DEF Spec

-----------------------------------------------------------------------------
(* The ledger *)

\* A product of natural numbers grows with them.
LEMMA ProductGrows ==
    ASSUME NEW l \in Nat, NEW m \in Nat, NEW n \in Nat, l <= m
    PROVE  l * n <= m * n
<1>1. PICK k \in Nat : m = l + k
  <2>1. m - l \in Nat /\ m = l + (m - l)
    OBVIOUS
  <2>2. QED
    BY <2>1
<1>2. m * n = l * n + k * n
  BY <1>1, ProductOfSum
<1>3. l * n \in Nat /\ k * n \in Nat
  BY ProductType
<1>4. QED
  BY <1>2, <1>3

\* A number from 1 to a * d is (j - 1) * d + r for a j from 1 to a and an r from 1 to d.
LEMMA SplitNumber ==
    ASSUME NEW a \in Nat, NEW d \in Nat \ {0}, NEW k \in 1 .. a * d
    PROVE  \E j \in 1 .. a, r \in 1 .. d : k = (j - 1) * d + r
<1> DEFINE q == (k - 1) \div d
           r == ((k - 1) % d) + 1
<1>1. a * d \in Nat
  BY ProductType
<1>2. k - 1 \in Nat /\ k \in Nat
  BY <1>1
<1>3. q \in Nat /\ r \in 1 .. d
  BY <1>2
<1>4. k - 1 = d * q + ((k - 1) % d)
  BY <1>2
<1>5. d * q = q * d
  BY <1>3
<1>6. k = q * d + r
  <2>1. q * d \in Nat /\ (k - 1) % d \in Nat
    BY <1>2, <1>3, ProductType
  <2>2. QED
    BY <1>2, <1>4, <1>5, <2>1
<1> HIDE DEF q, r
<1>7. q < a
  <2>1. SUFFICES ASSUME a <= q
                 PROVE  FALSE
    BY <1>3
  <2>2. a * d <= q * d
    BY <1>3, <2>1, ProductGrows
  <2>3. q * d \in Nat
    BY <1>3, ProductType
  <2>4. QED
    BY <1>1, <1>3, <1>6, <2>2, <2>3
<1>8. q + 1 \in 1 .. a /\ (q + 1) - 1 = q
  BY <1>3, <1>7
<1>9. QED
  BY <1>3, <1>6, <1>8

\* It is so for one j and one r only, and for no j above a.
LEMMA SplitOnce ==
    ASSUME NEW d \in Nat \ {0}, NEW i \in Nat \ {0}, NEW j \in Nat \ {0},
           NEW q \in 1 .. d, NEW r \in 1 .. d, (i - 1) * d + q = (j - 1) * d + r
    PROVE  i = j /\ q = r
<1>1. \A x, y \in Nat : x < y => x * d + d <= y * d
  <2> SUFFICES ASSUME NEW x \in Nat, NEW y \in Nat, x < y
               PROVE  x * d + d <= y * d
    OBVIOUS
  <2>1. (x + 1) * d <= y * d
    BY ProductGrows
  <2>2. (x + 1) * d = x * d + 1 * d
    BY ProductOfSum
  <2>3. QED
    BY <2>1, <2>2
<1> DEFINE m == i - 1
           n == j - 1
<1>2. m \in Nat /\ n \in Nat /\ m * d + q = n * d + r
  OBVIOUS
<1>3. m * d \in Nat /\ n * d \in Nat
  BY <1>2, ProductType
<1> HIDE DEF m, n
<1>4. ~(m < n)
  <2>1. m < n => m * d + d <= n * d
    BY <1>1, <1>2
  <2>2. QED
    BY <1>2, <1>3, <2>1
<1>5. ~(n < m)
  <2>1. n < m => n * d + d <= m * d
    BY <1>1, <1>2
  <2>2. QED
    BY <1>2, <1>3, <2>1
<1>6. m = n
  BY <1>2, <1>4, <1>5
<1>7. q = r
  BY <1>2, <1>3, <1>6
<1>8. QED
  BY <1>6, <1>7 DEF m, n

\* The ledger counts as the contract does.
LEMMA LedgerCardinality == \A S : Ledger!Cardinality(S) = Cardinality(S)
BY Zenon DEF Ledger!Cardinality, Cardinality

\* The ledger counts wei, and the contract satoshi: the sums are the same.
LEMMA LedgerTotal ==
    ASSUME TypeOK, NEW ids \in SUBSET TransferIds
    PROVE  Ledger!Total(ids) = TotalSatoshi(ids) * SatoshiDivisor
<1> DEFINE d == SatoshiDivisor
           a(id) == transfers[id].totalAmountSatoshi
           S == Satoshis(ids) \X (1 .. d)
           T == {p \in ids \X (1 .. MaxUint40 * d) : p[2] <= a(p[1]) * d}
           F == [p \in S |-> <<p[1][1], (p[1][2] - 1) * d + p[2]>>]
<1>1. d \in Nat \ {0} /\ MaxUint40 \in Nat
  BY BridgeAssumption
<1>2. \A id \in ids : a(id) \in 0 .. MaxUint40 /\ a(id) \in Nat
  BY <1>1 DEF TypeOK, BitcoinTransfer
<1>3. Ledger!Total(ids) = Cardinality(T)
  <2>1. \A id \in ids :
          [x \in TransferIds |-> transfers[x].totalAmountSatoshi * SatoshiDivisor][id] = a(id) * d
    OBVIOUS
  <2> DEFINE L == {p \in ids \X (1 .. MaxUint40 * SatoshiDivisor) :
          p[2] <= [x \in TransferIds |-> transfers[x].totalAmountSatoshi * SatoshiDivisor][p[1]]}
  <2>2. L = T
    BY <2>1
  <2>3. Ledger!Total(ids) = Cardinality(L)
    BY LedgerCardinality DEF Ledger!Total
  <2> HIDE DEF L, T
  <2>4. QED
    BY <2>2, <2>3
<1>4. IsFiniteSet(Satoshis(ids)) /\ Cardinality(Satoshis(ids)) = TotalSatoshi(ids)
  BY SumType DEF TotalSatoshi, Satoshis, Units
<1>5. IsFiniteSet(1 .. d) /\ Cardinality(1 .. d) = d
  BY <1>1, FS_Interval
<1>6. IsFiniteSet(S) /\ Cardinality(S) = TotalSatoshi(ids) * d
  <2> HIDE DEF d
  <2>1. IsFiniteSet(S) /\ Cardinality(S) = Cardinality(Satoshis(ids)) * Cardinality(1 .. d)
    BY <1>4, <1>5, FS_Product
  <2>2. QED
    BY <1>4, <1>5, <2>1
<1>7. \A p \in S : /\ p = <<<<p[1][1], p[1][2]>>, p[2]>>
                   /\ p[1][1] \in ids /\ p[1][2] \in 1 .. a(p[1][1]) /\ p[2] \in 1 .. d
                   /\ p[1][2] \in Nat \ {0}
  BY <1>1, <1>2 DEF Satoshis
<1>8. ASSUME NEW p \in S
      PROVE  F[p] \in T
  <2> DEFINE id == p[1][1]
             j == p[1][2]
             r == p[2]
  <2>1. id \in ids /\ j \in 1 .. a(id) /\ r \in 1 .. d /\ j \in Nat \ {0}
    BY <1>7
  <2>2. F[p] = <<id, (j - 1) * d + r>>
    OBVIOUS
  <2> HIDE DEF F, S, id, j, r
  <2>3. a(id) \in Nat /\ a(id) <= MaxUint40
    BY <1>2, <2>1
  <2>4. j - 1 \in Nat /\ 1 \in Nat /\ j - 1 + 1 = j /\ j <= a(id)
    BY <2>1, <2>3
  <2> DEFINE i == j - 1
  <2>5. (i + 1) * d = i * d + 1 * d
    BY <1>1, <2>4, ProductOfSum
  <2>6. j * d <= a(id) * d /\ a(id) * d <= MaxUint40 * d
    BY <1>1, <2>1, <2>3, <2>4, ProductGrows
  <2>7. i * d \in Nat /\ j * d \in Nat /\ a(id) * d \in Nat /\ MaxUint40 * d \in Nat
    BY <1>1, <2>1, <2>3, <2>4, ProductType
  <2>8. i * d + r <= j * d /\ i * d + r >= 1
    <3>1. (i + 1) * d = j * d /\ 1 * d = d
      BY <1>1, <2>4
    <3> HIDE DEF i, d
    <3>2. QED
      BY <1>1, <2>1, <2>5, <2>7, <3>1
  <2> DEFINE k == i * d + r
  <2>9. k \in 1 .. MaxUint40 * d /\ k <= a(id) * d
    <3> HIDE DEF i, d, a
    <3>1. QED
      BY <1>1, <2>1, <2>6, <2>7, <2>8
  <2> HIDE DEF k
  <2>10. <<id, k>> \in T
    BY <2>1, <2>9
  <2>11. QED
    BY <2>2, <2>10 DEF k, i
<1>9. F \in [S -> T]
  <2> HIDE DEF S, T
  <2>1. QED
    BY <1>8
<1>10. ASSUME NEW p \in S, NEW q \in S, F[p] = F[q]
       PROVE  p = q
  <2>1. p[1][1] = q[1][1] /\ (p[1][2] - 1) * d + p[2] = (q[1][2] - 1) * d + q[2]
    BY <1>10
  <2> HIDE DEF F, S
  <2>2. /\ p[1][2] \in Nat \ {0} /\ q[1][2] \in Nat \ {0}
        /\ p[2] \in 1 .. d /\ q[2] \in 1 .. d
    BY <1>7
  <2>3. p[1][2] = q[1][2] /\ p[2] = q[2]
    <3> DEFINE i == p[1][2]
               j == q[1][2]
               s == p[2]
               r == q[2]
    <3>1. i \in Nat \ {0} /\ j \in Nat \ {0} /\ s \in 1 .. d /\ r \in 1 .. d
      BY <2>2
    <3>2. (i - 1) * d + s = (j - 1) * d + r
      BY <2>1
    <3> HIDE DEF i, j, s, r, d
    <3>3. i = j /\ s = r
      BY <1>1, <3>1, <3>2, SplitOnce
    <3>4. QED
      BY <3>3 DEF i, j, s, r
  <2>4. QED
    BY <1>7, <2>1, <2>3
<1>11. ASSUME NEW t \in T
       PROVE  \E p \in S : F[p] = t
  <2>1. t = <<t[1], t[2]>> /\ t[1] \in ids /\ t[2] \in 1 .. MaxUint40 * d /\ t[2] <= a(t[1]) * d
    OBVIOUS
  <2> HIDE DEF F, S, T
  <2>2. a(t[1]) \in Nat /\ a(t[1]) <= MaxUint40
    BY <1>2, <2>1
  <2>3. t[2] \in 1 .. a(t[1]) * d
    <3>1. MaxUint40 * d \in Nat /\ a(t[1]) * d \in Nat
      BY <1>1, <2>2, ProductType
    <3> HIDE DEF d, a
    <3>2. QED
      BY <2>1, <3>1
  <2>4. PICK j \in 1 .. a(t[1]), r \in 1 .. d : t[2] = (j - 1) * d + r
    <3> DEFINE n == a(t[1])
               k == t[2]
    <3>1. n \in Nat /\ d \in Nat \ {0} /\ k \in 1 .. n * d
      BY <1>1, <2>2, <2>3
    <3> HIDE DEF n, k, d
    <3>2. \E j \in 1 .. n, r \in 1 .. d : k = (j - 1) * d + r
      BY <3>1, SplitNumber
    <3>3. QED
      BY <3>2 DEF n, k
  <2>5. <<t[1], j>> \in Satoshis(ids)
    BY <1>1, <2>1, <2>2, <2>4 DEF Satoshis
  <2>6. <<<<t[1], j>>, r>> \in S
    BY <2>5 DEF S
  <2>7. F[<<<<t[1], j>>, r>>] = <<t[1], (j - 1) * d + r>>
    BY <2>6 DEF F
  <2>8. QED
    BY <2>1, <2>4, <2>6, <2>7
<1> HIDE DEF F, S, T, d
<1>12. F \in Injection(S, T) /\ F \in Surjection(S, T)
  <2>1. \A p, q \in S : F[p] = F[q] => p = q
    BY <1>10
  <2>2. \A t \in T : \E p \in S : F[p] = t
    BY <1>11
  <2>3. F \in Injection(S, T)
    BY <1>9, <2>1, Zenon DEF Injection, IsInjective
  <2>4. F \in Surjection(S, T)
    BY <1>9, <2>2, Zenon DEF Surjection
  <2>5. QED
    BY <2>3, <2>4
<1>13. ExistsBijection(S, T)
  BY <1>12 DEF Bijection, ExistsBijection
<1>14. Cardinality(T) = Cardinality(S)
  BY <1>6, <1>13, FS_Bijection
<1>15. QED
  BY <1>3, <1>6, <1>14 DEF d

\* What the ledger calls the statuses.
LEMMA Phases ==
    /\ Phase("NOT_APPLICABLE") = "none"
    /\ Phase("NEW") = "held"
    /\ Phase("SENDING") = "released"
    /\ Phase("MINED") = "paid"
    /\ Phase("REFUNDED") = "returned"
    /\ Phase("RECLAIMED") = "returned"
BY DEF Phase

\* Transfers that change their status together move together in the ledger.
LEMMA StatusMovesPhase ==
    ASSUME TypeOK, NEW ids \in SUBSET TransferIds, NEW status, NEW newStatus,
           \A id \in ids : transfers[id].status = status,
           UpdateTransferStatus(ids, newStatus)
    PROVE  Ledger!Move(ids, Phase(status), Phase(newStatus))
<1>1. \A id \in TransferIds :
         /\ transfers'[id].status = IF id \in ids THEN newStatus ELSE transfers[id].status
         /\ transfers'[id].rskAddress = transfers[id].rskAddress
         /\ transfers'[id].totalAmountSatoshi = transfers[id].totalAmountSatoshi
  BY DEF TypeOK, BitcoinTransfer, UpdateTransferStatus
<1>2. \A id \in ids : Phase(transfers[id].status) = Phase(status)
  OBVIOUS
<1>3. \A id \in TransferIds :
         Phase(transfers'[id].status) =
             IF id \in ids THEN Phase(newStatus) ELSE Phase(transfers[id].status)
  BY <1>1
<1>4. QED
  BY <1>1, <1>2, <1>3 DEF Ledger!Move

\* The refinement mapping looks at nothing else.
LEMMA OthersStutter ==
    ASSUME UNCHANGED <<transfers, balance, withdrawable>>
    PROVE  UNCHANGED Ledger!ledger
BY DEF Ledger!ledger

\* A deposit of the contract is one of the ledger.
LEMMA DepositRefines ==
    ASSUME TypeOK, NEW a \in BtcAddresses, NEW u \in Depositors, NEW v \in Values,
           TransferToBtc(a, u, v)
    PROVE  Ledger!Next
<1> DEFINE id == <<a, nextNonces[a]>>
           amountSatoshi == v \div SatoshiDivisor
           transfer == [status |-> "NEW", rskAddress |-> u, feeStructureIndex |-> currentFee.index,
                        totalAmountSatoshi |-> amountSatoshi]
<1>1. id \in TransferIds /\ u \in Addresses
  BY BridgeAssumption DEF TypeOK, TransferToBtc, TransferIds
<1>2. /\ transfers[id].status = "NOT_APPLICABLE"
      /\ transfers' = [transfers EXCEPT ![id] = transfer]
      /\ balance' = balance + v
      /\ withdrawable' = withdrawable
  BY DEF TransferToBtc
<1>3. amountSatoshi * SatoshiDivisor = v /\ v \in Nat /\ amountSatoshi \in 0 .. MaxUint40
  <2>1. v \in Nat /\ SatoshiDivisor \in Nat \ {0} /\ v % SatoshiDivisor = 0
    BY BridgeAssumption DEF TransferToBtc
  <2>2. amountSatoshi \in Nat /\ amountSatoshi <= limits.max
    BY <2>1, QuotientType DEF TransferToBtc
  <2>3. limits.max \in 0 .. MaxUint40
    BY DEF TypeOK
  <2>4. QED
    BY <2>1, <2>2, <2>3, ExactQuotient, BridgeAssumption
<1>4. v \in 0 .. MaxUint40 * SatoshiDivisor
  <2>1. amountSatoshi \in Nat /\ amountSatoshi <= MaxUint40 /\ MaxUint40 \in Nat
        /\ SatoshiDivisor \in Nat
    BY <1>3, BridgeAssumption
  <2> HIDE DEF amountSatoshi
  <2>2. amountSatoshi * SatoshiDivisor <= MaxUint40 * SatoshiDivisor
    BY <2>1, ProductGrows
  <2>3. MaxUint40 * SatoshiDivisor \in Nat
    BY <2>1, ProductType
  <2>4. QED
    BY <1>3, <2>2, <2>3
<1>5. transfers'[id] = transfer /\ \A other \in TransferIds \ {id} : transfers'[other] = transfers[other]
  BY <1>1, <1>2 DEF TypeOK
<1>6. /\ Phase(transfers[id].status) = "none"
      /\ Phase(transfers'[id].status) = "held"
      /\ transfers'[id].rskAddress = u
      /\ transfers'[id].totalAmountSatoshi * SatoshiDivisor = v
  BY <1>2, <1>3, <1>5, Phases
<1> HIDE DEF id, transfer, amountSatoshi
<1>7. \A x \in TransferIds :
         /\ Phase(transfers'[x].status) = IF x = id THEN "held" ELSE Phase(transfers[x].status)
         /\ transfers'[x].rskAddress = IF x = id THEN u ELSE transfers[x].rskAddress
         /\ transfers'[x].totalAmountSatoshi * SatoshiDivisor =
              IF x = id THEN v ELSE transfers[x].totalAmountSatoshi * SatoshiDivisor
  BY <1>5, <1>6
<1> DEFINE phase == [x \in TransferIds |-> Phase(transfers[x].status)]
           owner == [x \in TransferIds |-> transfers[x].rskAddress]
           amount == [x \in TransferIds |-> transfers[x].totalAmountSatoshi * SatoshiDivisor]
<1>8. /\ phase' = [phase EXCEPT ![id] = "held"]
      /\ owner' = [owner EXCEPT ![id] = u]
      /\ amount' = [amount EXCEPT ![id] = v]
  <2>1. \A x \in TransferIds : phase'[x] = IF x = id THEN "held" ELSE phase[x]
    BY <1>7
  <2>2. \A x \in TransferIds : owner'[x] = IF x = id THEN u ELSE owner[x]
    BY <1>7
  <2>3. \A x \in TransferIds : amount'[x] = IF x = id THEN v ELSE amount[x]
    BY <1>7
  <2>4. /\ phase' = [x \in TransferIds |-> phase'[x]] /\ DOMAIN phase = TransferIds
        /\ owner' = [x \in TransferIds |-> owner'[x]] /\ DOMAIN owner = TransferIds
        /\ amount' = [x \in TransferIds |-> amount'[x]] /\ DOMAIN amount = TransferIds
    OBVIOUS
  <2> HIDE DEF phase, owner, amount
  <2>5. QED
    BY <1>1, <2>1, <2>2, <2>3, <2>4
<1>9. phase[id] = "none"
  BY <1>1, <1>6
<1>10. balance' - withdrawable' = balance - withdrawable + v
  BY <1>2, <1>3 DEF TypeOK
<1>11. Ledger!Deposit(id, u, v)
  BY <1>2, <1>8, <1>9, <1>10 DEF Ledger!Deposit
<1>12. QED
  BY <1>1, <1>4, <1>11 DEF Ledger!Next

\* Money that goes back to users leaves the escrow, and nothing else does.
LEMMA RefundRefines ==
    ASSUME TypeOK, NEW ids \in SUBSET TransferIds, NEW newStatus \in {"REFUNDED", "RECLAIMED"},
           \A id \in ids : transfers[id].status = "NEW",
           UpdateTransferStatus(ids, newStatus), RefundTransferRbtc(ids), UNCHANGED withdrawable
    PROVE  Ledger!Next
<1>1. Ledger!Move(ids, "held", "returned")
  <2>1. Ledger!Move(ids, Phase("NEW"), Phase(newStatus))
    BY StatusMovesPhase
  <2>2. Phase("NEW") = "held" /\ Phase(newStatus) = "returned"
    BY Phases
  <2>3. QED
    BY <2>1, <2>2
<1>2. balance' - withdrawable' = balance - withdrawable - Ledger!Total(ids)
  <2>1. Ledger!Total(ids) \in Nat /\ balance' = balance - Ledger!Total(ids)
    BY LedgerTotal, WeiType DEF RefundTransferRbtc
  <2>2. QED
    BY <2>1 DEF TypeOK
<1>3. Ledger!Return(ids)
  BY <1>1, <1>2 DEF Ledger!Return
<1>4. QED
  BY <1>3 DEF Ledger!Next

\* The federators' calls.
LEMMA FederatorCallRefines == ASSUME TypeOK, FederatorNext PROVE Ledger!Next
<1> SUFFICES ASSUME NEW f \in Accounts, NEW batch \in Batches, NEW s \in SignatureLists,
                    \/ MarkTransfersAsSending(f, batch, s)
                    \/ MarkTransfersAsMined(f, batch, s)
                    \/ RefundTransfers(f, batch, s)
             PROVE  Ledger!Next
  BY DEF FederatorNext
<1> DEFINE ids == BatchIds(batch)
<1>1. ids \in SUBSET TransferIds
  BY BatchIdsType
<1>2. \A status : BatchHasStatus(batch, status) => \A id \in ids : transfers[id].status = status
  BY DEF BatchHasStatus, BatchIds
<1>3. CASE MarkTransfersAsSending(f, batch, s)
  <2>1. /\ \A id \in ids : transfers[id].status = "NEW"
        /\ UpdateTransferStatus(ids, "SENDING")
        /\ withdrawable' = withdrawable + TotalSatoshi(ids) * SatoshiDivisor
        /\ balance' = balance
    BY <1>2, <1>3 DEF MarkTransfersAsSending
  <2> HIDE DEF ids
  <2>2. Ledger!Move(ids, "held", "released")
    <3>1. Ledger!Move(ids, Phase("NEW"), Phase("SENDING"))
      BY <1>1, <2>1, StatusMovesPhase
    <3>2. QED
      BY <3>1, Phases
  <2>3. Ledger!Total(ids) \in Nat /\ withdrawable' = withdrawable + Ledger!Total(ids)
    BY <1>1, <2>1, LedgerTotal, WeiType
  <2>4. balance' - withdrawable' = balance - withdrawable - Ledger!Total(ids)
    BY <2>1, <2>3 DEF TypeOK
  <2>5. Ledger!Release(ids)
    BY <2>2, <2>3, <2>4 DEF Ledger!Release
  <2>6. QED
    BY <1>1, <2>5 DEF Ledger!Next
<1>4. CASE MarkTransfersAsMined(f, batch, s)
  <2>1. /\ \A id \in ids : transfers[id].status = "SENDING"
        /\ UpdateTransferStatus(ids, "MINED")
        /\ withdrawable' = withdrawable /\ balance' = balance
    BY <1>2, <1>4 DEF MarkTransfersAsMined, fundVars
  <2> HIDE DEF ids
  <2>2. Ledger!Move(ids, "released", "paid")
    <3>1. Ledger!Move(ids, Phase("SENDING"), Phase("MINED"))
      BY <1>1, <2>1, StatusMovesPhase
    <3>2. QED
      BY <3>1, Phases
  <2>3. Ledger!Confirm(ids)
    BY <2>1, <2>2 DEF Ledger!Confirm
  <2>4. QED
    BY <1>1, <2>3 DEF Ledger!Next
<1>5. CASE RefundTransfers(f, batch, s)
  <2>1. /\ \A id \in ids : transfers[id].status = "NEW"
        /\ UpdateTransferStatus(ids, "REFUNDED")
        /\ RefundTransferRbtc(ids)
        /\ UNCHANGED withdrawable
    BY <1>2, <1>5 DEF RefundTransfers
  <2> HIDE DEF ids
  <2>2. QED
    BY <1>1, <2>1, RefundRefines
<1>6. QED
  BY <1>3, <1>4, <1>5

\* The contract implements the ledger: whatever federators, users and admins call
\* in whatever order, each call is a deposit, a return, a release, a confirmation
\* or an expense of the ledger, or nothing to it, and the escrow is what the
\* contract holds beyond what admins may withdraw (FastBTCBridge.sol).
THEOREM BridgeImplementsLedger == Spec => ImplementsLedger
<1>1. Init => Ledger!Init
  <2> SUFFICES ASSUME Init PROVE Ledger!Init
    OBVIOUS
  <2>1. \A id \in TransferIds : transfers[id] = NoTransfer
    BY DEF Init
  <2>2. \A id \in TransferIds :
           /\ Phase(transfers[id].status) = "none"
           /\ transfers[id].rskAddress \in Addresses
           /\ transfers[id].totalAmountSatoshi * SatoshiDivisor = 0
    BY <2>1, Phases, BridgeAssumption DEF NoTransfer, Addresses
  <2>3. balance - withdrawable = 0 /\ withdrawable = 0
    BY DEF Init
  <2>4. QED
    BY <2>2, <2>3 DEF Ledger!Init
<1>2. TypeOK /\ [Next]_vars => [Ledger!Next]_(Ledger!ledger)
  <2> SUFFICES ASSUME TypeOK, [Next]_vars
               PROVE  Ledger!Next \/ UNCHANGED Ledger!ledger
    OBVIOUS
  <2>1. ASSUME NEW a \in BtcAddresses, NEW u \in Depositors, NEW v \in Values,
               TransferToBtc(a, u, v)
        PROVE  Ledger!Next
    BY <2>1, DepositRefines
  <2>2. ASSUME NEW u \in Accounts, NEW id \in TransferIds, ReclaimTransfer(u, id)
        PROVE  Ledger!Next
    <3>1. /\ \A x \in {id} : transfers[x].status = "NEW"
          /\ UpdateTransferStatus({id}, "RECLAIMED")
          /\ RefundTransferRbtc({id})
          /\ UNCHANGED withdrawable
      BY <2>2 DEF ReclaimTransfer
    <3>2. QED
      BY <3>1, RefundRefines
  <2>3. CASE FederatorNext
    BY <2>3, FederatorCallRefines
  <2>4. ASSUME NEW c \in Accounts, NEW n \in 1 .. balance, WithdrawRbtc(c, n)
        PROVE  Ledger!Next
    <3>1. /\ n \in Nat /\ n <= withdrawable /\ n \in 1 .. withdrawable
          /\ withdrawable' = withdrawable - n
          /\ balance' - withdrawable' = balance - withdrawable
          /\ transfers' = transfers
      BY <2>4 DEF WithdrawRbtc, TypeOK, transferVars
    <3>2. Ledger!Spend(n)
      BY <3>1 DEF Ledger!Spend
    <3>3. QED
      BY <3>1, <3>2 DEF Ledger!Next
  <2>5. CASE /\ AdminNext \/ MineBlock \/ UNCHANGED vars
             /\ ~\E c \in Accounts, n \in 1 .. balance : WithdrawRbtc(c, n)
    <3>1. UNCHANGED <<transfers, balance, withdrawable>>
      BY <2>5 DEF AdminNext, AddFeeStructure, SetCurrentFeeStructure, SetBtcAddressValidator,
         SetTransferLimit, SetRequiredBlocksBeforeReclaim, SetNodeConfigValue, ModeChange,
         CopyNonces, ChangeRole, MineBlock, vars, transferVars, fundVars
    <3>2. QED
      BY <3>1, OthersStutter
  <2>6. QED
    BY <2>1, <2>2, <2>3, <2>4, <2>5 DEF Next, UserNext
<1>3. QED
  BY <1>1, <1>2, TypeCorrect, PTL DEF Spec, ImplementsLedger, Ledger!Spec
=============================================================================
