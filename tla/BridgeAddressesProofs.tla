----------------------- MODULE BridgeAddressesProofs -----------------------
(***************************************************************************)
(* Proofs about BridgeAddresses: what the validator for the mainnet makes  *)
(* of one wrong byte, for every address that it accepts, and that the      *)
(* bridge has no transfer to an address that its validator did not accept. *)
(***************************************************************************)
EXTENDS BridgeAddresses, FastBTCBridgeProofs

-----------------------------------------------------------------------------
(* The characters *)

\* The powers that shift the mask.
LEMMA Powers ==
    /\ 2^0 = 1 /\ 2^1 = 2 /\ 2^2 = 4 /\ 2^3 = 8 /\ 2^4 = 16 /\ 2^5 = 32 /\ 2^6 = 64 /\ 2^7 = 128
    /\ 2^8 = 256 /\ 2^9 = 512 /\ 2^10 = 1024 /\ 2^11 = 2048 /\ 2^12 = 4096 /\ 2^13 = 8192
    /\ 2^14 = 16384 /\ 2^15 = 32768
OBVIOUS

Bit(word, b) == (word \div 2^b) % 2

\* The bits of the words of the mask.
LEMMA Bits ==
    ASSUME NEW b \in 0 .. 15
    PROVE  /\ Bit(\hFFFF, b) = 1
           /\ Bit(\hFC02, b) = 0 <=> b \in {0} \cup (2 .. 9)
           /\ Bit(\h8205, b) = 0 <=> b \notin {0, 2, 9, 15}
           /\ Bit(\hF800, b) = 0 <=> b \in 0 .. 10
<1>1. b = 0 \/ b = 1 \/ b = 2 \/ b = 3 \/ b = 4 \/ b = 5 \/ b = 6 \/ b = 7 \/ b = 8 \/ b = 9
      \/ b = 10 \/ b = 11 \/ b = 12 \/ b = 13 \/ b = 14 \/ b = 15
  OBVIOUS
<1>2. CASE b = 0
  BY <1>2, Powers DEF Bit
<1>3. CASE b = 1
  BY <1>3, Powers DEF Bit
<1>4. CASE b = 2
  BY <1>4, Powers DEF Bit
<1>5. CASE b = 3
  BY <1>5, Powers DEF Bit
<1>6. CASE b = 4
  BY <1>6, Powers DEF Bit
<1>7. CASE b = 5
  BY <1>7, Powers DEF Bit
<1>8. CASE b = 6
  BY <1>8, Powers DEF Bit
<1>9. CASE b = 7
  BY <1>9, Powers DEF Bit
<1>10. CASE b = 8
  BY <1>10, Powers DEF Bit
<1>11. CASE b = 9
  BY <1>11, Powers DEF Bit
<1>12. CASE b = 10
  BY <1>12, Powers DEF Bit
<1>13. CASE b = 11
  BY <1>13, Powers DEF Bit
<1>14. CASE b = 12
  BY <1>14, Powers DEF Bit
<1>15. CASE b = 13
  BY <1>15, Powers DEF Bit
<1>16. CASE b = 14
  BY <1>16, Powers DEF Bit
<1>17. CASE b = 15
  BY <1>17, Powers DEF Bit
<1>18. QED
  BY <1>1, <1>2, <1>3, <1>4, <1>5, <1>6, <1>7, <1>8, <1>9, <1>10,
     <1>11, <1>12, <1>13, <1>14, <1>15, <1>16, <1>17

\* The characters that the mask lets pass, by their codes.
LEMMA MaskedCharacters ==
    ASSUME NEW c \in Bytes
    PROVE  IsBech32Character(c) <=> c \in (48 .. 57 \ {49}) \cup (97 .. 122 \ {98, 105, 111})
<1> DEFINE w == c \div 16
           b == c % 16
<1>1. w \in 0 .. 15 /\ b \in 0 .. 15 /\ c = 16 * w + b /\ c \in 0 .. 255
  BY DEF Bytes
<1> DEFINE word == invalidBech32[w + 1]
<1>2. IsBech32Character(c) <=> Bit(word, b) = 0
  BY DEF IsBech32Character, Bit
<1> HIDE DEF w, b
<1>3. /\ w \notin {3, 6, 7} => word = \hFFFF
      /\ w = 3 => word = \hFC02
      /\ w = 6 => word = \h8205
      /\ w = 7 => word = \hF800
  BY <1>1 DEF invalidBech32
<1> HIDE DEF word
<1>4. CASE w \notin {3, 6, 7}
  BY <1>1, <1>2, <1>3, <1>4, Bits
<1>5. CASE w = 3
  BY <1>1, <1>2, <1>3, <1>5, Bits
<1>6. CASE w = 6
  BY <1>1, <1>2, <1>3, <1>6, Bits
<1>7. CASE w = 7
  BY <1>1, <1>2, <1>3, <1>7, Bits
<1>8. QED
  BY <1>4, <1>5, <1>6, <1>7

\* The alphabets have the characters that the contract lets pass.
LEMMA Bech32Characters ==
    ASSUME NEW c \in Bytes
    PROVE  IsBech32Character(c) <=> c \in ToSet(Bech32Alphabet)
<1>1. DOMAIN Bech32Alphabet = 1 .. 32
  BY DEF Bech32Alphabet
<1>2. ASSUME NEW i \in 1 .. 32
      PROVE  Bech32Alphabet[i] \in (48 .. 57 \ {49}) \cup (97 .. 122 \ {98, 105, 111})
  BY DEF Bech32Alphabet
<1>3. ASSUME c \in 48 .. 57 \ {49}
      PROVE  \E i \in 1 .. 32 : Bech32Alphabet[i] = c
  BY <1>3 DEF Bech32Alphabet
<1>4. ASSUME c \in 97 .. 122 \ {98, 105, 111}
      PROVE  \E i \in 1 .. 32 : Bech32Alphabet[i] = c
  BY <1>4 DEF Bech32Alphabet
<1>5. QED
  BY <1>1, <1>2, <1>3, <1>4, MaskedCharacters DEF ToSet

\* The same for legacy addresses.
LEMMA Base58Characters ==
    ASSUME NEW c \in Bytes
    PROVE  IsNonBech32Character(c) <=> c \in ToSet(Base58Alphabet)
<1>1. DOMAIN Base58Alphabet = 1 .. 58
  BY DEF Base58Alphabet
<1>2. ASSUME NEW i \in 1 .. 58
      PROVE  IsNonBech32Character(Base58Alphabet[i])
  BY DEF Base58Alphabet, IsNonBech32Character
<1>3. ASSUME IsNonBech32Character(c)
      PROVE  \E i \in 1 .. 58 : Base58Alphabet[i] = c
  <2>1. CASE c \in 49 .. 57
    <3>1. c - 48 \in 1 .. 58 /\ Base58Alphabet[c - 48] = c
      BY <2>1 DEF Base58Alphabet
    <3>2. QED
      BY <3>1
  <2>2. CASE c \in 65 .. 72
    <3>1. c - 55 \in 1 .. 58 /\ Base58Alphabet[c - 55] = c
      BY <2>2 DEF Base58Alphabet
    <3>2. QED
      BY <3>1
  <2>3. CASE c \in 74 .. 78
    <3>1. c - 56 \in 1 .. 58 /\ Base58Alphabet[c - 56] = c
      BY <2>3 DEF Base58Alphabet
    <3>2. QED
      BY <3>1
  <2>4. CASE c \in 80 .. 90
    <3>1. c - 57 \in 1 .. 58 /\ Base58Alphabet[c - 57] = c
      BY <2>4 DEF Base58Alphabet
    <3>2. QED
      BY <3>1
  <2>5. CASE c \in 97 .. 107
    <3>1. c - 63 \in 1 .. 58 /\ Base58Alphabet[c - 63] = c
      BY <2>5 DEF Base58Alphabet
    <3>2. QED
      BY <3>1
  <2>6. CASE c \in 109 .. 122
    <3>1. c - 64 \in 1 .. 58 /\ Base58Alphabet[c - 64] = c
      BY <2>6 DEF Base58Alphabet
    <3>2. QED
      BY <3>1
  <2>7. QED
    BY <1>3, <2>1, <2>2, <2>3, <2>4, <2>5, <2>6 DEF IsNonBech32Character, Bytes
<1>4. QED
  BY <1>1, <1>2, <1>3 DEF ToSet

-----------------------------------------------------------------------------
\* A text starts with a prefix when its first bytes are those of the prefix.
LEMMA StartsWithBytes ==
    ASSUME NEW a \in Seq(Bytes), NEW p \in Seq(Bytes)
    PROVE  StartsWith(a, p) <=> Len(p) <= Len(a) /\ \A i \in 1 .. Len(p) : a[i] = p[i]
<1> DEFINE q == SubSeq(a, 1, Len(p))
<1>1. SubSeq(p, 1, Len(p)) = p
  OBVIOUS
<1>2. CASE Len(p) <= Len(a)
  <2>1. /\ q \in Seq(Bytes) /\ Len(q) = Len(p)
        /\ \A i \in 1 .. Len(p) : q[i] = a[i]
    BY <1>2
  <2> HIDE DEF q
  <2>2. p = q <=> \A i \in 1 .. Len(p) : p[i] = q[i]
    BY <2>1
  <2>3. StartsWith(a, p) <=> p = q
    BY <1>1, <1>2 DEF StartsWith, IsPrefix, q
  <2>4. QED
    BY <1>2, <2>1, <2>2, <2>3
<1>3. CASE ~(Len(p) <= Len(a))
  BY <1>3 DEF StartsWith, IsPrefix
<1>4. QED
  BY <1>2, <1>3

\* The prefix of segwit addresses.
LEMMA StartsWithBech32 ==
    ASSUME NEW a \in Seq(Bytes)
    PROVE  StartsWith(a, Mainnet.bech32Prefix) <=>
             Len(a) >= 4 /\ a[1] = 98 /\ a[2] = 99 /\ a[3] = 49 /\ a[4] = 113
<1> DEFINE p == <<98, 99, 49, 113>>
<1>1. Mainnet.bech32Prefix = p
  BY DEF Mainnet, Validator
<1>2. p \in Seq(Bytes)
  BY DEF Bytes
<1>3. Len(p) = 4 /\ p[1] = 98 /\ p[2] = 99 /\ p[3] = 49 /\ p[4] = 113
  OBVIOUS
<1> HIDE DEF p
<1>4. StartsWith(a, p) <=> Len(p) <= Len(a) /\ \A i \in 1 .. Len(p) : a[i] = p[i]
  BY <1>2, StartsWithBytes
<1>5. (\A i \in 1 .. 4 : a[i] = p[i]) <=>
        a[1] = p[1] /\ a[2] = p[2] /\ a[3] = p[3] /\ a[4] = p[4]
  OBVIOUS
<1>6. QED
  BY <1>1, <1>3, <1>4, <1>5

\* The same for a prefix of one byte.
LEMMA StartsWithOne ==
    ASSUME NEW a \in Seq(Bytes), NEW c \in Bytes
    PROVE  StartsWith(a, <<c>>) <=> Len(a) >= 1 /\ a[1] = c
<1> DEFINE p == <<c>>
<1>1. p \in Seq(Bytes) /\ Len(p) = 1 /\ p[1] = c
  OBVIOUS
<1> HIDE DEF p
<1>2. StartsWith(a, p) <=> 1 <= Len(a) /\ \A i \in 1 .. 1 : a[i] = p[i]
  BY <1>1, StartsWithBytes
<1>3. StartsWith(a, p) <=> Len(a) >= 1 /\ a[1] = c
  BY <1>1, <1>2
<1>4. QED
  BY <1>3 DEF p

-----------------------------------------------------------------------------
\* Whether a starts with the prefix of segwit addresses, byte by byte.
IsSegwit(a) == Len(a) >= 4 /\ a[1] = 98 /\ a[2] = 99 /\ a[3] = 49 /\ a[4] = 113

\* The validator for the mainnet, spelt out.
LEMMA MainnetAccepts ==
    ASSUME NEW a \in Seq(Bytes)
    PROVE  IsValidBtcAddress(Mainnet, a) <=>
             IF IsSegwit(a)
             THEN /\ 42 <= Len(a) /\ Len(a) <= 64
                  /\ \A i \in 5 .. Len(a) : IsBech32Character(a[i])
             ELSE /\ 26 <= Len(a) /\ Len(a) <= 35 /\ a[1] \in {49, 51}
                  /\ \A i \in 2 .. Len(a) : IsNonBech32Character(a[i])
<1>1. /\ Mainnet.bech32Length = 42 .. 64 /\ Mainnet.nonBech32Length = 26 .. 35
      /\ Mainnet.supportsLegacy
      /\ Mainnet.nonBech32Prefixes = {<<49>>, <<51>>}
      /\ Len(Mainnet.bech32Prefix) = 4
  BY DEF Mainnet, Validator
<1>2. StartsWith(a, Mainnet.bech32Prefix) <=> IsSegwit(a)
  BY StartsWithBech32 DEF IsSegwit
<1>3. (\E prefix \in Mainnet.nonBech32Prefixes : StartsWith(a, prefix)) <=>
        Len(a) >= 1 /\ a[1] \in {49, 51}
  <2>1. 49 \in Bytes /\ 51 \in Bytes
    BY DEF Bytes
  <2>2. StartsWith(a, <<49>>) <=> Len(a) >= 1 /\ a[1] = 49
    BY <2>1, StartsWithOne
  <2>3. StartsWith(a, <<51>>) <=> Len(a) >= 1 /\ a[1] = 51
    BY <2>1, StartsWithOne
  <2>4. QED
    BY <1>1, <2>2, <2>3
<1>4. /\ Len(a) \in Mainnet.bech32Length <=> 42 <= Len(a) /\ Len(a) <= 64
      /\ Len(a) \in Mainnet.nonBech32Length <=> 26 <= Len(a) /\ Len(a) <= 35
  <2>1. PICK n \in Nat : n = Len(a)
    OBVIOUS
  <2>2. /\ n \in Mainnet.bech32Length <=> 42 <= n /\ n <= 64
        /\ n \in Mainnet.nonBech32Length <=> 26 <= n /\ n <= 35
    BY <1>1
  <2>3. QED
    BY <2>1, <2>2
<1>5. ValidateBech32Address(Mainnet, a) <=>
        42 <= Len(a) /\ Len(a) <= 64 /\ \A i \in 5 .. Len(a) : IsBech32Character(a[i])
  BY <1>1, <1>4 DEF ValidateBech32Address
<1>6. ValidateNonBech32Address(Mainnet, a) <=>
        /\ 26 <= Len(a) /\ Len(a) <= 35 /\ a[1] \in {49, 51}
        /\ \A i \in 2 .. Len(a) : IsNonBech32Character(a[i])
  <2>1. ValidateNonBech32Address(Mainnet, a) <=>
          /\ Len(a) \in Mainnet.nonBech32Length
          /\ \E prefix \in Mainnet.nonBech32Prefixes : StartsWith(a, prefix)
          /\ \A i \in 2 .. Len(a) : IsNonBech32Character(a[i])
    BY DEF ValidateNonBech32Address
  <2>2. 26 <= Len(a) => Len(a) >= 1
    OBVIOUS
  <2>3. QED
    BY <1>3, <1>4, <2>1, <2>2
<1>7. QED
  BY <1>1, <1>2, <1>5, <1>6 DEF IsValidBtcAddress

\* One wrong byte in an address that the validator accepts: the lengths of the two
\* kinds of addresses keep a text of one kind from passing for one of the other.
LEMMA MainnetTakesWhatMayStand ==
    ASSUME NEW a \in Seq(Bytes), IsValidBtcAddress(Mainnet, a)
    PROVE  TakesWhatMayStand(a)
<1> SUFFICES ASSUME NEW i \in DOMAIN a, NEW c \in Bytes
             PROVE  IsValidBtcAddress(Mainnet, WithWrongByte(a, i, c)) <=> MayStand(a, i, c)
  BY DEF TakesWhatMayStand
<1> DEFINE b == WithWrongByte(a, i, c)
<1>1. /\ b \in Seq(Bytes) /\ Len(b) = Len(a) /\ b[i] = c
      /\ \A j \in 1 .. Len(a) : j # i => b[j] = a[j]
      /\ i \in 1 .. Len(a) /\ Len(a) \in Nat
      /\ a[i] = c => b = a
  BY DEF WithWrongByte
<1> HIDE DEF b
<1>2. /\ StartsWith(a, Mainnet.bech32Prefix) <=> IsSegwit(a)
      /\ Len(Mainnet.bech32Prefix) = 4
      /\ <<c>> \in Mainnet.nonBech32Prefixes <=> c \in {49, 51}
  BY StartsWithBech32 DEF IsSegwit, Mainnet, Validator
<1>3. CASE IsSegwit(a)
  <2>1. 42 <= Len(a) /\ Len(a) <= 64 /\ \A j \in 5 .. Len(a) : IsBech32Character(a[j])
    BY <1>3, MainnetAccepts
  <2>2. CASE i <= 4
    <3>1. CASE c = a[i]
      BY <1>1, <1>2, <1>3, <2>2, <3>1 DEF MayStand, b
    <3>2. CASE c # a[i]
      <4>1. ~IsSegwit(b)
        BY <1>1, <1>3, <2>2, <3>2 DEF IsSegwit
      <4>2. ~IsValidBtcAddress(Mainnet, b)
        <5>1. IsValidBtcAddress(Mainnet, b) => Len(b) <= 35
          BY <1>1, <4>1, MainnetAccepts
        <5>2. QED
          BY <1>1, <2>1, <5>1
      <4>3. QED
        BY <1>2, <1>3, <2>2, <3>2, <4>2 DEF MayStand, b
    <3>3. QED
      BY <3>1, <3>2
  <2>3. CASE ~(i <= 4)
    <3>1. IsSegwit(b)
      BY <1>1, <1>3, <2>3 DEF IsSegwit
    <3>2. (\A j \in 5 .. Len(b) : IsBech32Character(b[j])) <=> IsBech32Character(c)
      <4>1. i \in 5 .. Len(b) /\ \A j \in 5 .. Len(b) : j # i => b[j] = a[j]
        BY <1>1, <2>3
      <4>2. QED
        BY <1>1, <2>1, <4>1
    <3>3. IsValidBtcAddress(Mainnet, b) <=> IsBech32Character(c)
      BY <1>1, <2>1, <3>1, <3>2, MainnetAccepts
    <3>4. QED
      BY <1>2, <1>3, <2>3, <3>3, Bech32Characters DEF MayStand, b
  <2>4. QED
    BY <2>2, <2>3
<1>4. CASE ~IsSegwit(a)
  <2>1. /\ 26 <= Len(a) /\ Len(a) <= 35 /\ a[1] \in {49, 51}
        /\ \A j \in 2 .. Len(a) : IsNonBech32Character(a[j])
    BY <1>4, MainnetAccepts
  <2>2. CASE i = 1
    <3>1. IsValidBtcAddress(Mainnet, b) <=> c \in {49, 51}
      <4>1. CASE IsSegwit(b)
        <5>1. IsValidBtcAddress(Mainnet, b) => 42 <= Len(b)
          BY <1>1, <4>1, MainnetAccepts
        <5>2. c = 98
          BY <1>1, <2>2, <4>1 DEF IsSegwit
        <5>3. QED
          BY <1>1, <2>1, <5>1, <5>2
      <4>2. CASE ~IsSegwit(b)
        <5>1. \A j \in 2 .. Len(b) : IsNonBech32Character(b[j])
          BY <1>1, <2>1, <2>2
        <5>2. QED
          BY <1>1, <2>1, <2>2, <4>2, <5>1, MainnetAccepts
      <4>3. QED
        BY <4>1, <4>2
    <3>2. QED
      BY <1>2, <1>4, <2>2, <3>1 DEF MayStand, b
  <2>3. CASE i # 1
    <3>1. b[1] = a[1] /\ ~IsSegwit(b)
      BY <1>1, <2>1, <2>3 DEF IsSegwit
    <3>2. (\A j \in 2 .. Len(b) : IsNonBech32Character(b[j])) <=> IsNonBech32Character(c)
      <4>1. i \in 2 .. Len(b) /\ \A j \in 2 .. Len(b) : j # i => b[j] = a[j]
        BY <1>1, <2>3
      <4>2. QED
        BY <1>1, <2>1, <4>1
    <3>3. IsValidBtcAddress(Mainnet, b) <=> IsNonBech32Character(c)
      BY <1>1, <2>1, <3>1, <3>2, MainnetAccepts
    <3>4. QED
      BY <1>2, <1>4, <2>3, <3>3, Base58Characters DEF MayStand, b
  <2>4. QED
    BY <2>2, <2>3
<1>5. QED
  BY <1>3, <1>4

-----------------------------------------------------------------------------
(* The bridge *)

\* Some validator that admins had installed accepted the address of each transfer.
AddressesAccepted ==
    \A id \in TransferIds :
        transfers[id].status # "NOT_APPLICABLE" => \E v \in Validators : id[1] \in v

\* Only a deposit makes a transfer, and it asks the validator of the time.
LEMMA AddressesStep ==
    ASSUME TypeOK, AddressesAccepted, [Next]_vars
    PROVE  AddressesAccepted'
<1>1. ASSUME NEW a \in BtcAddresses, NEW u \in Depositors, NEW v \in Values, TransferToBtc(a, u, v)
      PROVE  AddressesAccepted'
  <2>1. a \in validator /\ validator \in Validators
    BY <1>1 DEF TransferToBtc, TypeOK
  <2>2. \A id \in TransferIds : id # <<a, nextNonces[a]>> => transfers'[id] = transfers[id]
    BY <1>1 DEF TransferToBtc, TypeOK
  <2>3. QED
    BY <2>1, <2>2 DEF AddressesAccepted
<1>2. ASSUME NEW ids \in SUBSET TransferIds, NEW newStatus, UpdateTransferStatus(ids, newStatus),
             \A id \in ids : transfers[id].status # "NOT_APPLICABLE"
      PROVE  AddressesAccepted'
  BY <1>2 DEF UpdateTransferStatus, AddressesAccepted
<1>3. ASSUME NEW u \in Accounts, NEW id \in TransferIds, ReclaimTransfer(u, id)
      PROVE  AddressesAccepted'
  BY <1>2, <1>3 DEF ReclaimTransfer
<1>4. CASE FederatorNext
  <2>1. PICK batch \in Batches, status \in {"NEW", "SENDING"}, newStatus \in TransferStatus :
           /\ BatchHasStatus(batch, status)
           /\ UpdateTransferStatus(BatchIds(batch), newStatus)
    BY <1>4 DEF FederatorNext, MarkTransfersAsSending, MarkTransfersAsMined, RefundTransfers,
       TransferStatus
  <2>2. \A id \in BatchIds(batch) : transfers[id].status # "NOT_APPLICABLE"
    BY <2>1 DEF BatchHasStatus, BatchIds
  <2>3. QED
    BY <1>2, <2>1, <2>2, BatchIdsType
<1>5. CASE AdminNext \/ MineBlock \/ UNCHANGED vars
  <2>1. UNCHANGED transfers
    BY <1>5 DEF AdminNext, AddFeeStructure, SetCurrentFeeStructure, SetBtcAddressValidator,
       SetTransferLimit, SetRequiredBlocksBeforeReclaim, WithdrawRbtc, SetNodeConfigValue,
       ModeChange, Pause, Unpause, Freeze, Unfreeze, MarkObsolete, MarkReady, CopyNonces,
       ChangeRole, MineBlock, vars, transferVars
  <2>2. QED
    BY <2>1 DEF AddressesAccepted
<1>6. QED
  BY <1>1, <1>3, <1>4, <1>5 DEF Next, UserNext

\* Whatever texts users give, and however admins switch between the validators for
\* the mainnet: one wrong byte in the address of a transfer would have been refused,
\* unless it makes another text that an encoder may have written
\* (BTCAddressValidator.sol:61, FastBTCBridge.sol:271).
THEOREM WrongBytesAlwaysRefused ==
    ASSUME Validators \subseteq MainnetValidators
    PROVE  Spec => []OneWrongByteIsRefused
<1>1. ASSUME NEW a \in BtcAddresses, NEW v \in Validators, a \in v
      PROVE  IsExact[a]
  <2>1. Text[a] \in Seq(Bytes)
    BY TextAssumption
  <2>2. PICK config \in {Mainnet, SegwitOnly} : IsValidBtcAddress(config, Text[a])
    BY <1>1 DEF MainnetValidators
  <2>3. IsValidBtcAddress(SegwitOnly, Text[a]) => IsValidBtcAddress(Mainnet, Text[a])
    BY DEF SegwitOnly, Mainnet, Validator, IsValidBtcAddress, ValidateBech32Address
  <2>4. TakesWhatMayStand(Text[a])
    BY <2>1, <2>2, <2>3, MainnetTakesWhatMayStand
  <2>5. QED
    BY <2>4 DEF IsExact
<1>2. AddressesAccepted => OneWrongByteIsRefused
  <2>1. \A id \in TransferIds : id[1] \in BtcAddresses
    BY DEF TransferIds
  <2>2. QED
    BY <1>1, <2>1 DEF AddressesAccepted, OneWrongByteIsRefused
<1>3. Init => AddressesAccepted
  BY DEF Init, AddressesAccepted, NoTransfer
<1>4. QED
  BY <1>2, <1>3, AddressesStep, TypeCorrect, PTL DEF Spec
=============================================================================
