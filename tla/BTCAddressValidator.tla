------------------------- MODULE BTCAddressValidator -------------------------
(***************************************************************************)
(* BTCAddressValidator.sol: which strings the bridge takes for Bitcoin     *)
(* addresses. A string is the sequence of its bytes. The contract looks at *)
(* prefix, length and characters, and computes no checksum; a validator is *)
(* the record of the fields that decide.                                   *)
(***************************************************************************)
EXTENDS Integers, Sequences, SequencesExt

Bytes == 0 .. 255

\* The validator that the constructor makes.
Validator(bech32Prefix, nonBech32Prefixes) ==
    [bech32Prefix |-> bech32Prefix, nonBech32Prefixes |-> nonBech32Prefixes,
     supportsLegacy |-> nonBech32Prefixes # {},
     bech32Length |-> 42 .. 64, nonBech32Length |-> 26 .. 35]

\* Wrong: "o" is a letter like the others.
MaskWithoutO ==
    <<\hFFFF, \hFFFF, \hFFFF, \hFC02, \hFFFF, \hFFFF, \h0205, \hF800,
      \hFFFF, \hFFFF, \hFFFF, \hFFFF, \hFFFF, \hFFFF, \hFFFF, \hFFFF>>

\* invalidBech32, by words of 16 bits, the least significant first.
invalidBech32 ==
    <<\hFFFF, \hFFFF, \hFFFF, \hFC02, \hFFFF, \hFFFF, \h8205, \hF800,
      \hFFFF, \hFFFF, \hFFFF, \hFFFF, \hFFFF, \hFFFF, \hFFFF, \hFFFF>>

\* The bit of a character in the mask.
IsBech32Character(c) == (invalidBech32[(c \div 16) + 1] \div 2^(c % 16)) % 2 = 0

\* "1" to "9", "A" to "Z" but not "I" or "O", "a" to "z" but not "l".
IsNonBech32Character(c) ==
    \/ c \in \h31 .. \h39
    \/ c \in (\h41 .. \h5A) \ {\h49, \h4F}
    \/ c \in (\h61 .. \h7A) \ {\h6C}

StartsWith(string, prefix) == IsPrefix(prefix, string)

\* Characters count from the end of the prefix, which is not made of them.
ValidateBech32Address(config, address) ==
    /\ Len(address) \in config.bech32Length
    /\ \A i \in Len(config.bech32Prefix) + 1 .. Len(address) : IsBech32Character(address[i])

\* Here they count from the second on, whatever the prefix.
ValidateNonBech32Address(config, address) ==
    /\ Len(address) \in config.nonBech32Length
    /\ \E prefix \in config.nonBech32Prefixes : StartsWith(address, prefix)
    /\ \A i \in 2 .. Len(address) : IsNonBech32Character(address[i])

IsValidBtcAddress(config, address) ==
    IF StartsWith(address, config.bech32Prefix)
    THEN ValidateBech32Address(config, address)
    ELSE config.supportsLegacy /\ ValidateNonBech32Address(config, address)

-----------------------------------------------------------------------------
(* What Bitcoin's encoders write *)

\* BIP 173: qpzry9x8 gf2tvdw0 s3jn54kh ce6mua7l.
Bech32Alphabet ==
    <<113, 112, 122, 114, 121, 57, 120, 56, 103, 102, 50, 116, 118, 100, 119, 48,
      115, 51, 106, 110, 53, 52, 107, 104, 99, 101, 54, 109, 117, 97, 55, 108>>

\* 123456789 ABCDEFGH JKLMN PQRSTUVWXYZ abcdefghijk mnopqrstuvwxyz.
Base58Alphabet ==
    [i \in 1 .. 58 |->
        CASE i <= 9 -> 48 + i [] i \in 10 .. 17 -> 55 + i [] i \in 18 .. 22 -> 56 + i
          [] i \in 23 .. 33 -> 57 + i [] i \in 34 .. 44 -> 63 + i [] OTHER -> 64 + i]

\* Text that uses the whole alphabet when it is long enough.
Written(alphabet, length) == [i \in 1 .. length |-> alphabet[((i * 7) % Len(alphabet)) + 1]]

\* The validator that 02_deploy_btcaddressvalidator.ts makes for the mainnet, with
\* "bc1q", "1" and "3", and what it is if admins give up legacy addresses.
Mainnet == Validator(<<98, 99, 49, 113>>, {<<49>>, <<51>>})
SegwitOnly == [Mainnet EXCEPT !.nonBech32Prefixes = {}, !.supportsLegacy = FALSE]

\* An address of the longer segwit program, and the longest legacy one.
SegwitAddress == Mainnet.bech32Prefix \o Written(Bech32Alphabet, 58)
LegacyAddress == <<51>> \o Written(Base58Alphabet, 33)

WithWrongByte(address, i, c) == [address EXCEPT ![i] = c]

\* Whether c at position i of an address makes another text that an encoder for the
\* mainnet may have written.
MayStand(address, i, c) ==
    IF StartsWith(address, Mainnet.bech32Prefix)
    THEN IF i <= Len(Mainnet.bech32Prefix) THEN c = address[i] ELSE c \in ToSet(Bech32Alphabet)
    ELSE IF i = 1 THEN <<c>> \in Mainnet.nonBech32Prefixes ELSE c \in ToSet(Base58Alphabet)

\* The validator for the mainnet takes what may stand in each position, no more and
\* no less.
TakesWhatMayStand(address) ==
    \A i \in DOMAIN address, c \in Bytes :
        IsValidBtcAddress(Mainnet, WithWrongByte(address, i, c)) <=> MayStand(address, i, c)
=============================================================================
