-------------------------- MODULE MCFastBTCBridge --------------------------
(***************************************************************************)
(* Small instances of FastBTCBridge for TLC. A configuration picks, for    *)
(* each family of arguments, the set that its question needs. Addresses    *)
(* are texts that the address validator looks at, byte by byte.            *)
(***************************************************************************)
EXTENDS BridgeAddresses

CONSTANTS admin, guard, f1, f2, user, contract, zero, btc1, btc2, key, value

\* admin, guard (also a pauser), a federator and a user.
MCAccounts == {admin, guard, f1, f2, user, contract}
OneFederator ==
    {[r \in Roles |-> CASE r = "ADMIN" -> {admin}
                        [] r = "FEDERATOR" -> {f1}
                        [] OTHER -> {guard}]}
TwoFederators ==
    {[r \in Roles |-> CASE r = "ADMIN" -> {admin}
                        [] r = "FEDERATOR" -> {f1, f2}
                        [] OTHER -> {guard}]}

GuardRole == {<<"GUARD", guard>>, <<"GUARD", zero>>}

AcceptBtc1 == {{btc1}}

\* btc1 and btc2 stand for these texts.
MCText == [a \in BtcAddresses |-> IF a = btc1 THEN SegwitAddress ELSE LegacyAddress]

LowFee == [base |-> 1, dynamic |-> 0]
HighFee == [base |-> 1, dynamic |-> 2]
SomeFees == {NoFee, HighFee, [base |-> 3, dynamic |-> 0], [base |-> 0, dynamic |-> 4]}
WideLimits == [min |-> 1, max |-> 3]

BatchesUpTo2 ==
    {<<>>} \cup {<<id>> : id \in TransferIds} \cup (TransferIds \X TransferIds)

SingleBatches == {<<id>> : id \in TransferIds}

OneSignature == {<<f1>>}
SomeSignatures == {<<f1>>, <<f1, f1>>, <<f1, f2>>, <<f1, user>>}

=============================================================================
