--------------------------- MODULE BridgeAddresses ---------------------------
(***************************************************************************)
(* The bridge of FastBTCBridge with the validators of BTCAddressValidator: *)
(* its addresses are texts, and its validators read them byte by byte.     *)
(***************************************************************************)
EXTENDS FastBTCBridge, BTCAddressValidator

CONSTANT Text   \* BtcAddresses -> the bytes of the string that the address is

ASSUME TextAssumption == Text \in [BtcAddresses -> Seq(Bytes)]

\* What the validator for the mainnet accepts, with and without legacy addresses.
MainnetValidators ==
    {{a \in BtcAddresses : IsValidBtcAddress(config, Text[a])} : config \in {Mainnet, SegwitOnly}}

-----------------------------------------------------------------------------
IsExact == [a \in BtcAddresses |-> TakesWhatMayStand(Text[a])]

\* A user who made a transfer, and got one byte of the address wrong, whichever it is
\* and whatever came in its place, would have been refused, unless it is another
\* character of the alphabet that may stand there; and nobody is refused for such a
\* character (BTCAddressValidator.test.ts:35-75 has a few positions and characters).
\* rBTC sent to an address that cannot exist only comes back by a reclaim.
OneWrongByteIsRefused ==
    \A id \in TransferIds : transfers[id].status # "NOT_APPLICABLE" => IsExact[id[1]]
=============================================================================
