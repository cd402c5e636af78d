---------------------------- MODULE BridgeMirror ----------------------------
(***************************************************************************)
(* What the event scanner promises the rest of the node: its database is   *)
(* a copy of what the bridge said of the transfers after some block that   *)
(* stays, all at once, and it only goes forward. FastBTCNode relies on it  *)
(* in ScanNewEvents.                                                       *)
(***************************************************************************)
EXTENDS Integers, Sequences

CONSTANTS RequiredConfirmations, FirstBlock

VARIABLES
    history,    \* history[b]: what the bridge says of the transfers after block b
    copied,     \* the block of the copy
    mirror      \* the copy

\* Blocks are added, or replaced by as many, but the copied ones stay.
BlocksChange ==
    /\ Len(history') >= Len(history)
    /\ \A b \in 1 .. copied : history'[b] = history[b]
    /\ UNCHANGED <<copied, mirror>>

Copy ==
    /\ copied' \in copied + 1 .. Len(history) - RequiredConfirmations
    /\ mirror' = history[copied']
    /\ UNCHANGED history

\* The contract is not deployed yet.
Init ==
    /\ copied = FirstBlock - 1
    /\ Len(history) >= copied
    /\ \A b \in DOMAIN history : history[b] = mirror

Next == BlocksChange \/ Copy

Spec == Init /\ [][Next]_<<history, copied, mirror>>
=============================================================================
