--------------------------- MODULE MCFastBTCNode ---------------------------
(***************************************************************************)
(* Small networks for TLC. A configuration picks the nodes, whom each of   *)
(* them takes for the initiator at the start, which of them may turn to    *)
(* whom, who gets a transfer back from the bridge, and scenarios, which    *)
(* say how often that and other things happen.                             *)
(***************************************************************************)
EXTENDS FastBTCNode

CONSTANTS n1, n2, n3, n4

AllAgree == [n \in Nodes |-> n1]
OnlyN3Differs == [n \in Nodes |-> IF n = n3 THEN n3 ELSE n1]

AllTurns == Nodes \X {n1, n2}
AllTurnToN3 == Nodes \X {n3}
OthersTurnToN2 == (Nodes \ {n1}) \X {n2}

OneBtcEach == [t \in 1 .. NumTransfers |-> 1]
TwoBtcEach == [t \in 1 .. NumTransfers |-> 2]

NoReturns == {}
Reclaims == {<<1, "RECLAIMED">>}
AllReturns == {<<1, "RECLAIMED">>, <<2, "REFUNDED">>}

Scenario(transfers, returns, changes, restarts, timeouts, reorgs) ==
    [transfers |-> transfers, returns |-> returns, changes |-> changes,
     restarts |-> restarts, timeouts |-> timeouts, reorgs |-> reorgs, turned |-> {},
     unreclaimed |-> {}]

\* One transfer, and everything that nodes and RSK do wrong; one that is reclaimed
\* in a block that RSK drops; two, of which one is returned while the initiator
\* changes; two that are both returned.
FailuresAndReturns ==
    {Scenario(1, 0, 2, 1, 0, 1), Scenario(1, 0, 1, 1, 1, 1), Scenario(1, 1, 0, 0, 1, 1),
     Scenario(2, 1, 1, 0, 0, 0), Scenario(2, 2, 0, 0, 0, 0)}
OneTransferTwoChanges == {Scenario(1, 0, 2, 0, 0, 0)}
TwoTransfersTwoChanges == {Scenario(2, 0, 2, 0, 0, 0)}
OneRestart == {Scenario(2, 0, 0, 1, 0, 0)}
OneReturn == {Scenario(2, 1, 0, 0, 0, 0)}
=============================================================================
