------------------------- MODULE MCFederatorNetwork -------------------------
(***************************************************************************)
(* Three nodes, one per federator, the third account that may become one.  *)
(***************************************************************************)
EXTENDS FederatorNetwork

CONSTANTS admin, f1, f2, f3, zero

MCAccounts == {admin, f1, f2, f3}

MCAddressOf == [n \in Nodes |-> CASE n = 1 -> f1 [] n = 2 -> f2 [] n = 3 -> f3]

NobodyForced == [n \in Nodes |-> NoNode]

MCSignatureLists == {<<>>, <<f1>>, <<f2>>, <<f3>>, <<f1, f2>>, <<f2, f2>>, <<f3, zero>>}

Network(federators, initiator, left, faults) ==
    [federators |-> federators, initiator |-> initiator, left |-> left, faults |-> faults]

\* Two nodes start up (and f3's process waits); two nodes follow the larger one
\* and f1 may become a federator; of three nodes the initiator has just died.
MCNetworks ==
    {Network({f1, f2}, NoNode, {}, 1), Network({f2, f3}, 3, {}, 1), Network({f1, f2, f3}, 2, {2}, 1)}
=============================================================================
