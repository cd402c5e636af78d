---------------------------- MODULE MCReplenisher ----------------------------
(***************************************************************************)
(* Three nodes, of which two are replenishers and have to sign both; any   *)
(* of the three is the initiator first. The oldest two coins are small.    *)
(***************************************************************************)
EXTENDS Replenisher

CONSTANTS n1, n2, n3

MCCoinValue == <<2, 1, 3, 3>>
=============================================================================
