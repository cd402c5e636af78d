--------------------------- MODULE BitcoinPayouts ---------------------------
(***************************************************************************)
(* What the nodes, the bridge and Bitcoin promise users together, with no  *)
(* word of initiators, signatures and blocks: a transfer is returned, or   *)
(* committed to one Bitcoin transaction, and never both; that transaction  *)
(* pays the transfers it was committed to and no others, all at once and   *)
(* only once; and only what is paid is recorded as such.                   *)
(***************************************************************************)
EXTENDS Naturals, Sequences

CONSTANT Transfers

VARIABLES
    fate,         \* Transfers -> "none", "open", "returned", "committed", "recorded"
    commitments,  \* Transfers -> Bitcoin transactions that it was committed to
    payouts       \* the transfers each Bitcoin transaction paid, in order

payoutVars == <<fate, commitments, payouts>>

Group(p) == {t \in Transfers : p \in commitments[t]}

Paid(t) == \E i \in DOMAIN payouts : t \in payouts[i]

Init ==
    /\ fate = [t \in Transfers |-> "none"]
    /\ commitments = [t \in Transfers |-> {}]
    /\ payouts = <<>>

Paths == {<<"none", "open">>, <<"none", "returned">>, <<"none", "committed">>,
          <<"open", "returned">>, <<"open", "committed">>, <<"committed", "recorded">>}

\* t is committed to a transaction that nothing was committed to before.
Commits(t) ==
    \E p \in commitments'[t] : commitments'[t] = {p} /\ Group(p) = {}

GoesOn(t) ==
    /\ <<fate[t], fate'[t]>> \in Paths
    /\ fate'[t] = "recorded" => Paid(t)
    /\ IF fate'[t] = "committed" THEN Commits(t) ELSE commitments'[t] = commitments[t]

\* Some transfers go on, and the others stay as they are.
Settle ==
    /\ UNCHANGED payouts
    /\ DOMAIN fate' = Transfers /\ DOMAIN commitments' = Transfers
    /\ \A t \in Transfers :
         \/ fate'[t] = fate[t] /\ commitments'[t] = commitments[t]
         \/ GoesOn(t)

Pay(p) ==
    /\ Group(p) # {}
    /\ payouts' = Append(payouts, Group(p))
    /\ \A t \in Group(p) : fate[t] = "committed" /\ ~Paid(t)
    /\ UNCHANGED <<fate, commitments>>

Next == Settle \/ \E t \in Transfers : \E p \in commitments[t] : Pay(p)

Spec == Init /\ [][Next]_payoutVars
=============================================================================
