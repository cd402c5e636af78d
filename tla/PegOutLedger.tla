---------------------------- MODULE PegOutLedger ----------------------------
(***************************************************************************)
(* What the bridge contract promises, with no word of how: every transfer  *)
(* is deposited once, and its money then either goes back to its owner or  *)
(* is released to the admins against a payment in Bitcoin, never both and  *)
(* never twice; admins spend what was released and nothing else.           *)
(***************************************************************************)
EXTENDS Naturals, FiniteSets

CONSTANTS
    Transfers,   \* transfers that may be made
    Owners,      \* who may make them
    MaxAmount    \* the most a transfer can carry

VARIABLES
    phase,     \* Transfers -> "none", "held", "released", "paid", "returned"
    owner,     \* Transfers -> who gets the money when it is returned
    amount,    \* Transfers -> how much was deposited
    escrow,    \* money held for the owners
    spendable  \* money the admins may spend

ledger == <<phase, owner, amount, escrow, spendable>>

\* One pair for every unit of money, so that a sum is the size of a set.
Total(ts) == Cardinality({p \in ts \X (1 .. MaxAmount) : p[2] <= amount[p[1]]})

Init ==
    /\ phase = [t \in Transfers |-> "none"]
    /\ owner \in [Transfers -> Owners]
    /\ amount = [t \in Transfers |-> 0]
    /\ escrow = 0
    /\ spendable = 0

Move(ts, from, to) ==
    /\ \A t \in ts : phase[t] = from
    /\ phase' = [t \in Transfers |-> IF t \in ts THEN to ELSE phase[t]]
    /\ UNCHANGED <<owner, amount>>

Deposit(t, u, a) ==
    /\ phase[t] = "none"
    /\ phase' = [phase EXCEPT ![t] = "held"]
    /\ owner' = [owner EXCEPT ![t] = u]
    /\ amount' = [amount EXCEPT ![t] = a]
    /\ escrow' = escrow + a
    /\ UNCHANGED spendable

Return(ts) ==
    /\ Move(ts, "held", "returned")
    /\ escrow' = escrow - Total(ts)
    /\ UNCHANGED spendable

Release(ts) ==
    /\ Move(ts, "held", "released")
    /\ escrow' = escrow - Total(ts)
    /\ spendable' = spendable + Total(ts)

Confirm(ts) ==
    /\ Move(ts, "released", "paid")
    /\ UNCHANGED <<escrow, spendable>>

Spend(n) ==
    /\ n <= spendable
    /\ spendable' = spendable - n
    /\ UNCHANGED <<phase, owner, amount, escrow>>

Next ==
    \/ \E t \in Transfers, u \in Owners, a \in 0 .. MaxAmount : Deposit(t, u, a)
    \/ \E ts \in SUBSET Transfers : Return(ts) \/ Release(ts) \/ Confirm(ts)
    \/ \E n \in 1 .. spendable : Spend(n)

Spec == Init /\ [][Next]_ledger
=============================================================================
