----------------------------- MODULE Replenisher -----------------------------
(***************************************************************************)
(* replenisher.ts and replenishermultisig.ts: when the multisig that pays  *)
(* transfers runs low, the initiator has it refilled from a second         *)
(* multisig, whose cosigners are the replenishers among the nodes.         *)
(*                                                                         *)
(* A replenishment transaction is represented by the coins it spends: it   *)
(* has no change, and pays what its coins are worth, less the fee. Each    *)
(* input costs the same fee.                                               *)
(***************************************************************************)
EXTENDS Naturals, FiniteSets, Sequences, FiniteSetsExt

CONSTANTS
    Nodes,
    Replenishers,                   \* the nodes with a key of the second multisig
    NumRequiredSigners,
    NumCoins,                       \* its unspent outputs, the oldest first
    CoinValue,                      \* CoinValue[c]
    FeePerInput,
    ReplenishThreshold,
    ReplenishMinAmount,
    MaxReplenishTxInputs,
    MaxReplenishmentsDuringPeriod,
    NoPsbt,                         \* null
    InitialBalance,
    Amounts,                        \* what batches of transfers cost
    MaxPeriod,                      \* bound on the periods
    MaxGathered,                    \* bound on the responses between two iterations
    MaxInFlight,                    \* bound on the messages in flight when an iteration begins
    MaxFaults                       \* bound on what goes wrong

Coins == 1 .. NumCoins
Periods == 0 .. MaxPeriod

ASSUME ReplenisherAssumption ==
    /\ IsFiniteSet(Nodes)
    /\ Replenishers \subseteq Nodes
    /\ NumRequiredSigners \in Nat \ {0}
    /\ NumCoins \in Nat
    /\ CoinValue \in [Coins -> Nat]
    /\ FeePerInput \in Nat
    /\ ReplenishThreshold \in Nat
    /\ ReplenishMinAmount \in Nat
    /\ MaxReplenishTxInputs \in Nat \ {0}
    /\ MaxReplenishmentsDuringPeriod \in Nat
    /\ InitialBalance \in Nat
    /\ Amounts \subseteq Nat
    /\ MaxPeriod \in Nat
    /\ MaxGathered \in Nat
    /\ MaxInFlight \in Nat
    /\ MaxFaults \in Nat

VARIABLES
    initiators,                \* the nodes that take themselves for the initiator
    unsignedReplenishPsbt,     \* of each node, as are the next three
    gatheredPsbts,
    timesReplenishedPerPeriod,
    iteration,                 \* how far its iteration has come
    messages,                  \* requests and responses in flight
    balance,                   \* what the first multisig holds
    outputs,                   \* the mined replenishments whose output it has not spent
    mempool,                   \* replenishments submitted, not mined
    mined,                     \* replenishments mined
    taken,                     \* coins spent by others
    period,
    sent,                      \* history: the replenishments Bitcoin accepted, by period
    handovers,                 \* history: new initiators, restarts and failing waits,
    mishaps                    \* and what else went wrong

nodeVars == <<unsignedReplenishPsbt, gatheredPsbts, timesReplenishedPerPeriod, iteration>>
bitcoinVars == <<balance, outputs, mempool, mined, taken>>
faultVars == <<handovers, mishaps>>
vars == <<initiators, nodeVars, messages, bitcoinVars, period, sent, faultVars>>

Idle == [step |-> "idle"]
Checked(p, times) == [step |-> "checked", period |-> p, times |-> times]
Waiting(p, psbt) == [step |-> "waiting", period |-> p, psbt |-> psbt]

-----------------------------------------------------------------------------
(* The wallet of the second multisig *)

\* What the coins are worth: the number of units in them.
Total(coins) == Cardinality(UNION {{c} \X (1 .. CoinValue[c]) : c \in coins})

Fee(coins) == FeePerInput * Cardinality(coins)

Value(psbt) == Total(psbt) - Fee(psbt)

Unspent == Coins \ ((UNION (mempool \cup mined)) \cup taken)

OldestCoins(k) == {c \in Unspent : Cardinality({d \in Unspent : d <= c}) <= k}

\* Wrong: there is no limit on the inputs.
ReplenishPsbtOfAnySize ==
    LET shortage == IF balance < ReplenishThreshold THEN ReplenishThreshold - balance ELSE 0
        amount == IF shortage > ReplenishMinAmount THEN shortage ELSE ReplenishMinAmount
        IsEnough(k) == Total(OldestCoins(k)) >= amount + Fee(OldestCoins(k))
        stops == {k \in 1 .. Cardinality(Unspent) : IsEnough(k) \/ k = Cardinality(Unspent)}
    IN  OldestCoins(Min(stops))

\* createReplenishPsbt and createPartiallySignedTransaction: the oldest coins,
\* until they are enough, and at most MaxReplenishTxInputs.
ReplenishPsbt ==
    LET shortage == IF balance < ReplenishThreshold THEN ReplenishThreshold - balance ELSE 0
        amount == IF shortage > ReplenishMinAmount THEN shortage ELSE ReplenishMinAmount
        IsEnough(k) == Total(OldestCoins(k)) >= amount + Fee(OldestCoins(k))
        stops == {k \in 1 .. Cardinality(Unspent) :
                    IsEnough(k) \/ k = MaxReplenishTxInputs \/ k = Cardinality(Unspent)}
    IN  OldestCoins(Min(stops))

\* It throws when there are no coins, or when they are not worth their fee.
CanReplenish == Unspent # {} /\ Total(ReplenishPsbt) >= Fee(ReplenishPsbt)

ShouldReplenish == balance < ReplenishThreshold

-----------------------------------------------------------------------------
(* An iteration of the initiator *)

Requests(n, psbt, p, times) ==
    {[type |-> "request", from |-> n, to |-> m, psbt |-> psbt, period |-> p, times |-> times] :
        m \in Nodes \ {n}}

\* handleReplenisherIteration begins, unless nothing is in order or the limit is
\* reached.
BeginIteration(n) ==
    /\ n \in initiators
    /\ iteration[n] = Idle
    /\ Cardinality(messages) <= MaxInFlight
    /\ ShouldReplenish
    /\ timesReplenishedPerPeriod[n][period] < MaxReplenishmentsDuringPeriod
    /\ iteration' = [iteration EXCEPT ![n] = Checked(period, timesReplenishedPerPeriod[n][period])]
    /\ UNCHANGED <<initiators, unsignedReplenishPsbt, gatheredPsbts, timesReplenishedPerPeriod,
                   messages, bitcoinVars, period, sent, faultVars>>

\* It has no PSBT: it makes one, and asks for signatures.
CreatePsbt(n) ==
    /\ iteration[n].step = "checked"
    /\ unsignedReplenishPsbt[n] = NoPsbt
    /\ iteration' = [iteration EXCEPT ![n] = Idle]
    /\ \/ /\ ShouldReplenish
          /\ CanReplenish
          /\ unsignedReplenishPsbt' = [unsignedReplenishPsbt EXCEPT ![n] = ReplenishPsbt]
          /\ gatheredPsbts' = [gatheredPsbts EXCEPT ![n] = <<>>]
          /\ messages' = messages \cup
               Requests(n, ReplenishPsbt, iteration[n].period, iteration[n].times)
       \/ /\ ~ShouldReplenish
          /\ gatheredPsbts' = [gatheredPsbts EXCEPT ![n] = <<>>]
          /\ UNCHANGED <<unsignedReplenishPsbt, messages>>
       \/ /\ ShouldReplenish
          /\ ~CanReplenish
          /\ UNCHANGED <<unsignedReplenishPsbt, gatheredPsbts, messages>>
    /\ UNCHANGED <<initiators, timesReplenishedPerPeriod, bitcoinVars, period, sent, faultVars>>

\* gatherPsbts: the own signature and the gathered ones, each signer once, and at
\* most as many as are required.
GatherPsbts(n) ==
    LET own == IF n \in Replenishers
               THEN <<[signer |-> n, psbt |-> unsignedReplenishPsbt[n]]>> ELSE <<>>
        all == own \o gatheredPsbts[n]
        IsFirst(i) == \A j \in 1 .. i - 1 : all[j].signer # all[i].signer
        firsts == {i \in DOMAIN all : IsFirst(i)}
    IN  {all[i] : i \in {j \in firsts : Cardinality({k \in firsts : k < j}) < NumRequiredSigners}}

\* They do not combine when one is for another transaction.
Combine(n, psbts) == \A psbt \in psbts : psbt.psbt = unsignedReplenishPsbt[n]

HasEnoughSignatures(n) ==
    /\ Combine(n, GatherPsbts(n))
    /\ Cardinality(GatherPsbts(n)) >= NumRequiredSigners

\* It has a PSBT, but not the signatures: it asks for them again, unless gathering
\* fails.
RequestAgain(n) ==
    /\ iteration[n].step = "checked"
    /\ unsignedReplenishPsbt[n] # NoPsbt
    /\ ~HasEnoughSignatures(n)
    /\ messages' = messages \cup
         (IF Combine(n, GatherPsbts(n))
          THEN Requests(n, unsignedReplenishPsbt[n], iteration[n].period, iteration[n].times)
          ELSE {})
    /\ gatheredPsbts' = [gatheredPsbts EXCEPT ![n] = <<>>]
    /\ iteration' = [iteration EXCEPT ![n] = Idle]
    /\ UNCHANGED <<initiators, unsignedReplenishPsbt, timesReplenishedPerPeriod,
                   bitcoinVars, period, sent, faultVars>>

\* Bitcoin refuses a transaction whose coins are gone, and one that it has mined
\* (as long as the output of that one is unspent) or that conflicts with the mempool.
InputsMissingOrSpent(psbt) ==
    psbt \cap ((UNION mined) \cup taken) # {} /\ psbt \notin outputs
IsRefused(psbt) == psbt \in outputs \/ \E tx \in mempool \ {psbt} : tx \cap psbt # {}

\* Wrong: an error is an error.
SubmitAgainAndAgain(n) ==
    LET psbt == unsignedReplenishPsbt[n]
        p == iteration[n].period
    IN  /\ iteration[n].step = "checked"
        /\ psbt # NoPsbt
        /\ HasEnoughSignatures(n)
        /\ gatheredPsbts' = [gatheredPsbts EXCEPT ![n] = <<>>]
        /\ IF InputsMissingOrSpent(psbt) \/ IsRefused(psbt)
           THEN /\ iteration' = [iteration EXCEPT ![n] = Idle]
                /\ UNCHANGED <<mempool, sent>>
           ELSE /\ mempool' = mempool \cup {psbt}
                /\ sent' = [sent EXCEPT ![p] = @ + IF psbt \in mempool THEN 0 ELSE 1]
                /\ iteration' = [iteration EXCEPT ![n] = Waiting(p, psbt)]
        /\ UNCHANGED <<initiators, unsignedReplenishPsbt, timesReplenishedPerPeriod, messages,
                       balance, outputs, mined, taken, period, faultVars>>

\* It has them, and submits the transaction. If its coins are gone the next
\* iteration starts over with a new PSBT; any other error leaves all as it is, but
\* for the gathered signatures. Otherwise it waits for a confirmation.
Submit(n) ==
    LET psbt == unsignedReplenishPsbt[n]
        p == iteration[n].period
    IN  /\ iteration[n].step = "checked"
        /\ psbt # NoPsbt
        /\ HasEnoughSignatures(n)
        /\ gatheredPsbts' = [gatheredPsbts EXCEPT ![n] = <<>>]
        /\ \/ /\ InputsMissingOrSpent(psbt)
              /\ unsignedReplenishPsbt' = [unsignedReplenishPsbt EXCEPT ![n] = NoPsbt]
              /\ iteration' = [iteration EXCEPT ![n] = Idle]
              /\ UNCHANGED <<mempool, sent>>
           \/ /\ ~InputsMissingOrSpent(psbt)
              /\ IsRefused(psbt)
              /\ iteration' = [iteration EXCEPT ![n] = Idle]
              /\ UNCHANGED <<unsignedReplenishPsbt, mempool, sent>>
           \/ /\ ~InputsMissingOrSpent(psbt)
              /\ ~IsRefused(psbt)
              /\ mempool' = mempool \cup {psbt}
              /\ sent' = [sent EXCEPT ![p] = @ + IF psbt \in mempool THEN 0 ELSE 1]
              /\ iteration' = [iteration EXCEPT ![n] = Waiting(p, psbt)]
              /\ UNCHANGED unsignedReplenishPsbt
        /\ UNCHANGED <<initiators, timesReplenishedPerPeriod, messages,
                       balance, outputs, mined, taken, period, faultVars>>

\* It counts the replenishment in the period in which its iteration began.
Count(n) ==
    /\ timesReplenishedPerPeriod' =
         [timesReplenishedPerPeriod EXCEPT ![n][iteration[n].period] = @ + 1]
    /\ unsignedReplenishPsbt' = [unsignedReplenishPsbt EXCEPT ![n] = NoPsbt]
    /\ gatheredPsbts' = [gatheredPsbts EXCEPT ![n] = <<>>]
    /\ iteration' = [iteration EXCEPT ![n] = Idle]
    /\ UNCHANGED <<initiators, messages, bitcoinVars, period, sent>>

\* Wrong: it does not wait.
ConfirmedOrNot(n) ==
    /\ iteration[n].step = "waiting"
    /\ Count(n)
    /\ UNCHANGED faultVars

\* waitForTransaction returns with the confirmation, or after 200 polls without.
Confirmed(n) ==
    /\ iteration[n].step = "waiting"
    /\ iteration[n].psbt \in mined
    /\ Count(n)
    /\ UNCHANGED faultVars

Handover ==
    /\ handovers + mishaps < MaxFaults
    /\ handovers' = handovers + 1
    /\ UNCHANGED mishaps

Mishap ==
    /\ handovers + mishaps < MaxFaults
    /\ mishaps' = mishaps + 1
    /\ UNCHANGED handovers

\* Wrong: what is not confirmed is not counted.
WaitTimesOutUncounted(n) ==
    /\ iteration[n].step = "waiting"
    /\ Mishap
    /\ unsignedReplenishPsbt' = [unsignedReplenishPsbt EXCEPT ![n] = NoPsbt]
    /\ iteration' = [iteration EXCEPT ![n] = Idle]
    /\ UNCHANGED <<initiators, gatheredPsbts, timesReplenishedPerPeriod, messages, bitcoinVars,
                   period, sent>>

WaitTimesOut(n) ==
    /\ iteration[n].step = "waiting"
    /\ Mishap
    /\ Count(n)

\* The Bitcoin node does not answer a poll, and the iteration ends at that.
WaitFails(n) ==
    /\ iteration[n].step = "waiting"
    /\ Handover
    /\ iteration' = [iteration EXCEPT ![n] = Idle]
    /\ UNCHANGED <<initiators, unsignedReplenishPsbt, gatheredPsbts, timesReplenishedPerPeriod,
                   messages, bitcoinVars, period, sent>>

-----------------------------------------------------------------------------
(* onMessage *)

\* A replenisher takes over the initiator's count, and signs.
OnRequest(msg) ==
    /\ msg.type = "request"
    /\ timesReplenishedPerPeriod' =
         IF msg.to \in Replenishers /\ msg.times # 0
         THEN [timesReplenishedPerPeriod EXCEPT ![msg.to][msg.period] = msg.times]
         ELSE timesReplenishedPerPeriod
    /\ messages' = (messages \ {msg}) \cup
         IF msg.to \in Replenishers
         THEN {[type |-> "response", from |-> msg.to, to |-> msg.from, psbt |-> msg.psbt]}
         ELSE {}
    /\ UNCHANGED gatheredPsbts

OnResponse(msg) ==
    /\ msg.type = "response"
    /\ Len(gatheredPsbts[msg.to]) < MaxGathered
    /\ gatheredPsbts' = [gatheredPsbts EXCEPT ![msg.to] =
            Append(@, [signer |-> msg.from, psbt |-> msg.psbt])]
    /\ messages' = messages \ {msg}
    /\ UNCHANGED timesReplenishedPerPeriod

OnMessage(msg) ==
    /\ OnRequest(msg) \/ OnResponse(msg)
    /\ UNCHANGED <<initiators, unsignedReplenishPsbt, iteration, bitcoinVars, period, sent,
                   faultVars>>

-----------------------------------------------------------------------------
(* What goes on around *)

Mine(tx) ==
    /\ mempool' = mempool \ {tx}
    /\ mined' = mined \cup {tx}
    /\ outputs' = outputs \cup {tx}
    /\ balance' = balance + Value(tx)
    /\ UNCHANGED <<initiators, nodeVars, messages, taken, period, sent, faultVars>>

\* The first multisig pays a batch, with some of its coins.
PegOut(amount, spent) ==
    /\ amount <= balance
    /\ balance' = balance - amount
    /\ outputs' = outputs \ spent
    /\ Total(UNION outputs') - Fee(UNION outputs') <= balance'
    /\ UNCHANGED <<initiators, nodeVars, messages, mempool, mined, taken, period, sent, faultVars>>

NextPeriod ==
    /\ period < MaxPeriod
    /\ period' = period + 1
    /\ UNCHANGED <<initiators, nodeVars, messages, bitcoinVars, sent, faultVars>>

\* Another node takes over from all initiators, or takes itself for one, too.
ChangeInitiators(n) ==
    /\ Handover
    /\ initiators' \in {{n}, initiators \cup {n}} \ {initiators}
    /\ UNCHANGED <<nodeVars, messages, bitcoinVars, period, sent>>

Forget(n) ==
    /\ unsignedReplenishPsbt' = [unsignedReplenishPsbt EXCEPT ![n] = NoPsbt]
    /\ gatheredPsbts' = [gatheredPsbts EXCEPT ![n] = <<>>]
    /\ timesReplenishedPerPeriod' = [timesReplenishedPerPeriod EXCEPT ![n] = [p \in Periods |-> 0]]
    /\ iteration' = [iteration EXCEPT ![n] = Idle]

Restart(n) ==
    /\ Handover
    /\ Forget(n)
    /\ UNCHANGED <<initiators, messages, bitcoinVars, period, sent>>

\* The other users of the second multisig spend a coin.
CoinIsTaken(c) ==
    /\ Mishap
    /\ c \in Unspent
    /\ taken' = taken \cup {c}
    /\ UNCHANGED <<initiators, nodeVars, messages, balance, outputs, mempool, mined, period, sent>>

MessageGetsLost(msg) ==
    /\ Mishap
    /\ messages' = messages \ {msg}
    /\ UNCHANGED <<initiators, nodeVars, bitcoinVars, period, sent>>

Init ==
    /\ \E n \in Nodes : initiators = {n}
    /\ unsignedReplenishPsbt = [n \in Nodes |-> NoPsbt]
    /\ gatheredPsbts = [n \in Nodes |-> <<>>]
    /\ timesReplenishedPerPeriod = [n \in Nodes |-> [p \in Periods |-> 0]]
    /\ iteration = [n \in Nodes |-> Idle]
    /\ messages = {}
    /\ balance = InitialBalance
    /\ outputs = {}
    /\ mempool = {}
    /\ mined = {}
    /\ taken = {}
    /\ period = 0
    /\ sent = [p \in Periods |-> 0]
    /\ handovers = 0
    /\ mishaps = 0

Iterate(n) ==
    \/ BeginIteration(n) \/ CreatePsbt(n) \/ RequestAgain(n) \/ Submit(n) \/ Confirmed(n)

Next ==
    \/ \E n \in Nodes : Iterate(n) \/ WaitTimesOut(n) \/ WaitFails(n) \/ Restart(n)
    \/ \E msg \in messages : OnMessage(msg) \/ MessageGetsLost(msg)
    \/ \E tx \in mempool : Mine(tx)
    \/ \E amount \in Amounts, spent \in SUBSET outputs : PegOut(amount, spent)
    \/ NextPeriod
    \/ \E n \in Nodes : ChangeInitiators(n)
    \/ \E c \in Coins : CoinIsTaken(c)

Spec == Init /\ [][Next]_vars

\* Main loops go on, messages arrive, and Bitcoin mines. An iteration may begin only
\* between messages, hence SF.
Fairness ==
    /\ \A n \in Nodes : SF_vars(Iterate(n))
    /\ WF_vars(\E msg \in messages : OnMessage(msg))
    /\ WF_vars(\E tx \in mempool : Mine(tx))

FairSpec == Spec /\ Fairness

-----------------------------------------------------------------------------
\* Type invariant. A PSBT spends some coins, no more than a node can sign, and they
\* are worth their fee.
ReplenisherTypeOK ==
    /\ initiators \in (SUBSET Nodes) \ {{}}
    /\ \A n \in Nodes :
         \/ unsignedReplenishPsbt[n] = NoPsbt
         \/ /\ unsignedReplenishPsbt[n] \in SUBSET Coins
            /\ Cardinality(unsignedReplenishPsbt[n]) \in 1 .. MaxReplenishTxInputs
            /\ Total(unsignedReplenishPsbt[n]) >= Fee(unsignedReplenishPsbt[n])
    /\ \A n \in Nodes : Len(gatheredPsbts[n]) <= MaxGathered
    /\ timesReplenishedPerPeriod \in [Nodes -> [Periods -> Nat]]
    /\ \A n \in Nodes : iteration[n].step \in {"idle", "checked", "waiting"}
    /\ balance \in Nat
    /\ outputs \subseteq mined /\ mempool \cap mined = {}
    /\ period \in Periods
    /\ sent \in [Periods -> Nat]

\* "Limit replenishments to N per period as a security measure" (replenisher.ts:38):
\* Bitcoin gets no more of them than that from the iterations of one period, even when
\* waits time out and coins vanish, and whether the period ends in the middle of an
\* iteration. That is so until nodes turn to another initiator, one restarts or a wait
\* fails: then the count is lost, or old counts replace newer ones (see the README).
CapHolds ==
    handovers = 0 => \A p \in Periods : sent[p] <= MaxReplenishmentsDuringPeriod

\* While a replenishment is on its way the next is not sent, although the balance is
\* still low (replenisher.ts:160). What goes wrong lets one more through each time.
FewAtOnce == Cardinality(mempool) <= 1 + handovers + mishaps

Exhausted ==
    \A n \in initiators : timesReplenishedPerPeriod[n][period] >= MaxReplenishmentsDuringPeriod

\* An initiator holds a PSBT that was mined already: Bitcoin refuses it with an error
\* that does not drop it, until the first multisig has spent its output.
Outdated == \E n \in initiators : unsignedReplenishPsbt[n] \in outputs

\* A low balance is made up for, unless the limit is reached, the second multisig has
\* nothing left, or the initiator's PSBT is outdated, although signatures and
\* requests get lost, coins vanish, nodes restart and initiators change.
RefilledInTheEnd ==
    []<>(~ShouldReplenish \/ Exhausted \/ ~CanReplenish \/ Outdated)
=============================================================================
